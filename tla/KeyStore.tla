------------------------------ MODULE KeyStore ------------------------------
(***************************************************************************)
(* One shard of the keyed limiter: PerKey (src/perkey.rs) over the bounded *)
(* store of src/store.rs, under the policies of src/eviction.rs.  A key's  *)
(* bucket is the instant it is full again.  A caller that does not find    *)
(* its key under the read lock comes back under the write lock, where the  *)
(* key may meanwhile have been inserted, evicted or forgotten by calls     *)
(* that ran whole.  Callers that find it share the read lock, and each     *)
(* compares the key's stamp and stores its own in two steps.  Shards are   *)
(* independent; distinct keys have distinct hashes.                        *)
(***************************************************************************)
EXTENDS Integers, FiniteSetsExt, SequencesExt

CONSTANTS Keys, Callers,
          Setups,      \* [amount, burst, initial, max, ttl, forget, shards, until]
          Period,      \* time in which `amount' tokens are refilled
          Costs,       \* costs requested and given back
          Budgets,     \* longest waits accepted: 0 for try_acquire
          Ms,          \* units of time per millisecond
          MaxKeysPerShard, MaxShards, MaxSlots,
          ClockScan, TtlSweep, LedgerScan,    \* work per insertion
          MaxLag,      \* age of a reading once the lock is held
          MaxHold      \* time spent inside the read lock

None == -1
Powers == {1, 2, 4, 8, 16, 32, 64, 128, 256, 512, 1024, 2048, 4096, 8192, 16384, 32768, 65536}

ASSUME KeyStoreAssumption ==
  /\ Setups \subseteq [amount : Nat, burst : Nat \cup {None}, initial : Nat \cup {None},
                       max : Nat \cup {None}, ttl : Nat \cup {None}, forget : BOOLEAN,
                       shards : Nat, until : Nat]   \* until: where time is cut off
  /\ Period \in Nat /\ \A s \in Setups : s.amount > 0 => Period % s.amount = 0
  /\ Costs \subseteq Nat /\ Budgets \subseteq Nat
  /\ Ms \in Nat \ {0} /\ MaxKeysPerShard \in Nat \ {0} /\ MaxShards \in Powers
  /\ {MaxSlots, ClockScan, TtlSweep, LedgerScan} \subseteq Nat \ {0}
  /\ MaxLag \in Nat /\ MaxHold \in Nat

VARIABLES clock,    \* the clock, from the store's epoch
          conf,     \* the configuration in force, chosen once
          map,      \* the shard behind its lock
          call,     \* what each caller is about to do under a lock
          ghost,    \* history: when each key would be full had none been evicted
          newest    \* history: the newest reading used under the write lock

storeVars == <<clock, conf, map, call, ghost, newest>>

-----------------------------------------------------------------------------
(* Configuration. *)

MaxOf(a, b) == IF a > b THEN a ELSE b
MinOf(a, b) == IF a < b THEN a ELSE b
CeilDiv(a, b) == (a + b - 1) \div b
Clamp(x, lo, hi) == MaxOf(lo, MinOf(x, hi))

(* PerKeyBuilder::config; a capacity of 0 is the closed limiter. *)
Config(s) ==
  LET cap == IF s.amount = 0 \/ Period = 0 THEN 0
             ELSE IF s.burst = None THEN s.amount ELSE s.burst
  IN  [cap |-> cap,
       initial |-> IF s.initial = None THEN cap ELSE MinOf(s.initial, cap),
       per |-> IF cap = 0 THEN 1 ELSE Period \div s.amount]

TimeToFull(c) == c.cap * c.per

(* Store::new. *)
NextPowerOfTwo(n) == Min({p \in Powers : p >= n})
ShardCount(s) ==
  LET forCap == IF s.max = None THEN 1 ELSE CeilDiv(s.max, MaxKeysPerShard)
  IN  NextPowerOfTwo(Clamp(MaxOf(s.shards, forCap), 1, MaxShards))
PerShardCap(s) ==
  IF s.max = None THEN MaxSlots ELSE Clamp(CeilDiv(s.max, ShardCount(s)), 1, MaxSlots)

(* Mutant: the rounding of the two stamps is not made up for. *)
IdleTtlExact(s, c) ==
  IF s.ttl = None THEN None ELSE CeilDiv(MaxOf(s.ttl, TimeToFull(c)), Ms)

IdleTtl(s, c) ==
  IF s.ttl = None THEN None ELSE CeilDiv(MaxOf(s.ttl, TimeToFull(c)), Ms) + 1

Assemble(s) ==
  LET c == Config(s)
  IN  [cap |-> c.cap, initial |-> c.initial, per |-> c.per, keys |-> PerShardCap(s),
       ttl |-> IdleTtl(s, c), idle |-> MaxOf(s.ttl, TimeToFull(c)), forget |-> s.forget,
       until |-> s.until]

EmptyMap == [slots |-> <<>>, hand |-> 0, sweep |-> 0, debts |-> <<>>, cursor |-> 0]
NoCall == [kind |-> "none"]

StoreInit ==
  /\ clock = 0
  /\ conf \in {Assemble(s) : s \in Setups}
  /\ map = EmptyMap
  /\ call = [c \in Callers |-> NoCall]
  /\ ghost = [k \in Keys |-> 0]
  /\ newest = 0

-----------------------------------------------------------------------------
(* The bucket (better_bucket::BucketCore), by the instant it is full. *)

Missing(full, at) == CeilDiv(MaxOf(full - at, 0), conf.per)
Lossless(full, at) == full <= at
Wait(full, at, cost) == MaxOf(MaxOf(full, at) + cost * conf.per - conf.cap * conf.per - at, 0)
Spent(g, full, at, cost, budget) ==
  IF Wait(full, at, cost) <= budget THEN MaxOf(g, at) + cost * conf.per ELSE g

Refunded(full, cost) == MaxOf(full - cost * conf.per, 0)

Fresh(at) == at + (conf.cap - conf.initial) * conf.per

(* Mutant: rounded down. *)
RestoredDown(at, settles) ==
  at + MaxOf(conf.cap - conf.initial, MaxOf(settles - at, 0) \div conf.per) * conf.per

(* restore_debt: the units still missing, rounded up. *)
Restored(at, settles) ==
  at + MaxOf(conf.cap - conf.initial, Missing(settles, at)) * conf.per

-----------------------------------------------------------------------------
(* The shard. *)

Live(m) == {m.slots[i].key : i \in DOMAIN m.slots}
Owed(m) == {m.debts[i].key : i \in DOMAIN m.debts}
SlotOf(m, k) == CHOOSE i \in DOMAIN m.slots : m.slots[i].key = k
DebtOf(m, k) == CHOOSE i \in DOMAIN m.debts : m.debts[i].key = k

(* swap_remove, at a position counted from 0. *)
SwapRemove(s, pos) ==
  IF pos + 1 = Len(s) THEN Front(s) ELSE [Front(s) EXCEPT ![pos + 1] = Last(s)]
Wrap(pos, s) == IF pos >= Len(s) THEN 0 ELSE pos

Millis(at) == at \div Ms

(* Entry::new, and Entry::touch where nobody else touches the entry. *)
Entry(k, full, at) == [key |-> k, full |-> full, ref |-> FALSE,
                       seen |-> IF conf.ttl = None THEN 0 ELSE Millis(at),
                       last |-> IF conf.ttl = None THEN 0 ELSE at]
Touched(e, at) ==
  [e EXCEPT !.ref = TRUE,
            !.seen = IF conf.ttl = None THEN @ ELSE MaxOf(@, Millis(at)),
            !.last = IF conf.ttl = None THEN @ ELSE MaxOf(@, at)]

(* sweep_idle, TtlSweep times: an expired entry that has recovered goes. *)
Expired(e, at) == MaxOf(Millis(at) - e.seen, 0) >= conf.ttl
SweepIdleStep(m, at) ==
  LET pos == Wrap(m.sweep, m.slots)
      e == m.slots[pos + 1]
  IN  IF m.slots = <<>> THEN m
      ELSE IF Expired(e, at) /\ Lossless(e.full, at)
        THEN [m EXCEPT !.slots = SwapRemove(@, pos), !.sweep = pos]
        ELSE [m EXCEPT !.sweep = pos + 1]
SweepIdle(m, at) ==
  LET after[n \in 0..TtlSweep] == IF n = 0 THEN m ELSE SweepIdleStep(after[n - 1], at)
  IN  IF conf.ttl = None THEN m ELSE after[TtlSweep]

(* Ledger::sweep, LedgerScan times: a settled debt goes. *)
SweepDebtsStep(m, at) ==
  LET pos == Wrap(m.cursor, m.debts)
  IN  IF m.debts = <<>> THEN m
      ELSE IF m.debts[pos + 1].at <= at
        THEN [m EXCEPT !.debts = SwapRemove(@, pos), !.cursor = pos]
        ELSE [m EXCEPT !.cursor = pos + 1]
SweepDebts(m, at) ==
  LET after[n \in 0..LedgerScan] == IF n = 0 THEN m ELSE SweepDebtsStep(after[n - 1], at)
  IN  after[LedgerScan]

(* Ledger::record among the next LedgerScan debts: a settled one gives way, *)
(* else the soonest if the policy forgets.                                  *)
ScanDebtsStep(debts, a, at) ==
  LET pos == Wrap(a.cursor, debts)
      settles == debts[pos + 1].at
      better == a.pos = None \/ settles < debts[a.pos + 1].at
  IN  IF a.found THEN a
      ELSE IF settles <= at THEN [cursor |-> pos, pos |-> pos, found |-> TRUE]
      ELSE [cursor |-> pos + 1, pos |-> IF better THEN pos ELSE a.pos, found |-> FALSE]
ScanDebts(m, at) ==
  LET looks == MinOf(LedgerScan, Len(m.debts))
      after[n \in 0..looks] ==
        IF n = 0 THEN [cursor |-> m.cursor, pos |-> None, found |-> FALSE]
        ELSE ScanDebtsStep(m.debts, after[n - 1], at)
  IN  after[looks]

Record(m, debt, at, cap, forget) ==
  IF Len(m.debts) < cap
    THEN [ok |-> TRUE, map |-> [m EXCEPT !.debts = Append(@, debt)], lost |-> {}]
  ELSE LET scan == ScanDebts(m, at)
           m1 == [m EXCEPT !.cursor = scan.cursor]
       IN  IF scan.found \/ forget
             THEN [ok |-> TRUE,
                   map |-> [m1 EXCEPT !.debts = Append(SwapRemove(@, scan.pos), debt)],
                   lost |-> IF scan.found THEN {} ELSE {m.debts[scan.pos + 1].key}]
             ELSE [ok |-> FALSE, map |-> m1, lost |-> {}]

(* evict_one: the hand looks at ClockScan slots and clears their marks; a   *)
(* recovered key goes, one without a mark first, else a limited one whose   *)
(* debt the ledger takes.                                                   *)
ClockScanStep(a, at) ==
  LET pos == Wrap(a.hand, a.slots)
      e == a.slots[pos + 1]
      b == [a EXCEPT !.slots[pos + 1].ref = FALSE, !.hand = pos + 1]
      better == a.limited = None \/ (a.marked /\ ~e.ref)
  IN  IF a.victim # None THEN a
      ELSE IF Lossless(e.full, at)
        THEN IF ~e.ref THEN [b EXCEPT !.victim = pos, !.hand = pos]
             ELSE [b EXCEPT !.first = IF @ = None THEN pos ELSE @]
      ELSE IF better THEN [b EXCEPT !.limited = pos, !.marked = e.ref] ELSE b
ClockScanFrom(m, at) ==
  LET looks == MinOf(ClockScan, Len(m.slots))
      after[n \in 0..looks] ==
        IF n = 0 THEN [slots |-> m.slots, hand |-> m.hand, victim |-> None, first |-> None,
                       limited |-> None, marked |-> FALSE]
        ELSE ClockScanStep(after[n - 1], at)
  IN  after[looks]

Evict(m, pos) == [m EXCEPT !.slots = SwapRemove(@, pos), !.hand = pos + 1]

EvictOne(m, at) ==
  LET scan == ClockScanFrom(m, at)
      m1 == [m EXCEPT !.slots = scan.slots, !.hand = scan.hand]
      recovered == IF scan.victim # None THEN scan.victim ELSE scan.first
      e == scan.slots[scan.limited + 1]
      kept == Record(m1, [key |-> e.key, at |-> MaxOf(e.full, at)], at, conf.keys, conf.forget)
  IN  IF recovered # None
        THEN [ok |-> TRUE, map |-> Evict(m1, recovered), lost |-> {}]
        ELSE [kept EXCEPT !.map = IF kept.ok THEN Evict(@, scan.limited) ELSE @]

MakeRoom(m, at) ==
  LET swept == SweepDebts(SweepIdle(m, at), at)
  IN  IF Len(swept.slots) >= conf.keys THEN EvictOne(swept, at)
      ELSE [ok |-> TRUE, map |-> swept, lost |-> {}]

(* What view shows, and what an acquire finds or creates. *)
View(m, k, at) ==
  CASE k \in Live(m) -> m.slots[SlotOf(m, k)].full
    [] k \notin Live(m) /\ k \in Owed(m) -> Restored(at, m.debts[DebtOf(m, k)].at)
    [] OTHER -> Fresh(at)

-----------------------------------------------------------------------------
(* The operations.  Costs of 0 or above the capacity, and any on a closed  *)
(* limiter, are answered without looking at the store.                     *)

Staleness == MaxLag + MaxHold    \* age of a reading when the read lock is left
Readings == {t \in 0..clock : clock - t <= MaxLag}
Asked(cost) == cost > 0 /\ cost <= conf.cap

Charge(e, at, cost, budget) ==
  [Touched(e, at) EXCEPT !.full = Spent(e.full, e.full, at, cost, budget)]

(* Nobody is inside the read lock: the write lock can be had. *)
NoReader == \A c \in Callers : call[c].kind # "touch"

TakeLive(k, at, cost, budget) ==
  /\ map' = [map EXCEPT !.slots[SlotOf(map, k)] = Charge(@, at, cost, budget)]
  /\ ghost' = [ghost EXCEPT ![k] = Spent(@, View(map, k, at), at, cost, budget)]
  /\ UNCHANGED newest

(* The fast path, caught between touch's look at an older stamp and its    *)
(* store: other readers may store newer stamps meanwhile.                  *)
Hit(c, k, cost, budget, at) ==
  /\ call[c] = NoCall /\ Asked(cost)
  /\ conf.ttl # None /\ k \in Live(map)
  /\ map.slots[SlotOf(map, k)].seen < Millis(at)
  /\ map' = [map EXCEPT !.slots[SlotOf(map, k)].ref = TRUE]
  /\ call' = [call EXCEPT ![c] = [kind |-> "touch", key |-> k, cost |-> cost,
                                  budget |-> budget, at |-> at]]
  /\ UNCHANGED <<clock, conf, ghost, newest>>

(* The store, whatever the stamp is by now, and the bucket's operation. *)
Stamp(c) ==
  LET q == call[c]
  IN  /\ q.kind = "touch"
      /\ map' = [map EXCEPT !.slots[SlotOf(map, q.key)] =
                   [Charge(@, q.at, q.cost, q.budget) EXCEPT !.seen = Millis(q.at)]]
      /\ ghost' = [ghost EXCEPT ![q.key] =
                     Spent(@, View(map, q.key, q.at), q.at, q.cost, q.budget)]
      /\ call' = [call EXCEPT ![c] = NoCall]
      /\ UNCHANGED <<clock, conf, newest>>

(* decide, reserve and a waiter's step find no entry under the read lock   *)
(* and ask for the write lock.                                             *)
Miss(c, k, cost, budget) ==
  /\ call[c] = NoCall /\ Asked(cost)
  /\ k \notin Live(map)
  /\ call' = [call EXCEPT ![c] = [kind |-> "take", key |-> k, cost |-> cost,
                                  budget |-> budget, at |-> clock]]
  /\ UNCHANGED <<clock, conf, map, ghost, newest>>

(* History: keys whose debt was forgotten owe nothing, and neither does a  *)
(* key created with a clock older than the shard has seen.  What a key had *)
(* recovered by the newest reading is no longer told apart.                *)
Charged(k, full, at, cost, budget, lost) ==
  [j \in Keys |->
     IF j = k THEN Spent(IF at < newest THEN 0 ELSE ghost[k], full, at, cost, budget)
     ELSE IF j \in lost \/ (j \notin Live(map') /\ ghost[j] <= newest') THEN 0
     ELSE ghost[j]]

(* Mutant: room is made before the debt is taken. *)
InsertRoomFirst(k, at, cost, budget) ==
  LET room == MakeRoom(map, at)
      full == View(map, k, at)
      m1 == room.map
      m2 == IF k \in Owed(m1) THEN [m1 EXCEPT !.debts = SwapRemove(@, DebtOf(m1, k) - 1)]
                              ELSE m1
  IN  IF room.ok
        THEN /\ map' = [m2 EXCEPT !.slots = Append(@, Entry(k, Spent(full, full, at, cost, budget), at))]
             /\ newest' = MaxOf(newest, at)
             /\ ghost' = Charged(k, full, at, cost, budget, room.lost)
        ELSE map' = m1 /\ newest' = MaxOf(newest, at) /\ UNCHANGED ghost

(* The slow path: the debt is taken from the ledger, room is made, and the *)
(* key enters in its debt; refused, it gets the debt back.                 *)
Insert(k, at, cost, budget) ==
  LET owed == k \in Owed(map)
      m0 == IF owed THEN [map EXCEPT !.debts = SwapRemove(@, DebtOf(map, k) - 1)] ELSE map
      room == MakeRoom(m0, at)
      full == View(map, k, at)
  IN  IF room.ok
        THEN /\ map' = [room.map EXCEPT
                          !.slots = Append(@, Entry(k, Spent(full, full, at, cost, budget), at))]
             /\ newest' = MaxOf(newest, at)
             /\ ghost' = Charged(k, full, at, cost, budget, room.lost)
        ELSE /\ map' = IF owed THEN Record(room.map, map.debts[DebtOf(map, k)], at,
                                           MaxSlots + 1, FALSE).map
                               ELSE room.map
             /\ newest' = MaxOf(newest, at)
             /\ UNCHANGED ghost

FindOrInsert(k, at, cost, budget) ==
  IF k \in Live(map) THEN TakeLive(k, at, cost, budget) ELSE Insert(k, at, cost, budget)

(* Mutant: the key is not looked up again under the write lock. *)
TakeLockedBlind(c) ==
  /\ call[c].kind = "take" /\ NoReader
  /\ Insert(call[c].key, call[c].at, call[c].cost, call[c].budget)
  /\ call' = [call EXCEPT ![c] = NoCall]
  /\ UNCHANGED <<clock, conf>>

TakeLocked(c) ==
  LET q == call[c]
  IN  /\ q.kind = "take" /\ NoReader
      /\ FindOrInsert(q.key, q.at, q.cost, q.budget)
      /\ call' = [call EXCEPT ![c] = NoCall]
      /\ UNCHANGED <<clock, conf>>

(* A call that meets nobody between its locks: the fast path for a key that *)
(* has an entry, both sections for one that has not.                        *)
Take(k, cost, budget, at) ==
  /\ Asked(cost)
  /\ k \in Live(map) \/ NoReader
  /\ FindOrInsert(k, at, cost, budget)
  /\ UNCHANGED <<clock, conf, call>>

RefundLive(k, cost) ==
  /\ map' = [map EXCEPT !.slots[SlotOf(map, k)].full = Refunded(@, cost)]
  /\ ghost' = [ghost EXCEPT ![k] = Refunded(@, cost)]

Repay(k, cost) ==
  \/ k \in Live(map) /\ RefundLive(k, cost)
  \/ /\ k \notin Live(map) /\ k \in Owed(map)
     /\ map' = [map EXCEPT !.debts[DebtOf(map, k)].at = Refunded(@, cost)]
     /\ ghost' = [ghost EXCEPT ![k] = Refunded(@, cost)]
  \/ k \notin Live(map) \cup Owed(map) /\ UNCHANGED <<map, ghost>>

(* refund, by a caller or by a dropped wait: to the live bucket, or off the *)
(* debt under the write lock.  A full bucket takes nothing.                 *)
Refund(k, cost) ==
  /\ ~Lossless(View(map, k, clock), clock)
  /\ k \in Live(map) \/ (k \in Owed(map) /\ NoReader)
  /\ Repay(k, cost)
  /\ UNCHANGED <<clock, conf, call, newest>>

RefundMiss(c, k, cost) ==
  /\ call[c] = NoCall
  /\ k \notin Live(map) /\ k \in Owed(map)
  /\ call' = [call EXCEPT ![c] = [kind |-> "refund", key |-> k, cost |-> cost]]
  /\ UNCHANGED <<clock, conf, map, ghost, newest>>

RefundLocked(c) ==
  /\ call[c].kind = "refund" /\ NoReader
  /\ Repay(call[c].key, call[c].cost)
  /\ call' = [call EXCEPT ![c] = NoCall]
  /\ UNCHANGED <<clock, conf, newest>>

(* remove and clear forget the keys and what they owed. *)
RemoveKey(k) ==
  /\ k \in Live(map) \cup Owed(map) /\ NoReader
  /\ map' = [map EXCEPT
       !.debts = IF k \in Owed(map) THEN SwapRemove(@, DebtOf(map, k) - 1) ELSE @,
       !.slots = IF k \in Live(map) THEN SwapRemove(@, SlotOf(map, k) - 1) ELSE @]
  /\ ghost' = [ghost EXCEPT ![k] = 0]
  /\ UNCHANGED <<clock, conf, call, newest>>

Clear ==
  /\ map # EmptyMap /\ NoReader
  /\ map' = EmptyMap
  /\ ghost' = [k \in Keys |-> 0]
  /\ UNCHANGED <<clock, conf, call, newest>>

(* reset fills a live bucket, and leaves a debt alone. *)
Reset(k) ==
  /\ k \in Live(map)
  /\ map' = [map EXCEPT !.slots[SlotOf(map, k)].full = clock]
  /\ ghost' = [ghost EXCEPT ![k] = clock]
  /\ UNCHANGED <<clock, conf, call, newest>>

(* A reader is not inside the lock for ever. *)
ClockTick ==
  /\ clock < conf.until
  /\ \A c \in Callers : call[c].kind = "touch" => clock - call[c].at < Staleness
  /\ clock' = clock + 1
  /\ UNCHANGED <<conf, map, call, ghost, newest>>

StoreNext ==
  \/ \E k \in Keys, cost \in Costs, budget \in Budgets, at \in Readings :
       Take(k, cost, budget, at)
  \/ \E c \in Callers, k \in Keys, cost \in Costs, budget \in Budgets :
       Miss(c, k, cost, budget)
  \/ \E c \in Callers, k \in Keys, cost \in Costs, budget \in Budgets, at \in Readings :
       Hit(c, k, cost, budget, at)
  \/ \E k \in Keys, cost \in Costs : Refund(k, cost)
  \/ \E c \in Callers, k \in Keys, cost \in Costs : RefundMiss(c, k, cost)
  \/ \E c \in Callers : Stamp(c) \/ TakeLocked(c) \/ RefundLocked(c)
  \/ \E k \in Keys : RemoveKey(k) \/ Reset(k)
  \/ Clear
  \/ ClockTick

StoreSpec == StoreInit /\ [][StoreNext]_storeVars

-----------------------------------------------------------------------------
(* The shard, its cursors and the callers have the shapes of the code. *)
StoreTypeOK ==
  /\ clock \in 0..conf.until /\ newest \in 0..clock
  /\ \A i \in DOMAIN map.slots :
       map.slots[i] \in [key : Keys, full : Nat, ref : BOOLEAN, seen : Nat, last : Nat]
  /\ \A i \in DOMAIN map.debts : map.debts[i] \in [key : Keys, at : Nat]
  /\ {map.hand, map.sweep, map.cursor} \subseteq 0..MaxOf(conf.keys, 1)
  /\ \A c \in Callers : call[c].kind \in {"none", "touch", "take", "refund"}
  /\ ghost \in [Keys -> Nat]

(* A key has one entry, or one debt, or neither, though it is looked up    *)
(* under one lock and inserted under another: two entries would be two     *)
(* allowances (with_or_insert, store.rs).                                  *)
OneStatePerKey ==
  /\ Cardinality(Live(map)) = Len(map.slots)
  /\ Cardinality(Owed(map)) = Len(map.debts)
  /\ Live(map) \cap Owed(map) = {}

(* Neither the entries nor the debts outgrow the shard's share of the cap, *)
(* whichever way keys come and go, and the debt of a refused key included. *)
MemoryBounded == Len(map.slots) <= conf.keys /\ Len(map.debts) <= conf.keys

(* The store's map at every moment: its types, one state per key, bounded. *)
MapSound == StoreTypeOK /\ OneStatePerKey /\ MemoryBounded

(* No key is fuller than if nothing had ever been evicted, through any     *)
(* number of evictions, sweeps, restorations and refunds paid off a debt,  *)
(* unless ForgetDebt forgot its debt or it was created with a clock older  *)
(* than the shard had seen: `ghost' then starts again.                     *)
NoFreeTokens ==
  \A k \in Keys : Missing(View(map, k, clock), clock) >= Missing(ghost[k], clock)

(* A key that left a debt is never refused for lack of room: its own place *)
(* in the ledger is free for whoever makes room (make_room after take).    *)
DebtorsReturn ==
  [][\A c \in Callers :
       call[c].kind = "take" /\ call[c].key \in Owed(map) /\ call'[c] = NoCall
         => call[c].key \in Live(map')]_storeVars

(* The keys the insertion of caller c sweeps were idle for `least'. *)
SweepsIdleSince(c, least) ==
  LET kept == SweepIdle(map, call[c].at)
  IN  call[c].key \notin Live(map) =>
        \A i \in DOMAIN map.slots :
          map.slots[i].key \in Live(kept) \/ call[c].at - map.slots[i].last >= least

(* The idle sweep takes only keys that were idle for the whole TTL, less   *)
(* what the older of two concurrent readers had lost since it read the     *)
(* clock: it compares stamps rounded down to a millisecond, and a stamp    *)
(* goes back when that reader stores its own last (touch, is_expired).     *)
IdleIsIdle ==
  [][\A c \in Callers : call[c].kind = "take" /\ call'[c] = NoCall /\ conf.ttl # None =>
       SweepsIdleSince(c, conf.idle + 1 - Staleness)]_storeVars

(* What Eviction::idle says: only keys idle for longer than the TTL go.    *)
IdleForWholeTtl ==
  [][\A c \in Callers : call[c].kind = "take" /\ call'[c] = NoCall /\ conf.ttl # None =>
       SweepsIdleSince(c, conf.idle)]_storeVars
=============================================================================
