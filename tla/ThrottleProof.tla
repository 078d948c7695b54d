---------------------------- MODULE ThrottleProof ----------------------------
(***************************************************************************)
(* Proofs about the token bucket and its waiting acquires, for every       *)
(* capacity, set of waiters, costs, timeouts, pauses, refunds, drains and  *)
(* charges.                                                                *)
(***************************************************************************)
EXTENDS Throttle, Counting

-----------------------------------------------------------------------------
(* Tokens by the instant of their use. *)

Times == 0..MaxNow
After(d) == {i \in Nat : i > d}
From(a) == {i \in Nat : i >= a}

(* The tokens granted at an instant of W; the tokens held for an instant   *)
(* of W by a waiter at one of the places P.                                *)
UsedAt(W) == [i \in Times |-> IF i \in W THEN spent[i] ELSE 0]
Used(W) == Total(UsedAt(W), Times)

Part(m, W, P) == IF m.pc \in P /\ m.due \in W THEN m.cost ELSE 0
OwedBy(W, P) == [x \in Waiters |-> Part(wt[x], W, P)]
Owed(W, P) == Total(OwedBy(W, P), Waiters)

(* All that is or will be used at an instant of W, if nothing is given     *)
(* back and nothing pauses.                                                *)
Uses(W) == Used(W) + Owed(W, Holding)

(* What is to be used after d, of what the balance has been charged for. *)
Future(d) == Used(After(d)) + Owed(After(d), {"reserved"})

LEMMA Constant ==
  /\ Cap \in Nat /\ Cap >= 1 /\ MaxNow \in Nat /\ Forever \in Nat /\ Forever > MaxNow
  /\ IsFiniteSet(Waiters) /\ IsFiniteSet(Times)
<1>1. /\ Cap \in Nat /\ Cap >= 1 /\ MaxNow \in Nat /\ Forever \in Nat /\ Forever > MaxNow
      /\ IsFiniteSet(Waiters)
  BY ThrottleAssumption
<1>2. IsFiniteSet(Times)
  BY <1>1, FS_Interval DEF Times
<1> QED BY <1>1, <1>2

LEMMA PartType ==
  ASSUME NEW m \in Waits, NEW W, NEW P
  PROVE  Part(m, W, P) \in Nat /\ m.cost \in Nat
BY Constant DEF Part, Waits

LEMMA UsedType ==
  ASSUME TypeOK, NEW W
  PROVE  /\ \A i \in Times : UsedAt(W)[i] \in Nat /\ spent[i] \in Nat
         /\ Used(W) \in Nat
<1>1. \A i \in Times : UsedAt(W)[i] \in Nat /\ spent[i] \in Nat
  BY DEF TypeOK, UsedAt, Times
<1> QED BY <1>1, Constant, UnitsFinite DEF Used

LEMMA OwedType ==
  ASSUME TypeOK, NEW W, NEW P
  PROVE  /\ \A x \in Waiters : OwedBy(W, P)[x] \in Nat
         /\ Owed(W, P) \in Nat
<1>1. \A x \in Waiters : OwedBy(W, P)[x] \in Nat
  BY PartType DEF TypeOK, OwedBy
<1> QED BY <1>1, Constant, UnitsFinite DEF Owed

(* A change of one instant's grants shows in the sums over that instant. *)
LEMMA UsedChanged ==
  ASSUME TypeOK, NEW i \in Times, NEW n \in Nat, spent' = [spent EXCEPT ![i] = n], NEW W
  PROVE  /\ i \in W => Used(W)' = Used(W) - spent[i] + n
         /\ i \notin W => Used(W)' = Used(W)
<1> DEFINE f == UsedAt(W)
           g == UsedAt(W)'
<1>1. /\ spent'[i] = n /\ \A j \in Times : j # i => spent'[j] = spent[j]
  BY DEF TypeOK, Times
<1>2. /\ \A j \in Times : f[j] = IF j \in W THEN spent[j] ELSE 0
      /\ \A j \in Times : g[j] = IF j \in W THEN spent'[j] ELSE 0
  BY DEF UsedAt
<1>3. \A j \in Times : f[j] \in Nat /\ spent[j] \in Nat
  BY UsedType
<1>4. \A j \in Times : g[j] \in Nat
  BY <1>1, <1>2, <1>3
<1>5. \A j \in Times : j # i => g[j] = f[j]
  BY <1>1, <1>2
<1>6. Used(W) = Total(f, Times) /\ Used(W)' = Total(g, Times)
  BY DEF Used
<1> HIDE DEF f, g
<1>7. /\ Total(f, Times) \in Nat /\ Total(g, Times) = Total(f, Times) - f[i] + g[i]
  BY <1>3, <1>4, <1>5, Constant, TotalChanged
<1> QED BY <1>1, <1>2, <1>3, <1>6, <1>7

(* So does a change of one waiter. *)
LEMMA OwedChanged ==
  ASSUME TypeOK, NEW x \in Waiters, NEW m \in Waits, wt' = [wt EXCEPT ![x] = m], NEW W, NEW P
  PROVE  Owed(W, P)' = Owed(W, P) - Part(wt[x], W, P) + Part(m, W, P)
<1> DEFINE f == OwedBy(W, P)
           g == OwedBy(W, P)'
<1>1. /\ wt'[x] = m /\ \A y \in Waiters : y # x => wt'[y] = wt[y]
      /\ \A y \in Waiters : wt[y] \in Waits /\ wt'[y] \in Waits
  BY DEF TypeOK
<1>2. /\ \A y \in Waiters : f[y] = Part(wt[y], W, P)
      /\ \A y \in Waiters : g[y] = Part(wt'[y], W, P)
  BY DEF OwedBy, Part
<1>3. \A y \in Waiters : f[y] \in Nat /\ g[y] \in Nat
  BY <1>1, <1>2, PartType
<1>4. \A y \in Waiters : y # x => g[y] = f[y]
  BY <1>1, <1>2
<1>5. Owed(W, P) = Total(f, Waiters) /\ Owed(W, P)' = Total(g, Waiters)
  BY DEF Owed
<1> HIDE DEF f, g
<1>6. Total(g, Waiters) = Total(f, Waiters) - f[x] + g[x]
  BY <1>3, <1>4, Constant, TotalChanged
<1> QED BY <1>1, <1>2, <1>5, <1>6

(* More instants, more tokens. *)
LEMMA UsesMono ==
  ASSUME TypeOK, NEW V, NEW W, V \subseteq W
  PROVE  Uses(V) \in Nat /\ Uses(W) \in Nat /\ Uses(V) <= Uses(W)
<1>1. \A i \in Times : UsedAt(V)[i] <= UsedAt(W)[i]
  <2>1. \A i \in Times : spent[i] \in Nat
    BY UsedType
  <2> QED BY <2>1 DEF UsedAt
<1>2. Used(V) \in Nat /\ Used(W) \in Nat /\ Used(V) <= Used(W)
  BY <1>1, UsedType, Constant, TotalMono DEF Used
<1>3. \A x \in Waiters : OwedBy(V, Holding)[x] <= OwedBy(W, Holding)[x]
  <2>1. \A x \in Waiters : wt[x] \in Waits /\ wt[x].cost \in Nat
    BY PartType DEF TypeOK
  <2> QED BY <2>1 DEF OwedBy, Part
<1>4. Owed(V, Holding) \in Nat /\ Owed(W, Holding) \in Nat /\ Owed(V, Holding) <= Owed(W, Holding)
  BY <1>3, OwedType, Constant, TotalMono DEF Owed
<1> QED BY <1>2, <1>4 DEF Uses

(* Nothing is used at instants nothing is booked for. *)
LEMMA UsesNothing ==
  ASSUME TypeOK, NEW W, \A i \in Times : i \in W => spent[i] = 0,
         \A x \in Waiters : wt[x].pc \in Holding => wt[x].due \notin W
  PROVE  Uses(W) = 0
<1>1. Used(W) = 0
  <2>1. \A i \in Times : UsedAt(W)[i] = 0
    BY DEF UsedAt
  <2> QED BY <2>1, TotalZero DEF Used
<1>2. Owed(W, Holding) = 0
  <2>1. \A x \in Waiters : OwedBy(W, Holding)[x] = 0
    BY DEF OwedBy, Part
  <2> QED BY <2>1, TotalZero DEF Owed
<1> QED BY <1>1, <1>2 DEF Uses

(* The sums of the properties are sums of this kind. *)
LEMMA GrantedIs ==
  ASSUME TypeOK, NEW a \in Nat, NEW b \in Times
  PROVE  Granted(a, b) = Used(a..b)
<1>1. a..b \subseteq Times
  BY Constant DEF Times
<1>2. Granted(a, b) = Total(spent, a..b)
  BY DEF Granted, SumOver, Total, UnitsOf
<1> QED BY <1>1, <1>2, TotalPart DEF Used, UsedAt

LEMMA PromisedIs ==
  ASSUME TypeOK
  PROVE  Promised = Owed(Nat, Holding)
<1> DEFINE f == [x \in Waiters |-> wt[x].cost]
<1>1. Reserved \subseteq Waiters
  BY DEF Reserved
<1>2. Promised = Total(f, Reserved)
  BY DEF Promised, SumOver, Total, UnitsOf
<1>3. [x \in Waiters |-> IF x \in Reserved THEN f[x] ELSE 0] = OwedBy(Nat, Holding)
  <2>1. \A x \in Waiters : wt[x].due \in Nat
    BY DEF TypeOK, Waits
  <2> QED BY <2>1 DEF OwedBy, Part, Reserved
<1> HIDE DEF f
<1>4. Total(f, Reserved) = Total([x \in Waiters |-> IF x \in Reserved THEN f[x] ELSE 0], Waiters)
  BY <1>1, TotalPart
<1> QED BY <1>2, <1>3, <1>4 DEF Owed

-----------------------------------------------------------------------------
(* The invariant. *)

(* A wait is over by its deadline, if it has one. *)
Due(m) ==
  m.pc # "idle" => /\ now <= m.due /\ now <= m.dl
                   /\ m.due <= m.dl \/ m.dl = Forever

(* Every token is somewhere. *)
Conserved == Cap + now = bal + Uses(Nat) + sunk

(* What the balance lacks until d has accrued is to be used after d, or    *)
(* was drained or charged: nothing is used before it has accrued.          *)
Covered == \A d \in Nat : d >= now => bal + (d - now) + Future(d) + sunk >= 0

(* The instant by which the debt is paid back; nothing is due later. *)
Horizon == IF bal < 0 THEN now - bal ELSE now
Latest ==
  /\ \A i \in Times : spent[i] # 0 => i <= Horizon
  /\ \A x \in Waiters : wt[x].pc \in Holding => wt[x].due <= Horizon

(* No window holds more than the burst and what accrues in it. *)
Windows == \A a, b \in Nat : a <= b => Uses(a..b) <= Cap + (b - a)

(* From any instant on, what is booked leaves room for the balance. *)
Room ==
  \A a \in Nat : a <= now \/ Uses(From(a)) # 0 => Uses(From(a)) + bal <= Cap + now - a

Calmly == calm => hold = 0 /\ Latest /\ Windows /\ Room /\ ArrivalOrder

Inv ==
  /\ TypeOK
  /\ \A x \in Waiters : Due(wt[x])
  /\ Conserved
  /\ Covered
  /\ Calmly

LEMMA Numbers ==
  ASSUME TypeOK
  PROVE  /\ now \in Nat /\ now <= MaxNow /\ bal \in Int /\ bal <= Cap /\ sunk \in Nat
         /\ hold \in Nat /\ hold <= Forever /\ now \in Times
BY Constant DEF TypeOK, Times

LEMMA UsesType ==
  ASSUME TypeOK, NEW W
  PROVE  Uses(W) \in Nat
BY UsedType, OwedType DEF Uses

LEMMA FutureType ==
  ASSUME TypeOK, NEW d
  PROVE  Future(d) \in Nat
BY UsedType, OwedType DEF Future

LEMMA TimeUntilIs ==
  ASSUME TypeOK, NEW k \in Nat
  PROVE  /\ TimeUntil(k) \in Nat
         /\ bal >= k => TimeUntil(k) = 0
         /\ ~(bal >= k) => TimeUntil(k) = k - bal
<1>1. bal \in Int
  BY Numbers
<1> QED BY <1>1 DEF TimeUntil

(* Nothing is used after the debt is paid back. *)
LEMMA NothingLater ==
  ASSUME TypeOK, Latest, NEW a \in Nat, a > Horizon
  PROVE  Uses(From(a)) = 0
<1>1. Horizon \in Int
  BY Numbers DEF Horizon
<1>2. \A i \in Times : i \in From(a) => spent[i] = 0
  BY <1>1 DEF Latest, From
<1>3. \A x \in Waiters : wt[x].pc \in Holding => wt[x].due \notin From(a)
  BY <1>1 DEF Latest, From
<1> QED BY <1>2, <1>3, UsesNothing

-----------------------------------------------------------------------------
(* The ledger when tokens are booked. *)

(* k tokens more are to be used at d. *)
Booked(k, d) ==
  /\ \A W \in SUBSET Nat : Uses(W)' = Uses(W) + (IF d \in W THEN k ELSE 0)
  /\ \A e \in Nat : e >= now => Future(e)' = Future(e) + (IF d > e THEN k ELSE 0)

(* k tokens are booked for the instant they have accrued at. *)
Books(k, d) ==
  /\ d = now + TimeUntil(k)
  /\ bal' = bal - k /\ now' = now /\ sunk' = sunk
  /\ Booked(k, d)

LEMMA BookedFacts ==
  ASSUME TypeOK, NEW k \in Nat, NEW d, Books(k, d)
  PROVE  /\ d \in Nat /\ d >= now /\ d >= Horizon
         /\ bal >= k => d = now
         /\ ~(bal >= k) => d = now + k - bal
         /\ Horizon' >= d
<1>1. now \in Nat /\ bal \in Int
  BY Numbers
<1>2. d = now + TimeUntil(k) /\ bal' = bal - k /\ now' = now
  BY DEF Books
<1> QED BY <1>1, <1>2, TimeUntilIs DEF Horizon

LEMMA BookedConserved ==
  ASSUME Inv, NEW k \in Nat, NEW d, Books(k, d)
  PROVE  Conserved' /\ Covered'
<1>1. TypeOK /\ now \in Nat /\ bal \in Int /\ sunk \in Nat /\ Cap \in Nat
  BY Numbers, Constant DEF Inv
<1>2. bal' = bal - k /\ now' = now /\ sunk' = sunk
  BY DEF Books
<1>3. /\ d \in Nat /\ d >= now /\ (bal >= k => d = now) /\ (~(bal >= k) => d = now + k - bal)
  BY <1>1, BookedFacts
<1>4. Conserved'
  <2>1. Uses(Nat)' = Uses(Nat) + k /\ Uses(Nat) \in Nat
    BY <1>1, <1>3, UsesType DEF Books, Booked
  <2>2. Cap + now = bal + Uses(Nat) + sunk
    BY DEF Inv, Conserved
  <2> QED BY <1>1, <1>2, <2>1, <2>2 DEF Conserved
<1>5. ASSUME NEW e \in Nat, e >= now
      PROVE  bal' + (e - now') + Future(e)' + sunk' >= 0
  <2>1. Future(e) \in Nat /\ Future(e)' = Future(e) + (IF d > e THEN k ELSE 0)
    BY <1>1, <1>5, FutureType DEF Books, Booked
  <2>2. bal + (e - now) + Future(e) + sunk >= 0
    BY <1>5 DEF Inv, Covered
  <2>3. CASE d > e
    BY <1>1, <1>2, <2>1, <2>2, <2>3
  <2>4. CASE ~(d > e)
    BY <1>1, <1>2, <1>3, <2>1, <2>4
  <2> QED BY <2>3, <2>4
<1>6. Covered'
  BY <1>2, <1>5 DEF Covered
<1> QED BY <1>4, <1>6

LEMMA BookedWindows ==
  ASSUME Inv, calm, NEW k \in 0..Cap, NEW d, Books(k, d)
  PROVE  Windows' /\ Room'
<1>1. /\ TypeOK /\ now \in Nat /\ bal \in Int /\ bal <= Cap /\ Cap \in Nat
      /\ k \in Nat /\ k <= Cap
  BY Numbers, Constant DEF Inv
<1>2. bal' = bal - k /\ now' = now
  BY DEF Books
<1>3. /\ d \in Nat /\ d >= now /\ (bal >= k => d = now) /\ (~(bal >= k) => d = now + k - bal)
      /\ d >= Horizon
  BY <1>1, BookedFacts
<1>4. Latest /\ Windows /\ Room
  BY DEF Inv, Calmly
<1>5. ASSUME NEW a \in Nat
      PROVE  /\ Uses(From(a)) \in Nat
             /\ a <= d => Uses(From(a))' = Uses(From(a)) + k
             /\ ~(a <= d) => Uses(From(a))' = 0 /\ ~(a <= now)
  <2>1. From(a) \in SUBSET Nat /\ (d \in From(a) <=> a <= d)
    BY <1>3 DEF From
  <2>2. Uses(From(a)) \in Nat
    BY <1>1, UsesType
  <2>3. Uses(From(a))' = Uses(From(a)) + (IF d \in From(a) THEN k ELSE 0)
    BY <2>1 DEF Books, Booked
  <2>4. ASSUME ~(a <= d)
        PROVE  Uses(From(a)) = 0 /\ ~(a <= now)
    <3>1. Horizon \in Int
      BY <1>1 DEF Horizon
    <3>2. a > Horizon
      BY <1>3, <2>4, <3>1
    <3> QED BY <1>1, <1>3, <1>4, <2>4, <3>2, NothingLater
  <2> QED BY <2>1, <2>2, <2>3, <2>4
<1>6. ASSUME NEW a \in Nat, a <= d
      PROVE  Uses(From(a)) + k <= Cap + d - a
  <2>1. CASE a <= now \/ Uses(From(a)) # 0
    <3>1. Uses(From(a)) + bal <= Cap + now - a
      BY <1>4, <2>1 DEF Room
    <3>2. Uses(From(a)) \in Nat
      BY <1>5
    <3> QED BY <1>1, <1>3, <3>1, <3>2
  <2>2. CASE Uses(From(a)) = 0
    BY <1>1, <1>3, <1>6, <2>2
  <2> QED BY <2>1, <2>2
<1>7. ASSUME NEW a \in Nat, NEW b \in Nat, a <= b
      PROVE  Uses(a..b)' <= Cap + (b - a)
  <2>1. a..b \in SUBSET Nat /\ a..b \subseteq From(a)
    BY DEF From
  <2>2. Uses(a..b)' = Uses(a..b) + (IF d \in a..b THEN k ELSE 0)
    BY <2>1 DEF Books, Booked
  <2>3. Uses(a..b) <= Cap + (b - a)
    BY <1>4, <1>7 DEF Windows
  <2>4. Uses(a..b) \in Nat /\ Uses(From(a)) \in Nat /\ Uses(a..b) <= Uses(From(a))
    BY <1>1, <2>1, UsesMono
  <2>5. CASE d \in a..b
    <3>1. a <= d /\ d <= b
      BY <1>3, <2>5
    <3>2. Uses(From(a)) + k <= Cap + d - a
      BY <1>6, <3>1
    <3>3. Uses(a..b)' = Uses(a..b) + k
      BY <2>2, <2>5
    <3> QED BY <1>1, <1>3, <2>4, <3>1, <3>2, <3>3
  <2>6. CASE d \notin a..b
    <3>1. Uses(a..b)' = Uses(a..b)
      BY <2>2, <2>4, <2>6
    <3> QED BY <2>3, <3>1
  <2> QED BY <2>5, <2>6
<1>8. ASSUME NEW a \in Nat, a <= now \/ Uses(From(a))' # 0
      PROVE  Uses(From(a))' + bal' <= Cap + now - a
  <2>1. a <= d
    BY <1>5, <1>8
  <2>2. Uses(From(a)) \in Nat /\ Uses(From(a))' = Uses(From(a)) + k
    BY <1>5, <2>1
  <2>3. CASE a <= now \/ Uses(From(a)) # 0
    <3>1. Uses(From(a)) + bal <= Cap + now - a
      BY <1>4, <2>3 DEF Room
    <3> QED BY <1>1, <1>2, <2>2, <3>1
  <2>4. CASE ~(a <= now) /\ Uses(From(a)) = 0
    BY <1>1, <1>2, <1>3, <2>1, <2>2, <2>4
  <2> QED BY <2>3, <2>4
<1>9. Windows'
  BY <1>7 DEF Windows
<1>10. Room'
  BY <1>2, <1>8 DEF Room
<1> QED BY <1>9, <1>10

(* What is booked is the last to be used. *)
LEMMA BookedLatest ==
  ASSUME Inv, calm, NEW k \in Nat, NEW d, Books(k, d),
         \A i \in Times : spent'[i] # 0 => spent[i] # 0 \/ i = d,
         \A x \in Waiters : wt'[x].pc \in Holding =>
           \/ wt[x].pc \in Holding /\ wt'[x].due = wt[x].due
           \/ wt'[x].due = d
  PROVE  Latest'
<1>1. TypeOK /\ Latest /\ now \in Nat /\ bal \in Int
  BY Numbers DEF Inv, Calmly
<1>2. d \in Nat /\ d >= Horizon /\ Horizon' >= d
  BY <1>1, BookedFacts
<1>3. Horizon \in Int /\ Horizon' \in Int
  <2>1. bal' \in Int /\ now' \in Int
    BY <1>1 DEF Books
  <2> QED BY <1>1, <2>1 DEF Horizon
<1>4. ASSUME NEW i \in Times, spent'[i] # 0
      PROVE  i <= Horizon'
  <2>1. i \in Nat
    BY DEF Times
  <2>2. i <= Horizon \/ i = d
    BY <1>1, <1>4 DEF Latest
  <2> QED BY <1>2, <1>3, <2>1, <2>2
<1>5. ASSUME NEW x \in Waiters, wt'[x].pc \in Holding
      PROVE  wt'[x].due <= Horizon'
  <2>1. wt[x].due \in Nat
    BY <1>1 DEF TypeOK, Waits
  <2>2. wt'[x].due = d \/ (wt'[x].due = wt[x].due /\ wt[x].due <= Horizon)
    BY <1>1, <1>5 DEF Latest
  <2> QED BY <1>2, <1>3, <2>1, <2>2
<1> QED BY <1>4, <1>5 DEF Latest

-----------------------------------------------------------------------------
(* Booking by a caller that does not wait here. *)

LEMMA IdleWait == Idle \in Waits /\ Idle.pc = "idle"
BY Constant DEF Idle, Waits, Places

(* One waiter changes. *)
LEMMA OneWaiter ==
  ASSUME TypeOK, NEW x \in Waiters, NEW m \in Waits, wt' = [wt EXCEPT ![x] = m]
  PROVE  /\ wt' \in [Waiters -> Waits] /\ wt'[x] = m
         /\ \A y \in Waiters : y # x => wt'[y] = wt[y]
         /\ \A y \in Waiters : wt[y] \in Waits
         /\ Reserved' \ {x} = Reserved \ {x}
         /\ x \in Reserved' <=> m.pc \in Holding
         /\ x \in Reserved <=> wt[x].pc \in Holding
<1>1. /\ wt' \in [Waiters -> Waits] /\ wt'[x] = m
      /\ \A y \in Waiters : y # x => wt'[y] = wt[y]
      /\ \A y \in Waiters : wt[y] \in Waits
  BY DEF TypeOK
<1> QED BY <1>1 DEF Reserved

LEMMA GrantBooks ==
  ASSUME TypeOK, NEW i \in Times, NEW k \in Nat, spent' = [spent EXCEPT ![i] = @ + k],
         NEW x \in Waiters, wt[x].pc \notin Holding, wt' = [wt EXCEPT ![x] = Idle]
  PROVE  /\ \A W \in SUBSET Nat : Uses(W)' = Uses(W) + (IF i \in W THEN k ELSE 0)
         /\ \A e \in Nat : Future(e)' = Future(e) + (IF i > e THEN k ELSE 0)
<1> DEFINE n == spent[i] + k
<1>1. spent[i] \in Nat /\ n \in Nat
  BY UsedType
<1>2. spent' = [spent EXCEPT ![i] = n]
  OBVIOUS
<1> HIDE DEF n
<1>3. ASSUME NEW W, NEW P, P \subseteq Holding
      PROVE  /\ Used(W) \in Nat /\ Owed(W, P) \in Nat
             /\ Used(W)' = Used(W) + (IF i \in W THEN k ELSE 0) /\ Owed(W, P)' = Owed(W, P)
  <2>1. Used(W) \in Nat /\ Owed(W, P) \in Nat
    BY UsedType, OwedType
  <2>2. Used(W)' = Used(W) + (IF i \in W THEN k ELSE 0)
    <3>1. /\ i \in W => Used(W)' = Used(W) - spent[i] + n
          /\ i \notin W => Used(W)' = Used(W)
      BY <1>1, <1>2, UsedChanged
    <3>2. n = spent[i] + k
      BY DEF n
    <3> QED BY <1>1, <2>1, <3>1, <3>2
  <2>3. Owed(W, P)' = Owed(W, P)
    <3>1. Part(wt[x], W, P) = 0 /\ Part(Idle, W, P) = 0
      BY <1>3, IdleWait DEF Part, Holding
    <3>2. Owed(W, P)' = Owed(W, P) - Part(wt[x], W, P) + Part(Idle, W, P)
      BY IdleWait, OwedChanged, ZenonT(30)
    <3> QED BY <2>1, <3>1, <3>2
  <2> QED BY <2>1, <2>2, <2>3
<1>4. ASSUME NEW W \in SUBSET Nat
      PROVE  Uses(W)' = Uses(W) + (IF i \in W THEN k ELSE 0)
  <2>1. /\ Used(W) \in Nat /\ Owed(W, Holding) \in Nat
        /\ Used(W)' = Used(W) + (IF i \in W THEN k ELSE 0)
        /\ Owed(W, Holding)' = Owed(W, Holding)
    BY <1>3
  <2> QED BY <2>1 DEF Uses
<1>5. ASSUME NEW e \in Nat
      PROVE  Future(e)' = Future(e) + (IF i > e THEN k ELSE 0)
  <2>1. i \in After(e) <=> i > e
    BY DEF After, Times
  <2>2. /\ Used(After(e)) \in Nat /\ Owed(After(e), {"reserved"}) \in Nat
        /\ Used(After(e))' = Used(After(e)) + (IF i \in After(e) THEN k ELSE 0)
        /\ Owed(After(e), {"reserved"})' = Owed(After(e), {"reserved"})
    BY <1>3 DEF Holding
  <2> QED BY <2>1, <2>2 DEF Future
<1> QED BY <1>4, <1>5

(* decide and reserve *)
LEMMA GrantInv ==
  ASSUME Inv, NEW k \in 0..Cap, now + TimeUntil(k) <= MaxNow, bal' = bal - k,
         spent' = [spent EXCEPT ![now + TimeUntil(k)] = @ + k],
         NEW x \in Waiters, wt[x].pc \notin Holding, wt' = [wt EXCEPT ![x] = Idle],
         UNCHANGED <<now, hold, ahead, sunk, calm>>
  PROVE  Inv'
<1> DEFINE d == now + TimeUntil(k)
<1>1. TypeOK /\ k \in 0..Cap /\ k \in Nat /\ now \in Nat /\ bal \in Int /\ bal <= Cap
  BY Numbers, Constant DEF Inv
<1>0. /\ wt' \in [Waiters -> Waits] /\ wt'[x] = Idle /\ Idle.pc = "idle"
      /\ \A y \in Waiters : y # x => wt'[y] = wt[y]
      /\ Reserved' = Reserved /\ x \notin Reserved
  <2>1. /\ Reserved' \ {x} = Reserved \ {x}
        /\ x \in Reserved' <=> Idle.pc \in Holding
        /\ x \in Reserved <=> wt[x].pc \in Holding
    BY <1>1, IdleWait, OneWaiter
  <2>2. Idle.pc \notin Holding
    BY IdleWait DEF Holding
  <2>3. Reserved' = Reserved /\ x \notin Reserved
    BY <2>1, <2>2
  <2>4. /\ wt' \in [Waiters -> Waits] /\ wt'[x] = Idle
        /\ \A y \in Waiters : y # x => wt'[y] = wt[y]
    BY <1>1, IdleWait, OneWaiter
  <2> QED BY <2>3, <2>4, IdleWait
<1>2. d \in Times
  <2>1. TimeUntil(k) \in Nat
    BY <1>1, TimeUntilIs
  <2> QED BY <1>1, <2>1, Constant DEF Times
<1> HIDE DEF d
<1>3. Books(k, d)
  <2>1. spent' = [spent EXCEPT ![d] = @ + k]
    BY DEF d
  <2>2. /\ \A W \in SUBSET Nat : Uses(W)' = Uses(W) + (IF d \in W THEN k ELSE 0)
        /\ \A e \in Nat : Future(e)' = Future(e) + (IF d > e THEN k ELSE 0)
    <3>1. wt' = [wt EXCEPT ![x] = Idle] /\ wt[x].pc \notin Holding /\ k \in Nat
      BY <1>1
    <3> QED BY <1>1, <1>2, <2>1, <3>1, GrantBooks
  <2>3. d = now + TimeUntil(k) /\ bal' = bal - k /\ now' = now /\ sunk' = sunk
    BY DEF d
  <2> QED BY <2>2, <2>3 DEF Books, Booked
<1>4. /\ spent' \in [Times -> Nat]
      /\ \A i \in Times : spent'[i] # 0 => spent[i] # 0 \/ i = d
  <2> DEFINE n == spent[d] + k
  <2>1. spent \in [Times -> Nat] /\ spent' = [spent EXCEPT ![d] = n]
    BY <1>1 DEF TypeOK, Times, d
  <2>2. n \in Nat
    BY <1>1, <1>2, <2>1
  <2> HIDE DEF n
  <2> QED BY <1>2, <2>1, <2>2
<1>5. TypeOK'
  <2>2. bal' \in Int /\ bal' <= Cap
    BY <1>1, Constant
  <2> QED BY <1>1, <1>4, <1>0, <2>2 DEF TypeOK, Times
<1>6. ASSUME NEW y \in Waiters
      PROVE  Due(wt[y])'
  BY <1>0 DEF Inv, Due
<1>7. Conserved' /\ Covered'
  BY <1>1, <1>3, BookedConserved
<1>8. Calmly'
  <2> SUFFICES ASSUME calm PROVE hold' = 0 /\ Latest' /\ Windows' /\ Room' /\ ArrivalOrder'
    BY DEF Calmly
  <2>1. hold' = 0 /\ ArrivalOrder'
    <3>1. hold = 0 /\ ArrivalOrder
      BY DEF Inv, Calmly
    <3>2. ASSUME NEW p \in ahead
          PROVE  wt'[p[1]].due <= wt'[p[2]].due
      <4>1. p[1] \in Reserved /\ p[2] \in Reserved
        BY <1>1 DEF TypeOK
      <4>2. wt'[p[1]] = wt[p[1]] /\ wt'[p[2]] = wt[p[2]]
        BY <1>0, <4>1 DEF Reserved
      <4> QED BY <3>1, <4>2 DEF ArrivalOrder
    <3> QED BY <3>1, <3>2 DEF ArrivalOrder
  <2>2. Windows' /\ Room'
    BY <1>1, <1>3, BookedWindows
  <2>3. Latest'
    <3>1. \A y \in Waiters : wt'[y].pc \in Holding =>
            \/ wt[y].pc \in Holding /\ wt'[y].due = wt[y].due
            \/ wt'[y].due = d
      BY <1>0 DEF Holding
    <3> QED BY <1>1, <1>3, <1>4, <3>1, BookedLatest
  <2> QED BY <2>1, <2>2, <2>3
<1> QED BY <1>5, <1>6, <1>7, <1>8 DEF Inv

-----------------------------------------------------------------------------
(* Booking by a waiting acquire. *)

LEMMA WaiterBooks ==
  ASSUME TypeOK, NEW x \in Waiters, NEW m \in Waits, wt' = [wt EXCEPT ![x] = m], spent' = spent,
         wt[x].pc \notin Holding, m.pc \in Holding,
         m.pc = "reserved" \/ m.due <= now
  PROVE  Booked(m.cost, m.due)
<1> DEFINE k == m.cost
           d == m.due
<1>1. k \in Nat /\ d \in Nat /\ now \in Nat
  BY PartType, Numbers DEF Waits
<1>0. m.cost = k /\ m.due = d /\ (m.pc = "reserved" \/ d <= now)
  OBVIOUS
<1> HIDE DEF k, d
<1>2. ASSUME NEW W, NEW P, P \subseteq Holding
      PROVE  /\ Used(W) \in Nat /\ Owed(W, P) \in Nat /\ Used(W)' = Used(W)
             /\ Owed(W, P)' = Owed(W, P) + Part(m, W, P) /\ Part(m, W, P) \in Nat
  <2>1. Part(wt[x], W, P) = 0
    BY <1>2 DEF Part
  <2>2. Used(W) \in Nat /\ Owed(W, P) \in Nat /\ Part(m, W, P) \in Nat
    BY UsedType, OwedType, PartType
  <2>3. Owed(W, P)' = Owed(W, P) - Part(wt[x], W, P) + Part(m, W, P)
    BY OwedChanged, ZenonT(30)
  <2>4. Used(W)' = Used(W)
    BY DEF Used, UsedAt
  <2> QED BY <2>1, <2>2, <2>3, <2>4
<1>3. ASSUME NEW W \in SUBSET Nat
      PROVE  Uses(W)' = Uses(W) + (IF d \in W THEN k ELSE 0)
  <2>1. Part(m, W, Holding) = IF d \in W THEN k ELSE 0
    BY <1>0 DEF Part
  <2>2. /\ Used(W) \in Nat /\ Owed(W, Holding) \in Nat /\ Used(W)' = Used(W)
        /\ Owed(W, Holding)' = Owed(W, Holding) + Part(m, W, Holding)
        /\ Part(m, W, Holding) \in Nat
    BY <1>2
  <2> QED BY <2>1, <2>2 DEF Uses
<1>4. ASSUME NEW e \in Nat, e >= now
      PROVE  Future(e)' = Future(e) + (IF d > e THEN k ELSE 0)
  <2> DEFINE P == {"reserved"}
  <2>1. P \subseteq Holding /\ (m.pc \in P <=> m.pc = "reserved")
    BY DEF Holding
  <2>2. d \in After(e) <=> d > e
    BY <1>1 DEF After
  <2>3. Part(m, After(e), P) = IF d > e THEN k ELSE 0
    <3>1. CASE d > e
      <4>1. m.pc = "reserved"
        BY <1>0, <1>1, <1>4, <3>1
      <4> QED BY <1>0, <2>1, <2>2, <3>1, <4>1 DEF Part
    <3>2. CASE ~(d > e)
      BY <1>0, <2>2, <3>2 DEF Part
    <3> QED BY <3>1, <3>2
  <2> HIDE DEF P
  <2>4. /\ Used(After(e)) \in Nat /\ Owed(After(e), P) \in Nat
        /\ Used(After(e))' = Used(After(e))
        /\ Owed(After(e), P)' = Owed(After(e), P) + Part(m, After(e), P)
        /\ Part(m, After(e), P) \in Nat
    BY <1>2, <2>1
  <2> QED BY <2>3, <2>4 DEF Future, P
<1> QED BY <1>3, <1>4 DEF Booked, k, d


(* The tokens are where they were. *)
LEMMA SteadyLedger ==
  ASSUME Inv, UNCHANGED <<now, bal, sunk>>, Uses(Nat)' = Uses(Nat),
         \A e \in Nat : e >= now => Future(e)' = Future(e)
  PROVE  Conserved' /\ Covered'
<1>1. Conserved'
  BY DEF Inv, Conserved
<1>2. Covered'
  BY DEF Inv, Covered
<1> QED BY <1>1, <1>2

LEMMA SteadyWindows ==
  ASSUME Inv, calm, UNCHANGED <<now, bal>>, \A W \in SUBSET Nat : Uses(W)' = Uses(W)
  PROVE  Windows' /\ Room'
<1>1. Windows /\ Room
  BY DEF Inv, Calmly
<1>2. ASSUME NEW a \in Nat, NEW b \in Nat
      PROVE  Uses(a..b)' = Uses(a..b) /\ Uses(From(a))' = Uses(From(a))
  <2>1. a..b \in SUBSET Nat /\ From(a) \in SUBSET Nat
    BY DEF From
  <2> QED BY <2>1
<1>3. Windows'
  BY <1>1, <1>2 DEF Windows
<1>4. Room'
  BY <1>1, <1>2 DEF Room
<1> QED BY <1>3, <1>4

(* A waiter that holds no tokens changes and holds none after. *)
LEMMA IdlyInv ==
  ASSUME Inv, NEW x \in Waiters, NEW m \in Waits, wt' = [wt EXCEPT ![x] = m],
         wt[x].pc \notin Holding, m.pc \notin Holding, Due(m),
         UNCHANGED <<now, hold, bal, ahead, spent, sunk>>, calm' \in BOOLEAN, calm' => calm
  PROVE  Inv'
<1>1. TypeOK
  BY DEF Inv
<1>2. /\ wt' \in [Waiters -> Waits] /\ wt'[x] = m
      /\ \A y \in Waiters : y # x => wt'[y] = wt[y]
      /\ Reserved' = Reserved
  <2>1. /\ Reserved' \ {x} = Reserved \ {x}
        /\ x \in Reserved' <=> m.pc \in Holding
        /\ x \in Reserved <=> wt[x].pc \in Holding
    BY <1>1, OneWaiter
  <2>2. Reserved' = Reserved
    BY <2>1
  <2>3. /\ wt' \in [Waiters -> Waits] /\ wt'[x] = m
        /\ \A y \in Waiters : y # x => wt'[y] = wt[y]
    BY <1>1, OneWaiter
  <2> QED BY <2>2, <2>3
<1>3. TypeOK'
  BY <1>1, <1>2 DEF TypeOK
<1>4. ASSUME NEW y \in Waiters
      PROVE  Due(wt[y])'
  BY <1>2 DEF Inv, Due
<1>5. ASSUME NEW W, NEW P, P \subseteq Holding
      PROVE  Used(W)' = Used(W) /\ Owed(W, P)' = Owed(W, P)
  <2>1. Part(wt[x], W, P) = 0 /\ Part(m, W, P) = 0
    BY <1>5 DEF Part
  <2>2. Owed(W, P) \in Nat /\ Owed(W, P)' = Owed(W, P) - Part(wt[x], W, P) + Part(m, W, P)
    <3>1. Owed(W, P)' = Owed(W, P) - Part(wt[x], W, P) + Part(m, W, P)
      BY <1>1, OwedChanged, ZenonT(30)
    <3> QED BY <1>1, <3>1, OwedType
  <2>3. Used(W)' = Used(W)
    BY DEF Used, UsedAt
  <2> QED BY <2>1, <2>2, <2>3
<1>6. \A W : Uses(W)' = Uses(W)
  BY <1>5 DEF Uses
<1>7. \A e : Future(e)' = Future(e)
  <2>1. {"reserved"} \subseteq Holding
    BY DEF Holding
  <2> QED BY <1>5, <2>1 DEF Future
<1>8. Conserved' /\ Covered'
  BY <1>6, <1>7, SteadyLedger
<1>9. Calmly'
  <2> SUFFICES ASSUME calm PROVE hold' = 0 /\ Latest' /\ Windows' /\ Room' /\ ArrivalOrder'
    BY DEF Calmly
  <2>1. hold = 0 /\ Latest /\ ArrivalOrder
    BY DEF Inv, Calmly
  <2>2. Windows' /\ Room'
    BY <1>6, SteadyWindows
  <2>3. Latest'
    BY <1>2, <2>1 DEF Latest, Horizon
  <2>4. ASSUME NEW p \in ahead
        PROVE  wt'[p[1]].due <= wt'[p[2]].due
    <3>1. p[1] \in Reserved /\ p[2] \in Reserved
      BY <1>1 DEF TypeOK
    <3>2. p[1] \in Waiters /\ p[2] \in Waiters /\ p[1] # x /\ p[2] # x
      BY <3>1 DEF Reserved
    <3>3. wt[p[1]].due <= wt[p[2]].due
      BY <2>1 DEF ArrivalOrder
    <3> QED BY <1>2, <3>2, <3>3
  <2>5. ArrivalOrder'
    BY <2>4 DEF ArrivalOrder
  <2> QED BY <2>1, <2>2, <2>3, <2>5
<1> QED BY <1>3, <1>4, <1>8, <1>9 DEF Inv

(* Of two unlocked reads, the first sees no pause and the second finds the *)
(* tokens or not.                                                          *)
LEMMA LookInv ==
  ASSUME Inv, NEW x \in Waiters, NEW k \in Costs, NEW pc \in {"trying", "reserving"},
         NEW dl \in 0..Forever, now <= dl, Look(x, pc, k, dl)
  PROVE  Inv'
<1> DEFINE m == [pc |-> pc, cost |-> k, due |-> now, dl |-> dl]
<1>1. TypeOK /\ now \in Nat /\ calm \in BOOLEAN /\ k \in 0..Cap
  BY Numbers, ThrottleAssumption DEF Inv, TypeOK
<1>2. m \in Waits
  BY <1>1 DEF Waits, Places
<1>3. m.pc = pc /\ m.due = now /\ m.dl = dl
  OBVIOUS
<1>4. wt' = [wt EXCEPT ![x] = m] /\ wt[x].pc \notin Holding
  BY DEF Look, Holding
<1>5. UNCHANGED <<now, bal, hold, ahead, spent, sunk, calm>>
  BY DEF Look
<1> HIDE DEF m
<1>6. Due(m) /\ m.pc \notin Holding
  BY <1>1, <1>3 DEF Due, Holding
<1> QED BY <1>1, <1>2, <1>4, <1>5, <1>6, IdlyInv

LEMMA LookToTakeInv ==
  ASSUME Inv, NEW x \in Waiters, LookToTake(x)
  PROVE  Inv'
<1>1. now \in Nat /\ now <= MaxNow
  BY Numbers DEF Inv
<1>2. Forever \in 0..Forever /\ now <= Forever
  BY <1>1, Constant
<1> QED BY <1>2, LookInv DEF LookToTake

LEMMA LookToReserveInv ==
  ASSUME Inv, NEW x \in Waiters, LookToReserve(x)
  PROVE  Inv'
<1>1. now \in Nat /\ now < Forever /\ Forever \in Nat
  BY Numbers, Constant DEF Inv
<1>2. PICK k \in Costs, t \in MaxWaits : Look(x, "reserving", k, Until(t))
  BY DEF LookToReserve
<1>3. Until(t) \in 0..Forever /\ now <= Until(t)
  BY <1>1, ThrottleAssumption DEF Until
<1> QED BY <1>2, <1>3, LookInv

(* The call is refused and leaves. *)
LEMMA LeaveInv ==
  ASSUME Inv, NEW x \in Waiters, wt[x].pc \notin Holding, wt' = [wt EXCEPT ![x] = Idle],
         UNCHANGED <<now, bal, hold, ahead, spent, sunk, calm>>
  PROVE  Inv'
<1>1. /\ Idle \in Waits /\ Idle.pc \notin Holding /\ Due(Idle)
  BY IdleWait DEF Holding, Due
<1>2. calm \in BOOLEAN
  BY DEF Inv, TypeOK
<1> QED BY <1>1, <1>2, IdlyInv

LEMMA TryAcquireInv ==
  ASSUME Inv, NEW x \in Waiters, TryAcquire(x)
  PROVE  Inv'
<1> DEFINE k == wt[x].cost
<1>1. TypeOK /\ k \in 0..Cap /\ k \in Nat /\ now \in Nat /\ now <= MaxNow
  BY Numbers, Constant DEF Inv, TypeOK, Waits
<1>2. wt[x].pc \notin Holding
  BY DEF TryAcquire, Holding
<1>3. CASE bal >= k /\ bal' = bal - k /\ Grant(k)
  <2> HIDE DEF k
  <2>1. TimeUntil(k) = 0
    BY <1>1, <1>3, TimeUntilIs
  <2>2. now + TimeUntil(k) = now
    BY <1>1, <2>1
  <2> QED BY <1>1, <1>2, <1>3, <2>2, GrantInv DEF TryAcquire, Grant
<1>4. CASE UNCHANGED <<bal, spent>>
  BY <1>2, <1>4, LeaveInv DEF TryAcquire
<1> QED BY <1>3, <1>4 DEF TryAcquire

LEMMA ReserveInv ==
  ASSUME Inv, NEW x \in Waiters, Reserve(x)
  PROVE  Inv'
<1> DEFINE k == wt[x].cost
<1>1. k \in 0..Cap
  BY DEF Inv, TypeOK, Waits
<1>2. wt[x].pc \notin Holding
  BY DEF Reserve, Holding
<1>3. CASE /\ now + TimeUntil(k) <= MaxNow /\ bal' = bal - k
           /\ spent' = [spent EXCEPT ![now + TimeUntil(k)] = @ + k]
  <2> HIDE DEF k
  <2> QED BY <1>1, <1>2, <1>3, GrantInv DEF Reserve
<1>4. CASE UNCHANGED <<bal, spent>>
  BY <1>2, <1>4, LeaveInv DEF Reserve
<1> QED BY <1>3, <1>4 DEF Reserve

(* The step reserves. *)
LEMMA BookedInv ==
  ASSUME Inv, NEW x \in Waiters, NEW m \in Waits, wt' = [wt EXCEPT ![x] = m],
         wt[x].pc \notin Holding, m.pc \in Holding, Due(m),
         m.due = now + TimeUntil(m.cost), m.pc = "reserved" \/ m.due <= now,
         bal' = bal - m.cost, Behind(x), UNCHANGED <<now, hold, spent, sunk, calm>>
  PROVE  Inv'
<1> DEFINE k == m.cost
           d == m.due
<1>1. /\ TypeOK /\ k \in Nat /\ k \in 0..Cap /\ now \in Nat /\ bal \in Int /\ bal <= Cap
      /\ d \in Nat
  BY PartType, Numbers DEF Inv, Waits
<1>2. /\ wt' \in [Waiters -> Waits] /\ wt'[x] = m
      /\ \A y \in Waiters : y # x => wt'[y] = wt[y]
      /\ Reserved' = Reserved \cup {x} /\ x \notin Reserved
  <2>1. /\ Reserved' \ {x} = Reserved \ {x}
        /\ x \in Reserved' <=> m.pc \in Holding
        /\ x \in Reserved <=> wt[x].pc \in Holding
    BY <1>1, OneWaiter
  <2>2. Reserved' = Reserved \cup {x} /\ x \notin Reserved
    BY <2>1
  <2>3. /\ wt' \in [Waiters -> Waits] /\ wt'[x] = m
        /\ \A y \in Waiters : y # x => wt'[y] = wt[y]
    BY <1>1, OneWaiter
  <2> QED BY <2>2, <2>3
<1>3. Books(k, d)
  <2>1. Booked(k, d)
    BY <1>1, WaiterBooks
  <2> QED BY <2>1 DEF Books
<1>4. TypeOK'
  <2>1. ahead' \subseteq Reserved' \X Reserved'
    BY <1>1, <1>2 DEF Behind, TypeOK
  <2>2. bal' \in Int /\ bal' <= Cap
    BY <1>1, Constant
  <2> QED BY <1>1, <1>2, <2>1, <2>2 DEF TypeOK
<1>5. ASSUME NEW y \in Waiters
      PROVE  Due(wt[y])'
  BY <1>2 DEF Inv, Due
<1> HIDE DEF k, d
<1>6. Conserved' /\ Covered'
  BY <1>1, <1>3, BookedConserved
<1>7. Calmly'
  <2> SUFFICES ASSUME calm PROVE hold' = 0 /\ Latest' /\ Windows' /\ Room' /\ ArrivalOrder'
    BY DEF Calmly
  <2>1. hold = 0 /\ Latest /\ ArrivalOrder
    BY DEF Inv, Calmly
  <2>2. Windows' /\ Room'
    BY <1>1, <1>3, BookedWindows
  <2>3. Latest'
    <3>1. \A y \in Waiters : wt'[y].pc \in Holding =>
            \/ wt[y].pc \in Holding /\ wt'[y].due = wt[y].due
            \/ wt'[y].due = d
      BY <1>2 DEF d
    <3> QED BY <1>1, <1>3, <3>1, BookedLatest
  <2>4. ASSUME NEW p \in ahead'
        PROVE  wt'[p[1]].due <= wt'[p[2]].due
    <3>1. CASE p \in ahead
      <4>1. p[1] \in Reserved /\ p[2] \in Reserved
        BY <1>1, <3>1 DEF TypeOK
      <4>2. p[1] \in Waiters /\ p[2] \in Waiters /\ p[1] # x /\ p[2] # x
        BY <1>2, <4>1 DEF Reserved
      <4>3. wt[p[1]].due <= wt[p[2]].due
        BY <2>1, <3>1 DEF ArrivalOrder
      <4> QED BY <1>2, <4>2, <4>3
    <3>2. CASE p \in Reserved \X {x}
      <4>1. p[1] \in Waiters /\ p[1] # x /\ p[2] = x /\ wt[p[1]].pc \in Holding
        BY <1>2, <3>2 DEF Reserved
      <4>2. wt[p[1]].due <= Horizon /\ wt[p[1]].due \in Nat
        BY <1>1, <2>1, <4>1 DEF Latest, TypeOK, Waits
      <4>3. Horizon <= d /\ Horizon \in Int
        BY <1>1, <1>3, BookedFacts DEF Horizon
      <4>4. wt'[p[1]].due = wt[p[1]].due /\ wt'[p[2]].due = d
        BY <1>2, <4>1 DEF d
      <4> QED BY <1>1, <4>2, <4>3, <4>4
    <3> QED BY <3>1, <3>2 DEF Behind
  <2>5. ArrivalOrder'
    BY <2>4 DEF ArrivalOrder
  <2> QED BY <2>1, <2>2, <2>3, <2>5
<1> QED BY <1>4, <1>5, <1>6, <1>7 DEF Inv

(* The budget of a wait, and when a pause or a reservation is over in it. *)
LEMMA WithinBudget ==
  ASSUME TypeOK, NEW m \in Waits, now <= m.dl, NEW w \in Nat, ~(w > Left(m.dl))
  PROVE  now + w <= m.dl \/ m.dl = Forever
<1>1. m.dl \in Nat /\ now \in Nat
  BY Numbers, Constant DEF Waits
<1> QED BY <1>1 DEF Left

LEMMA PausedIs ==
  ASSUME TypeOK
  PROVE  /\ Paused \in Nat
         /\ Paused # 0 => hold = now + Paused /\ hold > now
         /\ hold = 0 => Paused = 0
<1>1. hold \in Nat /\ now \in Nat
  BY Numbers
<1> QED BY <1>1 DEF Paused

(* A waiter that has nothing goes to an instant it will look again at. *)
LEMMA TurnInv ==
  ASSUME Inv, NEW x \in Waiters, NEW me \in Waits, wt[x].pc \notin Holding, now <= me.dl,
         NEW s \in {"asking", "refused", "napping"}, NEW w \in Nat, ~(w > Left(me.dl)),
         wt' = [wt EXCEPT ![x] = [me EXCEPT !.pc = s, !.due = now + w]],
         UNCHANGED <<now, bal, hold, ahead, spent, sunk, calm>>
  PROVE  Inv'
<1>1. TypeOK /\ now \in Nat /\ calm \in BOOLEAN
  BY Numbers DEF Inv, TypeOK
<1> DEFINE d == now + w
           m == [me EXCEPT !.pc = s, !.due = d]
<1>2. d \in Nat /\ now <= d
  BY <1>1
<1>3. now + w <= me.dl \/ me.dl = Forever
  BY <1>1, WithinBudget
<1>4. wt' = [wt EXCEPT ![x] = m]
  OBVIOUS
<1>5. d <= me.dl \/ me.dl = Forever
  BY <1>3
<1> HIDE DEF d
<1>6. m \in Waits /\ m.pc = s /\ m.due = d /\ m.dl = me.dl
  BY <1>2 DEF Waits, Places
<1> HIDE DEF m
<1>7. Due(m) /\ m.pc \notin Holding
  BY <1>2, <1>5, <1>6 DEF Due, Holding
<1> QED BY <1>1, <1>4, <1>6, <1>7, IdlyInv

LEMMA NothingIsWithin ==
  ASSUME TypeOK, NEW m \in Waits, now <= m.dl
  PROVE  /\ Left(m.dl) \in Nat /\ ~(0 > Left(m.dl)) /\ now + 0 = now
<1>1. m.dl \in Nat /\ now \in Nat /\ Forever \in Nat
  BY Numbers, Constant DEF Waits
<1> QED BY <1>1 DEF Left

LEMMA AskInv ==
  ASSUME Inv, NEW x \in Waiters, NEW me \in Waits, wt[x].pc \notin Holding, now <= me.dl,
         Ask(x, me)
  PROVE  Inv'
<1>1. TypeOK
  BY DEF Inv
<1>2. Paused \in Nat /\ (Paused # 0 => hold = now + Paused)
  BY <1>1, PausedIs
<1>3. UNCHANGED <<now, bal, hold, ahead, spent, sunk, calm>>
  BY DEF Ask
<1>4. CASE Paused = 0
  <2>1. ~(0 > Left(me.dl)) /\ now + 0 = now
    BY <1>1, NothingIsWithin
  <2>2. wt' = [wt EXCEPT ![x] = [me EXCEPT !.pc = "asking", !.due = now + 0]]
    BY <1>4, <2>1 DEF Ask
  <2> QED BY <1>3, <2>1, <2>2, TurnInv
<1>5. CASE Paused # 0 /\ Paused > Left(me.dl)
  BY <1>3, <1>5, LeaveInv DEF Ask
<1>6. CASE Paused # 0 /\ ~(Paused > Left(me.dl))
  <2>1. wt' = [wt EXCEPT ![x] = [me EXCEPT !.pc = "napping", !.due = now + Paused]]
    BY <1>2, <1>6 DEF Ask
  <2> QED BY <1>2, <1>3, <1>6, <2>1, TurnInv
<1> QED BY <1>4, <1>5, <1>6

(* A call in flight that has no tokens yet has time left. *)
LEMMA InTime ==
  ASSUME Inv, NEW x \in Waiters, wt[x].pc \in {"asking", "refused", "napping"}
  PROVE  wt[x] \in Waits /\ wt[x].pc \notin Holding /\ now <= wt[x].dl
<1>1. wt[x] \in Waits /\ wt[x].pc \notin Holding
  BY DEF Inv, TypeOK, Holding
<1>2. Due(wt[x])
  BY DEF Inv
<1> QED BY <1>1, <1>2 DEF Due

LEMMA BookInv ==
  ASSUME Inv, NEW x \in Waiters, Book(x)
  PROVE  Inv'
<1> DEFINE me == wt[x]
<1>1. TypeOK /\ now \in Nat /\ hold \in Nat /\ calm \in BOOLEAN
  BY Numbers DEF Inv, TypeOK
<1>2. me \in Waits /\ me.pc \notin Holding /\ now <= me.dl
  BY InTime DEF Book
<1>3. UNCHANGED <<now, hold, spent, sunk, calm>>
  BY DEF Book
<1>5. CASE wt' = [wt EXCEPT ![x].pc = "refused"] /\ UNCHANGED <<bal, ahead>>
  <2> DEFINE m == [me EXCEPT !.pc = "refused"]
  <2>2. m \in Waits /\ m.pc = "refused" /\ m.due = me.due /\ m.dl = me.dl
    BY <1>2 DEF Waits, Places
  <2>3. wt' = [wt EXCEPT ![x] = m]
    BY <1>5
  <2>4. Due(me) /\ me.pc # "idle"
    BY DEF Inv, Book
  <2> HIDE DEF m, me
  <2>5. Due(m) /\ m.pc \notin Holding
    BY <2>2, <2>4 DEF Due, Holding
  <2> QED BY <1>1, <1>2, <1>3, <1>5, <2>2, <2>3, <2>5, IdlyInv DEF me
<1>6. CASE /\ ~(TimeUntil(me.cost) > Left(me.dl))
           /\ bal' = bal - me.cost /\ Behind(x)
           /\ wt' = [wt EXCEPT ![x].pc = IF TimeUntil(me.cost) = 0 THEN "ready" ELSE "reserved",
                               ![x].due = now + TimeUntil(me.cost)]
  <2> DEFINE w == TimeUntil(me.cost)
             s == IF w = 0 THEN "ready" ELSE "reserved"
             d == now + w
             m == [me EXCEPT !.pc = s, !.due = d]
  <2>1. w \in Nat /\ d \in Nat /\ (w = 0 => d = now)
    <3>1. me.cost \in Nat
      BY <1>2, Constant DEF Waits
    <3>2. w \in Nat
      BY <1>1, <3>1, TimeUntilIs
    <3> HIDE DEF w
    <3> QED BY <1>1, <3>2
  <2>2. s \in Holding /\ (s = "reserved" \/ w = 0) /\ s # "idle"
    BY DEF Holding
  <2>3. now + w <= me.dl \/ me.dl = Forever
    <3> HIDE DEF w
    <3>1. ~(w > Left(me.dl))
      BY <1>6 DEF w
    <3> HIDE DEF me
    <3> QED BY <1>1, <1>2, <2>1, <3>1, WithinBudget
  <2>4. wt' = [wt EXCEPT ![x] = m]
    BY <1>6
  <2>5. w = TimeUntil(me.cost) /\ d = now + w
    OBVIOUS
  <2> HIDE DEF w, s, d
  <2>6. m \in Waits /\ m.pc = s /\ m.due = d /\ m.dl = me.dl /\ m.cost = me.cost
    BY <1>2, <2>1, <2>2 DEF Waits, Places
  <2> HIDE DEF m
  <2>7. Due(m)
    <3>1. now <= d /\ (d <= me.dl \/ me.dl = Forever)
      BY <1>1, <2>1, <2>3, <2>5
    <3> QED BY <1>2, <2>6, <3>1 DEF Due
  <2>8. m.due = now + TimeUntil(m.cost) /\ (m.pc = "reserved" \/ m.due <= now) /\ m.pc \in Holding
    BY <1>1, <2>1, <2>2, <2>5, <2>6
  <2>9. bal' = bal - m.cost /\ Behind(x)
    BY <1>6, <2>6
  <2> QED BY <1>2, <1>3, <2>4, <2>6, <2>7, <2>8, <2>9, BookedInv
<1>7. Left(me.dl) \in Nat /\ TimeUntil(me.cost) \in Nat
  BY <1>1, <1>2, NothingIsWithin, TimeUntilIs, Constant DEF Waits
<1> QED BY <1>5, <1>6, <1>7 DEF Book

LEMMA RefusedInv ==
  ASSUME Inv, NEW x \in Waiters, Refused(x)
  PROVE  Inv'
<1> DEFINE me == wt[x]
           wait == TimeUntil(me.cost)
           left == Left(me.dl)
<1>1. TypeOK
  BY DEF Inv
<1>2. me \in Waits /\ me.pc \notin Holding /\ now <= me.dl
  BY InTime DEF Refused
<1>3. UNCHANGED <<now, bal, hold, ahead, spent, sunk, calm>>
  BY DEF Refused
<1>4. left \in Nat /\ wait \in Nat
  BY <1>1, <1>2, NothingIsWithin, TimeUntilIs, Constant DEF Waits
<1>5. CASE wt' = [wt EXCEPT ![x] = Idle]
  BY <1>2, <1>3, <1>5, LeaveInv
<1>6. ASSUME NEW nap \in {0, Lesser(left, IF wait = 0 THEN 1 ELSE wait)},
             wt' = [wt EXCEPT ![x].pc = "napping", ![x].due = now + nap]
      PROVE  Inv'
  <2>1. nap \in Nat /\ ~(nap > left)
    <3> HIDE DEF left, wait
    <3> QED BY <1>4 DEF Lesser
  <2>2. wt' = [wt EXCEPT ![x] = [me EXCEPT !.pc = "napping", !.due = now + nap]]
    BY <1>6
  <2> HIDE DEF wait
  <2> QED BY <1>2, <1>3, <2>1, <2>2, TurnInv
<1> QED BY <1>5, <1>6 DEF Refused


LEMMA AcquireInv ==
  ASSUME Inv, NEW x \in Waiters, Acquire(x)
  PROVE  Inv'
<1>1. TypeOK /\ now \in Nat /\ now < Forever /\ Forever \in Nat
  BY Numbers, Constant DEF Inv
<1>2. PICK cost \in Costs, t \in Timeouts : Ask(x, [Idle EXCEPT !.cost = cost, !.dl = Until(t)])
  BY DEF Acquire
<1> DEFINE me == [Idle EXCEPT !.cost = cost, !.dl = Until(t)]
<1>3. cost \in 0..Cap /\ t \in Nat
  BY ThrottleAssumption
<1>4. Until(t) \in 0..Forever /\ now <= Until(t)
  BY <1>1, <1>3 DEF Until
<1>5. me \in Waits /\ me.dl = Until(t)
  BY <1>3, <1>4 DEF Idle, Waits, Places
<1>6. Ask(x, me)
  BY <1>2
<1> HIDE DEF me
<1>7. now <= me.dl
  BY <1>4, <1>5
<1>8. wt[x].pc \notin Holding
  BY DEF Acquire, Holding
<1> QED BY <1>5, <1>6, <1>7, <1>8, AskInv

LEMMA AskAgainInv ==
  ASSUME Inv, NEW x \in Waiters, AskAgain(x)
  PROVE  Inv'
<1>1. wt[x] \in Waits /\ wt[x].pc \notin Holding /\ now <= wt[x].dl
  BY InTime DEF AskAgain
<1> QED BY <1>1, AskInv DEF AskAgain

-----------------------------------------------------------------------------
(* Tokens given back, drained, charged and used. *)

LEMMA CreditIs ==
  ASSUME TypeOK, NEW n \in Nat, Credit(n)
  PROVE  /\ bal' \in Int /\ bal' <= Cap /\ sunk' \in Nat
         /\ sunk' = bal + sunk + n - bal' /\ bal' <= bal + n
         /\ bal + n <= Cap => bal' = bal + n
         /\ ~(bal + n <= Cap) => bal' = Cap
<1>1. bal \in Int /\ bal <= Cap /\ sunk \in Nat /\ Cap \in Nat
  BY Numbers, Constant
<1> QED BY <1>1 DEF Credit

(* n tokens leave the ledger of uses and go back to the bucket. *)
LEMMA CreditLedger ==
  ASSUME Inv, NEW n \in Nat, Credit(n), now' = now, Uses(Nat)' = Uses(Nat) - n,
         \A e \in Nat : e >= now => Future(e)' \in Int /\ Future(e)' >= Future(e) - n
  PROVE  Conserved' /\ Covered'
<1>1. TypeOK /\ bal \in Int /\ now \in Nat /\ sunk \in Nat /\ Uses(Nat) \in Nat /\ Cap \in Nat
  BY Numbers, UsesType, Constant DEF Inv
<1>2. bal' \in Int /\ sunk' = bal + sunk + n - bal'
  BY <1>1, CreditIs
<1>3. Conserved'
  <2>1. Cap + now = bal + Uses(Nat) + sunk
    BY DEF Inv, Conserved
  <2>2. bal' + (Uses(Nat) - n) + sunk' = bal + Uses(Nat) + sunk
    BY <1>1, <1>2
  <2> QED BY <2>1, <2>2 DEF Conserved
<1>4. ASSUME NEW e \in Nat, e >= now
      PROVE  bal' + (e - now') + Future(e)' + sunk' >= 0
  <2>1. Future(e) \in Nat /\ Future(e)' \in Int /\ Future(e)' >= Future(e) - n
    BY <1>1, <1>4, FutureType
  <2>2. bal + (e - now) + Future(e) + sunk >= 0
    BY <1>4 DEF Inv, Covered
  <2>3. bal' + (e - now) + Future(e)' + sunk' = bal + sunk + n + (e - now) + Future(e)'
    BY <1>1, <1>2, <2>1
  <2>4. bal + sunk + n + (e - now) + Future(e)' >= bal + (e - now) + Future(e) + sunk
    BY <1>1, <2>1
  <2> QED BY <1>1, <2>1, <2>2, <2>3, <2>4
<1>5. Covered'
  BY <1>4 DEF Covered
<1> QED BY <1>3, <1>5

LEMMA RefundInv ==
  ASSUME Inv, NEW n \in Refunds, Refund(n)
  PROVE  Inv'
<1> DEFINE k == spent[now] - n
<1>1. /\ TypeOK /\ n \in Nat /\ now \in Nat /\ now \in Times /\ spent[now] \in Nat
      /\ spent[now] >= n
  BY ThrottleAssumption, Numbers, UsedType DEF Inv, Refund
<1>2. k \in Nat /\ spent' = [spent EXCEPT ![now] = k] /\ Credit(n)
  BY <1>1 DEF Refund
<1>3. now' = now /\ hold' = hold /\ wt' = wt /\ ahead' = ahead /\ calm' = FALSE
  BY DEF Refund
<1>4. k = spent[now] - n
  OBVIOUS
<1> HIDE DEF k
<1>5. ASSUME NEW W, NEW P
      PROVE  Owed(W, P)' = Owed(W, P) /\ Owed(W, P) \in Nat
  BY <1>1, <1>3, OwedType DEF Owed, OwedBy, Part
<1>6. Uses(Nat)' = Uses(Nat) - n
  <2>1. Used(Nat)' = Used(Nat) - spent[now] + k /\ Used(Nat) \in Nat
    BY <1>1, <1>2, UsedChanged, UsedType
  <2>2. Owed(Nat, Holding)' = Owed(Nat, Holding) /\ Owed(Nat, Holding) \in Nat
    BY <1>5
  <2> QED BY <1>1, <1>2, <1>4, <2>1, <2>2 DEF Uses
<1>7. ASSUME NEW e \in Nat, e >= now
      PROVE  Future(e)' \in Int /\ Future(e)' >= Future(e) - n
  <2>1. now \notin After(e)
    BY <1>1, <1>7 DEF After
  <2>2. Used(After(e))' = Used(After(e))
    BY <1>1, <1>2, <2>1, UsedChanged
  <2>3. Owed(After(e), {"reserved"})' = Owed(After(e), {"reserved"})
    BY <1>5
  <2>4. Future(e)' = Future(e) /\ Future(e) \in Nat
    BY <1>1, <2>2, <2>3, FutureType DEF Future
  <2> QED BY <1>1, <2>4
<1>8. Conserved' /\ Covered'
  BY <1>1, <1>2, <1>3, <1>6, <1>7, CreditLedger
<1>9. TypeOK'
  <2>1. spent' \in [0..MaxNow -> Nat]
    BY <1>1, <1>2 DEF TypeOK
  <2>2. bal' \in Int /\ bal' <= Cap /\ sunk' \in Nat
    BY <1>1, <1>2, CreditIs
  <2>3. Reserved' = Reserved
    BY <1>3 DEF Reserved
  <2> QED BY <1>1, <1>3, <2>1, <2>2, <2>3 DEF TypeOK
<1>10. ASSUME NEW x \in Waiters
       PROVE  Due(wt[x])'
  BY <1>3 DEF Inv, Due
<1>11. Calmly'
  BY <1>3 DEF Calmly
<1> QED BY <1>8, <1>9, <1>10, <1>11 DEF Inv

(* One waiter is done, and those who reserved keep their places. *)
LEMMA DoneFacts ==
  ASSUME TypeOK, NEW x \in Waiters, Done(x)
  PROVE  /\ wt' = [wt EXCEPT ![x] = Idle] /\ wt' \in [Waiters -> Waits] /\ wt'[x] = Idle
         /\ \A y \in Waiters : y # x => wt'[y] = wt[y]
         /\ ahead' \subseteq Reserved' \X Reserved'
<1>1. Idle \in Waits /\ Idle.pc = "idle" /\ wt' = [wt EXCEPT ![x] = Idle]
  BY IdleWait DEF Done
<1>2. /\ wt' \in [Waiters -> Waits] /\ wt'[x] = Idle
      /\ \A y \in Waiters : y # x => wt'[y] = wt[y]
      /\ Reserved' \ {x} = Reserved \ {x}
  BY <1>1, OneWaiter
<1>3. ahead \subseteq Reserved \X Reserved
  BY DEF TypeOK
<1>4. ahead' = {p \in ahead : x \notin {p[1], p[2]}}
  BY DEF Done
<1>5. ASSUME NEW p \in ahead'
      PROVE  p \in Reserved' \X Reserved'
  <2>1. p \in Reserved \X Reserved /\ p[1] # x /\ p[2] # x
    BY <1>3, <1>4
  <2>2. p = <<p[1], p[2]>> /\ p[1] \in Reserved' /\ p[2] \in Reserved'
    BY <1>2, <2>1
  <2> QED BY <2>2
<1> QED BY <1>1, <1>2, <1>5

(* What a waiter that is done gives up. *)
LEMMA DoneOwed ==
  ASSUME TypeOK, NEW x \in Waiters, Done(x), NEW W, NEW P, P \subseteq Holding
  PROVE  Owed(W, P)' = Owed(W, P) - Part(wt[x], W, P) /\ Owed(W, P) \in Nat
<1>1. Idle \in Waits /\ Idle.pc \notin Holding /\ wt' = [wt EXCEPT ![x] = Idle]
  BY IdleWait DEF Done, Holding
<1>2. Owed(W, P)' = Owed(W, P) - Part(wt[x], W, P) + Part(Idle, W, P)
  BY <1>1, OwedChanged, ZenonT(30)
<1>3. Part(Idle, W, P) = 0
  BY <1>1 DEF Part
<1>4. Owed(W, P) \in Nat /\ Part(wt[x], W, P) \in Nat
  BY OwedType, PartType DEF TypeOK
<1> QED BY <1>2, <1>3, <1>4

(* A wait gives its reservation back. *)
LEMMA GiveBackInv ==
  ASSUME Inv, NEW x \in Waiters, Done(x), wt[x].pc \in Holding, Credit(wt[x].cost),
         ~calm', UNCHANGED <<now, hold, spent>>, calm' \in BOOLEAN
  PROVE  Inv'
<1> DEFINE m == wt[x]
           k == m.cost
<1>1. TypeOK /\ m \in Waits /\ k \in Nat /\ m.due \in Nat
  BY PartType DEF Inv, TypeOK, Waits
<1>2. m.pc \in Holding /\ Credit(k) /\ m.cost = k
  OBVIOUS
<1>3. /\ wt' \in [Waiters -> Waits] /\ wt'[x] = Idle
      /\ \A y \in Waiters : y # x => wt'[y] = wt[y]
      /\ ahead' \subseteq Reserved' \X Reserved'
  BY <1>1, DoneFacts
<1>4. ASSUME NEW W, NEW P, P \subseteq Holding
      PROVE  Owed(W, P)' = Owed(W, P) - Part(m, W, P) /\ Owed(W, P) \in Nat
  BY <1>1, <1>4, DoneOwed
<1> HIDE DEF m, k
<1>5. ASSUME NEW W
      PROVE  Used(W)' = Used(W) /\ Used(W) \in Nat
  BY <1>1, UsedType DEF Used, UsedAt
<1>6. Uses(Nat)' = Uses(Nat) - k
  <2>1. Part(m, Nat, Holding) = k
    BY <1>1, <1>2 DEF Part
  <2>2. Owed(Nat, Holding)' = Owed(Nat, Holding) - k /\ Owed(Nat, Holding) \in Nat
    BY <1>4, <2>1
  <2>3. Used(Nat)' = Used(Nat) /\ Used(Nat) \in Nat
    BY <1>5
  <2> QED BY <1>1, <2>2, <2>3 DEF Uses
<1>7. ASSUME NEW e \in Nat, e >= now
      PROVE  Future(e)' \in Int /\ Future(e)' >= Future(e) - k
  <2> DEFINE W == After(e)
             P == {"reserved"}
  <2>1. P \subseteq Holding
    BY DEF Holding
  <2>2. Future(e) = Used(W) + Owed(W, P) /\ Future(e)' = Used(W)' + Owed(W, P)'
    BY DEF Future
  <2> HIDE DEF W, P
  <2>3. Part(m, W, P) \in Nat /\ Part(m, W, P) <= k
    BY <1>1, <1>2 DEF Part
  <2>4. Owed(W, P)' = Owed(W, P) - Part(m, W, P) /\ Owed(W, P) \in Nat
    BY <1>4, <2>1
  <2>5. Used(W)' = Used(W) /\ Used(W) \in Nat
    BY <1>5
  <2> QED BY <1>1, <2>2, <2>3, <2>4, <2>5
<1>8. Conserved' /\ Covered'
  BY <1>1, <1>2, <1>6, <1>7, CreditLedger
<1>9. TypeOK'
  <2>1. bal' \in Int /\ bal' <= Cap /\ sunk' \in Nat
    BY <1>1, <1>2, CreditIs
  <2> QED BY <1>1, <1>3, <2>1 DEF TypeOK
<1>10. ASSUME NEW y \in Waiters
       PROVE  Due(wt[y])'
  BY <1>3, IdleWait DEF Inv, Due
<1>11. Calmly'
  BY DEF Calmly
<1> QED BY <1>8, <1>9, <1>10, <1>11 DEF Inv

LEMMA CancelInv ==
  ASSUME Inv, NEW x \in Waiters, Cancel(x)
  PROVE  Inv'
<1>1. TypeOK /\ Done(x) /\ ~calm' /\ calm' \in BOOLEAN /\ UNCHANGED <<now, hold, spent>>
  BY DEF Inv, Cancel
<1>2. CASE wt[x].pc = "napping"
  <2>1. UNCHANGED <<bal, sunk>> /\ wt' = [wt EXCEPT ![x] = Idle]
    BY <1>2 DEF Cancel, Done
  <2>2. wt[x].pc \notin Holding /\ Idle.pc \notin Holding /\ Idle \in Waits /\ Due(Idle)
    BY <1>2, IdleWait DEF Holding, Due
  <2>3. ahead' = ahead
    <3>1. \A p \in ahead : p[1] \in Reserved /\ p[2] \in Reserved
      BY <1>1 DEF TypeOK
    <3>2. x \notin Reserved
      BY <2>2 DEF Reserved
    <3> QED BY <3>1, <3>2 DEF Cancel, Done
  <2> QED BY <1>1, <2>1, <2>2, <2>3, IdlyInv
<1>3. CASE wt[x].pc # "napping"
  <2>1. wt[x].pc \in Holding /\ Credit(wt[x].cost)
    BY <1>3 DEF Cancel, Holding
  <2> QED BY <1>1, <2>1, GiveBackInv
<1> QED BY <1>2, <1>3

(* A reservation that has matured is due now. *)
LEMMA DueNow ==
  ASSUME Inv, NEW x \in Waiters, wt[x].pc \in Holding, wt[x].due <= now
  PROVE  /\ wt[x] \in Waits /\ wt[x].cost \in Nat /\ wt[x].dl \in Nat /\ wt[x].due = now
         /\ now <= wt[x].dl
         /\ \A e \in Nat : \A P : e >= now => Part(wt[x], After(e), P) = 0
         /\ \A W : Part(wt[x], W, Holding) = IF now \in W THEN wt[x].cost ELSE 0
<1> DEFINE m == wt[x]
<1>1. /\ TypeOK /\ m \in Waits /\ now \in Nat /\ Due(m) /\ m.pc \in Holding /\ m.due <= now
      /\ m.cost \in Nat
  BY Numbers, PartType DEF Inv, TypeOK
<1> HIDE DEF m
<1>2. m.due \in Nat /\ m.dl \in Nat
  BY <1>1, Constant DEF Waits
<1>3. now <= m.due /\ now <= m.dl
  BY <1>1 DEF Due, Holding
<1>4. m.due = now
  BY <1>1, <1>2, <1>3
<1>5. \A e \in Nat : \A P : e >= now => Part(m, After(e), P) = 0
  BY <1>1, <1>4 DEF Part, After
<1>6. \A W : Part(m, W, Holding) = IF now \in W THEN m.cost ELSE 0
  BY <1>1, <1>4 DEF Part
<1> QED BY <1>1, <1>2, <1>3, <1>4, <1>5, <1>6 DEF m

(* The tokens are used. *)
LEMMA UseInv ==
  ASSUME Inv, NEW x \in Waiters, wt[x].pc \in Holding, wt[x].due <= now, Done(x),
         Grant(wt[x].cost), UNCHANGED <<now, hold, bal, sunk, calm>>
  PROVE  Inv'
<1> DEFINE k == wt[x].cost
           n == spent[now] + k
<1>1. TypeOK /\ k \in Nat /\ now \in Nat /\ now \in Times /\ bal \in Int
  BY DueNow, Numbers DEF Inv
<1>2. n \in Nat /\ spent[now] \in Nat /\ spent' = [spent EXCEPT ![now] = n]
  BY <1>1, UsedType DEF Grant
<1>3. /\ wt' \in [Waiters -> Waits] /\ wt'[x] = Idle
      /\ \A y \in Waiters : y # x => wt'[y] = wt[y]
      /\ ahead' \subseteq Reserved' \X Reserved'
  BY <1>1, DoneFacts
<1>4. n = spent[now] + k
  OBVIOUS
<1>5. /\ \A e \in Nat : \A P : e >= now => Part(wt[x], After(e), P) = 0
      /\ \A W : Part(wt[x], W, Holding) = IF now \in W THEN k ELSE 0
  BY DueNow
<1> HIDE DEF k, n
<1>6. ASSUME NEW W
      PROVE  Uses(W)' = Uses(W)
  <2>1. Owed(W, Holding) \in Nat /\ Owed(W, Holding)' = Owed(W, Holding) - Part(wt[x], W, Holding)
    BY <1>1, DoneOwed
  <2>2. /\ Used(W) \in Nat
        /\ now \in W => Used(W)' = Used(W) - spent[now] + n
        /\ now \notin W => Used(W)' = Used(W)
    BY <1>1, <1>2, UsedChanged, UsedType
  <2>3. CASE now \in W
    <3>1. Owed(W, Holding)' = Owed(W, Holding) - k
      BY <1>5, <2>1, <2>3
    <3>2. Used(W)' = Used(W) - spent[now] + n
      BY <2>2, <2>3
    <3> QED BY <1>1, <1>2, <1>4, <2>1, <2>2, <3>1, <3>2 DEF Uses
  <2>4. CASE now \notin W
    <3>1. Part(wt[x], W, Holding) = 0
      BY <1>5, <2>4
    <3>2. Owed(W, Holding)' = Owed(W, Holding)
      BY <2>1, <3>1
    <3>3. Used(W)' = Used(W)
      BY <2>2, <2>4
    <3> QED BY <3>2, <3>3 DEF Uses
  <2> QED BY <2>3, <2>4
<1>7. ASSUME NEW e \in Nat, e >= now
      PROVE  Future(e)' = Future(e)
  <2>1. now \notin After(e)
    BY <1>1, <1>7 DEF After
  <2>2. Used(After(e))' = Used(After(e))
    BY <1>1, <1>2, <2>1, UsedChanged
  <2>3. {"reserved"} \subseteq Holding
    BY DEF Holding
  <2>4. /\ Owed(After(e), {"reserved"}) \in Nat
        /\ Owed(After(e), {"reserved"})' =
             Owed(After(e), {"reserved"}) - Part(wt[x], After(e), {"reserved"})
    BY <1>1, <2>3, DoneOwed
  <2>5. Part(wt[x], After(e), {"reserved"}) = 0
    BY <1>5, <1>7
  <2>6. Owed(After(e), {"reserved"})' = Owed(After(e), {"reserved"})
    BY <2>4, <2>5
  <2> QED BY <2>2, <2>6 DEF Future
<1>8. Conserved' /\ Covered'
  BY <1>6, <1>7, SteadyLedger
<1>9. TypeOK'
  <2>1. spent' \in [0..MaxNow -> Nat]
    BY <1>1, <1>2 DEF TypeOK
  <2> QED BY <1>1, <1>3, <2>1 DEF TypeOK
<1>10. ASSUME NEW y \in Waiters
       PROVE  Due(wt[y])'
  BY <1>3, IdleWait DEF Inv, Due
<1>11. Calmly'
  <2> SUFFICES ASSUME calm PROVE hold' = 0 /\ Latest' /\ Windows' /\ Room' /\ ArrivalOrder'
    BY DEF Calmly
  <2>1. hold = 0 /\ Latest /\ ArrivalOrder
    BY DEF Inv, Calmly
  <2>2. Windows' /\ Room'
    BY <1>6, SteadyWindows
  <2>3. Latest'
    <3>1. Horizon' = Horizon /\ now <= Horizon
      BY <1>1 DEF Horizon
    <3>2. \A i \in Times : spent'[i] # 0 => i = now \/ spent[i] # 0
      BY <1>1, <1>2 DEF TypeOK, Times
    <3>3. \A y \in Waiters : wt'[y].pc \in Holding => y # x /\ wt'[y] = wt[y]
      BY <1>3, IdleWait DEF Holding
    <3>4. \A i \in Times : spent'[i] # 0 => i <= Horizon'
      BY <2>1, <3>1, <3>2 DEF Latest
    <3>5. \A y \in Waiters : wt'[y].pc \in Holding => wt'[y].due <= Horizon'
      BY <2>1, <3>1, <3>3 DEF Latest
    <3> QED BY <3>4, <3>5 DEF Latest
  <2>4. ASSUME NEW p \in ahead'
        PROVE  wt'[p[1]].due <= wt'[p[2]].due
    <3>1. p \in ahead /\ p[1] # x /\ p[2] # x
      BY DEF Done
    <3>2. p[1] \in Waiters /\ p[2] \in Waiters
      BY <1>1, <3>1 DEF TypeOK, Reserved
    <3>3. wt[p[1]].due <= wt[p[2]].due
      BY <2>1, <3>1 DEF ArrivalOrder
    <3> QED BY <1>3, <3>1, <3>2, <3>3
  <2>5. ArrivalOrder'
    BY <2>4 DEF ArrivalOrder
  <2> QED BY <2>1, <2>2, <2>3, <2>5
<1> QED BY <1>8, <1>9, <1>10, <1>11 DEF Inv

(* A pause that was set meanwhile holds the tokens. *)
LEMMA HeldInv ==
  ASSUME Inv, NEW x \in Waiters, wt[x].pc \in Holding, wt[x].due <= now,
         Paused # 0, Paused <= Left(wt[x].dl), NEW m \in Waits, wt' = [wt EXCEPT ![x] = m],
         m.pc = "held" /\ m.due = hold /\ m.dl = wt[x].dl /\ m.cost = wt[x].cost,
         UNCHANGED <<now, hold, bal, ahead, spent, sunk, calm>>
  PROVE  Inv'
<1>1. TypeOK /\ now \in Nat /\ hold \in Nat /\ bal \in Int
  BY Numbers DEF Inv
<1>2. /\ Paused \in Nat /\ hold = now + Paused /\ hold > now
      /\ ~calm
  <2>1. /\ Paused \in Nat /\ hold = now + Paused /\ hold > now /\ hold # 0
    BY <1>1, PausedIs
  <2> QED BY <2>1 DEF Inv, Calmly
<1>3. /\ wt' \in [Waiters -> Waits] /\ wt'[x] = m
      /\ \A y \in Waiters : y # x => wt'[y] = wt[y]
      /\ Reserved' = Reserved
  <2>1. /\ Reserved' \ {x} = Reserved \ {x}
        /\ x \in Reserved' <=> m.pc \in Holding
        /\ x \in Reserved <=> wt[x].pc \in Holding
    BY <1>1, OneWaiter
  <2>2. m.pc \in Holding
    BY DEF Holding
  <2>3. Reserved' = Reserved
    BY <2>1, <2>2
  <2>4. /\ wt' \in [Waiters -> Waits] /\ wt'[x] = m
        /\ \A y \in Waiters : y # x => wt'[y] = wt[y]
    BY <1>1, OneWaiter
  <2> QED BY <2>3, <2>4
<1>4. /\ wt[x] \in Waits /\ wt[x].cost \in Nat /\ now <= wt[x].dl
      /\ \A e \in Nat : \A P : e >= now => Part(wt[x], After(e), P) = 0
      /\ \A W : Part(wt[x], W, Holding) = IF now \in W THEN wt[x].cost ELSE 0
  BY DueNow
<1>5. ASSUME NEW W, NEW P
      PROVE  /\ Used(W)' = Used(W) /\ Owed(W, P) \in Nat
             /\ Owed(W, P)' = Owed(W, P) - Part(wt[x], W, P) + Part(m, W, P)
  <2>1. Used(W)' = Used(W)
    BY DEF Used, UsedAt
  <2>2. Owed(W, P) \in Nat
    BY <1>1, OwedType
  <2>3. Owed(W, P)' = Owed(W, P) - Part(wt[x], W, P) + Part(m, W, P)
    BY <1>1, OwedChanged, ZenonT(30)
  <2> QED BY <2>1, <2>2, <2>3
<1>6. Uses(Nat)' = Uses(Nat)
  <2>1. Part(m, Nat, Holding) = wt[x].cost
    BY <1>1 DEF Part, Holding
  <2>2. Part(wt[x], Nat, Holding) = wt[x].cost
    BY <1>1, <1>4
  <2>3. /\ Owed(Nat, Holding) \in Nat /\ Used(Nat)' = Used(Nat)
        /\ Owed(Nat, Holding)' = Owed(Nat, Holding) - wt[x].cost + wt[x].cost
    BY <1>5, <2>1, <2>2
  <2>4. Owed(Nat, Holding)' = Owed(Nat, Holding)
    BY <1>4, <2>3
  <2> QED BY <2>3, <2>4 DEF Uses
<1>7. ASSUME NEW e \in Nat, e >= now
      PROVE  Future(e)' = Future(e)
  <2> DEFINE P == {"reserved"}
  <2>1. Part(m, After(e), P) = 0
    BY DEF Part
  <2>2. Part(wt[x], After(e), P) = 0
    BY <1>4, <1>7
  <2>3. Owed(After(e), P) \in Nat /\ Used(After(e))' = Used(After(e))
    BY <1>5
  <2>4. Owed(After(e), P)' = Owed(After(e), P) - Part(wt[x], After(e), P) + Part(m, After(e), P)
    BY <1>5
  <2>5. Owed(After(e), P)' = Owed(After(e), P)
    BY <2>1, <2>2, <2>3, <2>4
  <2> QED BY <2>3, <2>5 DEF Future
<1>8. Conserved' /\ Covered'
  BY <1>6, <1>7, SteadyLedger
<1>9. TypeOK'
  BY <1>1, <1>3 DEF TypeOK
<1>10. Due(m)
  <2>1. m.dl \in Nat /\ now <= m.dl
    BY <1>4, Constant DEF Waits
  <2>2. ~(Paused > Left(m.dl))
    <3>1. Left(m.dl) \in Int
      BY <1>1, <2>1, Constant DEF Left
    <3> QED BY <1>2, <3>1
  <2>3. now + Paused <= m.dl \/ m.dl = Forever
    BY <1>1, <1>2, <2>1, <2>2, WithinBudget
  <2>4. now <= m.due /\ (m.due <= m.dl \/ m.dl = Forever)
    BY <1>1, <1>2, <2>3
  <2> QED BY <2>1, <2>4 DEF Due
<1>11. ASSUME NEW y \in Waiters
       PROVE  Due(wt[y])'
  BY <1>3, <1>10 DEF Inv, Due
<1>12. Calmly'
  BY <1>2 DEF Calmly
<1> QED BY <1>8, <1>9, <1>11, <1>12 DEF Inv

LEMMA MatureInv ==
  ASSUME Inv, NEW x \in Waiters, Mature(x)
  PROVE  Inv'
<1>1. TypeOK /\ wt[x].pc \in Holding /\ wt[x].due <= now /\ UNCHANGED <<now, hold, calm>>
  BY DEF Inv, Mature
<1>2. CASE Done(x) /\ Grant(wt[x].cost) /\ UNCHANGED <<bal, sunk>>
  BY <1>1, <1>2, UseInv
<1>3. CASE Paused > Left(wt[x].dl) /\ Done(x) /\ Credit(wt[x].cost) /\ UNCHANGED spent
  <2>1. ~calm
    <3>1. now \in Nat /\ wt[x].dl \in Nat /\ now <= wt[x].dl /\ Forever \in Nat
      BY <1>1, Numbers, DueNow, Constant
    <3>2. Left(wt[x].dl) \in Nat
      BY <3>1 DEF Left
    <3>3. Paused # 0
      BY <1>3, <3>2
    <3>4. hold # 0
      BY <1>1, <3>3, PausedIs
    <3> QED BY <3>4 DEF Inv, Calmly
  <2>2. ~calm' /\ calm' \in BOOLEAN
    BY <1>1, <2>1 DEF TypeOK
  <2> QED BY <1>1, <1>3, <2>2, GiveBackInv
<1>4. CASE /\ Paused # 0 /\ Paused <= Left(wt[x].dl)
           /\ wt' = [wt EXCEPT ![x].pc = "held", ![x].due = hold]
           /\ UNCHANGED <<bal, ahead, spent, sunk>>
  <2> DEFINE m == [wt[x] EXCEPT !.pc = "held", !.due = hold]
  <2>1. wt \in [Waiters -> Waits] /\ hold \in Nat
    BY <1>1, Numbers DEF TypeOK
  <2>2. m \in Waits /\ m.pc = "held" /\ m.due = hold /\ m.dl = wt[x].dl /\ m.cost = wt[x].cost
    <3>1. wt[x] \in Waits
      BY <2>1
    <3> QED BY <2>1, <3>1 DEF Waits, Places, Holding
  <2>3. wt' = [wt EXCEPT ![x] = m]
    BY <1>4, <2>1
  <2> HIDE DEF m
  <2> QED BY <1>1, <1>4, <2>2, <2>3, HeldInv
<1> QED BY <1>2, <1>3, <1>4 DEF Mature

-----------------------------------------------------------------------------
(* The other operations, and time. *)

LEMMA TakeInv ==
  ASSUME Inv, NEW n \in Nat, Take(n), UNCHANGED <<now, hold, wt, ahead, spent, calm>>
  PROVE  Inv'
<1>1. TypeOK /\ now \in Nat /\ bal \in Int /\ bal <= Cap /\ sunk \in Nat /\ Cap \in Nat
  BY Numbers, Constant DEF Inv
<1>2. bal' = bal - n /\ sunk' = sunk + n
  BY DEF Take
<1>3. ASSUME NEW W, NEW P
      PROVE  Used(W)' = Used(W) /\ Owed(W, P)' = Owed(W, P)
  BY DEF Used, UsedAt, Owed, OwedBy, Part
<1>4. ASSUME NEW W
      PROVE  Uses(W)' = Uses(W) /\ Uses(W) \in Nat
  BY <1>1, <1>3, UsesType DEF Uses
<1>5. ASSUME NEW e \in Nat
      PROVE  Future(e)' = Future(e) /\ Future(e) \in Nat
  BY <1>1, <1>3, FutureType DEF Future
<1>6. Conserved'
  <2>1. Cap + now = bal + Uses(Nat) + sunk /\ Uses(Nat) \in Nat /\ Uses(Nat)' = Uses(Nat)
    BY <1>4 DEF Inv, Conserved
  <2> QED BY <1>1, <1>2, <2>1 DEF Conserved
<1>7. Covered'
  <2> SUFFICES ASSUME NEW e \in Nat, e >= now
               PROVE  bal' + (e - now) + Future(e)' + sunk' >= 0
    BY DEF Covered
  <2>1. Future(e)' = Future(e) /\ Future(e) \in Nat
    BY <1>5
  <2>2. bal + (e - now) + Future(e) + sunk >= 0
    BY DEF Inv, Covered
  <2> QED BY <1>1, <1>2, <2>1, <2>2
<1>8. TypeOK'
  <2>1. bal' \in Int /\ bal' <= Cap /\ sunk' \in Nat
    BY <1>1, <1>2
  <2>2. Reserved' = Reserved
    BY DEF Reserved
  <2> QED BY <1>1, <2>1, <2>2 DEF TypeOK
<1>9. ASSUME NEW x \in Waiters
      PROVE  Due(wt[x])'
  BY DEF Inv, Due
<1>10. Calmly'
  <2> SUFFICES ASSUME calm PROVE hold' = 0 /\ Latest' /\ Windows' /\ Room' /\ ArrivalOrder'
    BY DEF Calmly
  <2>1. hold = 0 /\ Latest /\ Windows /\ Room /\ ArrivalOrder
    BY DEF Inv, Calmly
  <2>2. Horizon \in Int /\ Horizon' \in Int /\ Horizon <= Horizon'
    BY <1>1, <1>2 DEF Horizon
  <2>3. ASSUME NEW i \in Int, i <= Horizon
        PROVE  i <= Horizon'
    BY <2>2, <2>3
  <2>4. Latest'
    <3>1. \A i \in Times : i \in Int
      BY DEF Times
    <3>2. \A x \in Waiters : wt[x].due \in Int
      BY <1>1 DEF TypeOK, Waits
    <3> QED BY <2>1, <2>3, <3>1, <3>2 DEF Latest
  <2>5. Windows'
    BY <1>4, <2>1 DEF Windows
  <2>6. ASSUME NEW a \in Nat, a <= now \/ Uses(From(a))' # 0
        PROVE  Uses(From(a))' + bal' <= Cap + now - a
    <3>1. Uses(From(a))' = Uses(From(a)) /\ Uses(From(a)) \in Nat
      BY <1>4
    <3>2. Uses(From(a)) + bal <= Cap + now - a
      BY <2>1, <2>6, <3>1 DEF Room
    <3> QED BY <1>1, <1>2, <3>1, <3>2
  <2>7. Room'
    BY <2>6 DEF Room
  <2>8. ArrivalOrder'
    BY <2>1 DEF ArrivalOrder
  <2> QED BY <2>1, <2>4, <2>5, <2>7, <2>8
<1> QED BY <1>6, <1>7, <1>8, <1>9, <1>10 DEF Inv

LEMMA DrainToInv ==
  ASSUME Inv, NEW remaining \in Drains, DrainTo(remaining)
  PROVE  Inv'
<1>1. PICK available \in 0..Cap :
        /\ available > remaining
        /\ Take(Lesser(available - remaining, Available))
  BY DEF DrainTo
<1>2. remaining \in Nat /\ available \in Nat /\ bal \in Int
  BY ThrottleAssumption, Constant, Numbers DEF Inv
<1>3. Available \in Nat /\ available - remaining \in Nat
  BY <1>1, <1>2 DEF Available
<1>4. Lesser(available - remaining, Available) \in Nat
  BY <1>3 DEF Lesser
<1> QED BY <1>1, <1>4, TakeInv DEF DrainTo

LEMMA ChargeInv ==
  ASSUME Inv, NEW n \in Charges, Charge(n)
  PROVE  Inv'
<1>1. n \in Nat
  BY ThrottleAssumption
<1> QED BY <1>1, TakeInv DEF Charge

LEMMA PauseForInv ==
  ASSUME Inv, NEW d \in Pauses, PauseFor(d)
  PROVE  Inv'
<1>1. /\ TypeOK /\ d \in Nat /\ now \in Nat /\ hold \in Nat /\ hold <= Forever
      /\ Forever \in Nat
  BY ThrottleAssumption, Constant, Numbers DEF Inv
<1>2. UNCHANGED <<now, bal, wt, ahead, spent, sunk>> /\ calm' = FALSE
  BY DEF PauseFor
<1>3. hold' \in 0..Forever
  <2>1. Until(d) \in 0..Forever
    BY <1>1 DEF Until
  <2> QED BY <1>1, <2>1 DEF PauseFor
<1>4. ASSUME NEW W, NEW P
      PROVE  Used(W)' = Used(W) /\ Owed(W, P)' = Owed(W, P)
  BY <1>2 DEF Used, UsedAt, Owed, OwedBy, Part
<1>5. Conserved' /\ Covered'
  <2>1. Uses(Nat)' = Uses(Nat)
    BY <1>4 DEF Uses
  <2>2. \A e \in Nat : e >= now => Future(e)' = Future(e)
    BY <1>4 DEF Future
  <2> QED BY <1>2, <2>1, <2>2, SteadyLedger
<1>6. TypeOK'
  <2>1. Reserved' = Reserved
    BY <1>2 DEF Reserved
  <2> QED BY <1>1, <1>2, <1>3, <2>1 DEF TypeOK
<1>7. ASSUME NEW x \in Waiters
      PROVE  Due(wt[x])'
  BY <1>2 DEF Inv, Due
<1>8. Calmly'
  BY <1>2 DEF Calmly
<1> QED BY <1>5, <1>6, <1>7, <1>8 DEF Inv

(* A sleeper of the pause that is woken is due now. *)
LEMMA Woken ==
  ASSUME TypeOK, NEW m \in Waits, Due(m), m.pc \in {"napping", "held"}, NEW u,
         u = [m EXCEPT !.due = now]
  PROVE  /\ u \in Waits /\ u.pc = m.pc /\ Due(u)
         /\ Part(u, Nat, Holding) = Part(m, Nat, Holding)
         /\ \A W : Part(u, W, {"reserved"}) = Part(m, W, {"reserved"})
<1>1. now \in Nat
  BY Numbers
<1>2. u \in Waits /\ u.pc = m.pc /\ u.due = now /\ u.dl = m.dl /\ u.cost = m.cost
  BY <1>1 DEF Waits
<1>3. Due(u)
  BY <1>1, <1>2 DEF Due
<1>4. m.due \in Nat
  BY DEF Waits
<1>5. Part(u, Nat, Holding) = Part(m, Nat, Holding)
  BY <1>1, <1>2, <1>4 DEF Part
<1>6. \A W : Part(u, W, {"reserved"}) = Part(m, W, {"reserved"})
  BY <1>2 DEF Part
<1> QED BY <1>2, <1>3, <1>5, <1>6

LEMMA ResumeInv ==
  ASSUME Inv, Resume
  PROVE  Inv'
<1>1. /\ TypeOK /\ hold # 0 /\ hold' = 0 /\ UNCHANGED <<now, bal, ahead, spent, sunk, calm>>
      /\ ~calm /\ wt \in [Waiters -> Waits]
  BY DEF Inv, Resume, Calmly, TypeOK
<1>2. PICK woken \in SUBSET {x \in Waiters : wt[x].pc \in {"napping", "held"}} :
        wt' = [x \in Waiters |-> IF x \in woken THEN [wt[x] EXCEPT !.due = now] ELSE wt[x]]
  BY DEF Resume
<1>3. ASSUME NEW x \in Waiters
      PROVE  /\ wt'[x] \in Waits /\ wt'[x].pc = wt[x].pc /\ Due(wt'[x])
             /\ Part(wt'[x], Nat, Holding) = Part(wt[x], Nat, Holding)
             /\ \A W : Part(wt'[x], W, {"reserved"}) = Part(wt[x], W, {"reserved"})
  <2>1. wt[x] \in Waits /\ Due(wt[x])
    BY <1>1 DEF Inv
  <2>2. CASE x \in woken
    <3>1. wt[x].pc \in {"napping", "held"} /\ wt'[x] = [wt[x] EXCEPT !.due = now]
      BY <1>2, <2>2
    <3> QED BY <1>1, <2>1, <3>1, Woken
  <2>3. CASE x \notin woken
    BY <1>2, <2>1, <2>3
  <2> QED BY <2>2, <2>3
<1>4. \A W : Used(W)' = Used(W)
  BY <1>1 DEF Used, UsedAt
<1>5. Uses(Nat)' = Uses(Nat)
  <2>1. OwedBy(Nat, Holding)' = OwedBy(Nat, Holding)
    <3>1. OwedBy(Nat, Holding)' = [x \in Waiters |-> Part(wt'[x], Nat, Holding)]
      BY DEF OwedBy, Part
    <3> QED BY <1>3, <3>1 DEF OwedBy
  <2> QED BY <1>4, <2>1 DEF Uses, Owed
<1>6. ASSUME NEW e \in Nat
      PROVE  Future(e)' = Future(e)
  <2>1. OwedBy(After(e), {"reserved"})' = OwedBy(After(e), {"reserved"})
    <3>1. OwedBy(After(e), {"reserved"})' = [x \in Waiters |-> Part(wt'[x], After(e), {"reserved"})]
      BY DEF OwedBy, Part
    <3>2. \A x \in Waiters :
            Part(wt'[x], After(e), {"reserved"}) = Part(wt[x], After(e), {"reserved"})
      BY <1>3
    <3> QED BY <3>1, <3>2 DEF OwedBy
  <2> QED BY <1>4, <2>1 DEF Future, Owed
<1>7. Conserved' /\ Covered'
  BY <1>1, <1>5, <1>6, SteadyLedger
<1>8. TypeOK'
  <2>1. wt' \in [Waiters -> Waits]
    <3>1. wt' = [x \in Waiters |-> wt'[x]]
      BY <1>2
    <3> QED BY <1>3, <3>1
  <2>2. Reserved' = Reserved
    BY <1>3 DEF Reserved
  <2>3. hold' \in 0..Forever
    BY <1>1, Constant
  <2> QED BY <1>1, <2>1, <2>2, <2>3 DEF TypeOK
<1>9. ASSUME NEW x \in Waiters
      PROVE  Due(wt[x])'
  BY <1>1, <1>3 DEF Due
<1>10. Calmly'
  BY <1>1 DEF Calmly
<1> QED BY <1>7, <1>8, <1>9, <1>10 DEF Inv

LEMMA TickInv ==
  ASSUME Inv, Tick
  PROVE  Inv'
<1>1. /\ TypeOK /\ now \in Nat /\ bal \in Int /\ bal <= Cap /\ sunk \in Nat /\ Cap \in Nat
      /\ Forever \in Nat /\ MaxNow \in Nat /\ Forever > MaxNow
  BY Numbers, Constant DEF Inv
<1>2. /\ now < MaxNow /\ now' = now + 1 /\ UNCHANGED <<hold, wt, ahead, spent, calm>>
  BY DEF Tick
<1>3. /\ bal' \in Int /\ bal' <= Cap /\ sunk' \in Nat
      /\ sunk' = bal + sunk + 1 - bal' /\ bal' <= bal + 1
      /\ bal + 1 <= Cap => bal' = bal + 1
      /\ ~(bal + 1 <= Cap) => bal' = Cap
  BY <1>1, CreditIs DEF Tick
<1>4. ASSUME NEW W, NEW P
      PROVE  Used(W)' = Used(W) /\ Owed(W, P)' = Owed(W, P)
  BY <1>2 DEF Used, UsedAt, Owed, OwedBy, Part
<1>5. ASSUME NEW W
      PROVE  Uses(W)' = Uses(W) /\ Uses(W) \in Nat
  BY <1>1, <1>4, UsesType DEF Uses
<1>6. ASSUME NEW e \in Nat
      PROVE  Future(e)' = Future(e) /\ Future(e) \in Nat
  BY <1>1, <1>4, FutureType DEF Future
<1>7. Conserved'
  <2>1. Cap + now = bal + Uses(Nat) + sunk /\ Uses(Nat) \in Nat /\ Uses(Nat)' = Uses(Nat)
    BY <1>5 DEF Inv, Conserved
  <2> QED BY <1>1, <1>2, <1>3, <2>1 DEF Conserved
<1>8. Covered'
  <2> SUFFICES ASSUME NEW e \in Nat, e >= now'
               PROVE  bal' + (e - now') + Future(e)' + sunk' >= 0
    BY DEF Covered
  <2>1. Future(e)' = Future(e) /\ Future(e) \in Nat
    BY <1>6
  <2>2. e >= now
    BY <1>1, <1>2
  <2>3. bal + (e - now) + Future(e) + sunk >= 0
    BY <2>2 DEF Inv, Covered
  <2> QED BY <1>1, <1>2, <1>3, <2>1, <2>3
<1>9. TypeOK'
  <2>1. now' \in 0..MaxNow
    BY <1>1, <1>2
  <2>2. Reserved' = Reserved
    BY <1>2 DEF Reserved
  <2> QED BY <1>1, <1>2, <1>3, <2>1, <2>2 DEF TypeOK
<1>10. ASSUME NEW x \in Waiters
       PROVE  Due(wt[x])'
  <2> DEFINE m == wt[x]
  <2>1. m \in Waits /\ Due(m) /\ (m.pc # "idle" => m.due > now)
    BY <1>1 DEF Inv, TypeOK, Tick
  <2>2. Due(m)' <=> (m.pc # "idle" => /\ now' <= m.due /\ now' <= m.dl
                                      /\ m.due <= m.dl \/ m.dl = Forever)
    BY <1>2 DEF Due
  <2> HIDE DEF m
  <2>3. m.due \in Nat /\ m.dl \in Nat
    BY <1>1, <2>1 DEF Waits
  <2>4. ASSUME m.pc # "idle"
        PROVE  /\ now' <= m.due /\ now' <= m.dl
               /\ m.due <= m.dl \/ m.dl = Forever
    BY <1>1, <1>2, <2>1, <2>3, <2>4 DEF Due
  <2>5. Due(m)'
    BY <2>2, <2>4
  <2> QED BY <2>5 DEF m
<1>11. Horizon \in Int /\ Horizon' \in Int /\ Horizon <= Horizon'
  <2>1. CASE bal + 1 <= Cap
    BY <1>1, <1>2, <1>3, <2>1 DEF Horizon
  <2>2. CASE ~(bal + 1 <= Cap)
    <3>1. bal' = Cap /\ bal >= 0
      BY <1>1, <1>3, <2>2
    <3>2. Horizon = now /\ Horizon' = now + 1
      BY <1>1, <1>2, <3>1 DEF Horizon
    <3> QED BY <1>1, <3>2
  <2> QED BY <2>1, <2>2
<1>12. ASSUME Room, NEW a \in Nat, a <= now' \/ Uses(From(a))' # 0
       PROVE  Uses(From(a))' + bal' <= Cap + now' - a
  <2>1. Uses(From(a))' = Uses(From(a)) /\ Uses(From(a)) \in Nat
    BY <1>5
  <2>2. CASE a <= now \/ Uses(From(a)) # 0
    <3>1. Uses(From(a)) + bal <= Cap + now - a
      BY <1>12, <2>2 DEF Room
    <3> QED BY <1>1, <1>2, <1>3, <2>1, <3>1
  <2>3. CASE ~(a <= now) /\ Uses(From(a)) = 0
    <3>1. a = now + 1 /\ Uses(From(a))' = 0
      BY <1>1, <1>2, <1>12, <2>1, <2>3
    <3>2. Cap + now' - a = Cap
      BY <1>1, <1>2, <3>1
    <3> QED BY <1>3, <3>1, <3>2
  <2> QED BY <2>2, <2>3
<1>13. Room => Room'
  BY <1>12 DEF Room
<1>14. Calmly'
  <2> SUFFICES ASSUME calm PROVE hold' = 0 /\ Latest' /\ Windows' /\ Room' /\ ArrivalOrder'
    BY <1>2 DEF Calmly
  <2>1. hold = 0 /\ Latest /\ Windows /\ Room /\ ArrivalOrder
    BY DEF Inv, Calmly
  <2>2. ASSUME NEW i \in Int, i <= Horizon
        PROVE  i <= Horizon'
    BY <1>11, <2>2
  <2>3. Latest'
    <3>1. \A i \in Times : i \in Int
      BY DEF Times
    <3>2. \A x \in Waiters : wt[x].due \in Int
      BY <1>1 DEF TypeOK, Waits
    <3> QED BY <1>2, <2>1, <2>2, <3>1, <3>2 DEF Latest
  <2>4. Windows'
    BY <1>5, <2>1 DEF Windows
  <2>5. ArrivalOrder'
    BY <1>2, <2>1 DEF ArrivalOrder
  <2> QED BY <1>2, <1>13, <2>1, <2>3, <2>4, <2>5
<1> QED BY <1>7, <1>8, <1>9, <1>10, <1>14 DEF Inv

-----------------------------------------------------------------------------
(* The invariant holds throughout. *)

LEMMA InitInv == Init => Inv
<1> SUFFICES ASSUME Init PROVE Inv
  OBVIOUS
<1>1. /\ now = 0 /\ bal = Cap /\ hold = 0 /\ wt = [x \in Waiters |-> Idle] /\ ahead = {}
      /\ spent = [i \in 0..MaxNow |-> 0] /\ sunk = 0 /\ calm = TRUE /\ Cap \in Nat /\ Cap >= 1
      /\ MaxNow \in Nat /\ Forever \in Nat
  BY Constant DEF Init
<1>2. TypeOK
  BY <1>1, IdleWait DEF TypeOK
<1>3. \A x \in Waiters : wt[x].pc = "idle"
  BY <1>1, IdleWait
<1>4. \A x \in Waiters : Due(wt[x])
  BY <1>3 DEF Due
<1>5. \A W : Uses(W) = 0
  <2>1. \A i \in Times : spent[i] = 0
    BY <1>1 DEF Times
  <2>2. \A x \in Waiters : wt[x].pc \notin Holding
    BY <1>3 DEF Holding
  <2> QED BY <1>2, <2>1, <2>2, UsesNothing
<1>6. Conserved
  <2>1. Uses(Nat) = 0
    BY <1>5
  <2> QED BY <1>1, <2>1 DEF Conserved
<1>7. ASSUME NEW d \in Nat, d >= now
      PROVE  bal + (d - now) + Future(d) + sunk >= 0
  <2>1. Future(d) \in Nat
    BY <1>2, FutureType
  <2> QED BY <1>1, <1>7, <2>1
<1>8. Covered
  BY <1>7 DEF Covered
<1>9. Latest
  <2>1. \A i \in Times : spent[i] = 0
    BY <1>1 DEF Times
  <2>2. \A x \in Waiters : wt[x].pc \notin Holding
    BY <1>3 DEF Holding
  <2> QED BY <2>1, <2>2 DEF Latest
<1>10. Windows /\ Room
  <2>1. ASSUME NEW a \in Nat, NEW b \in Nat, a <= b
        PROVE  Uses(a..b) <= Cap + (b - a)
    <3>1. Uses(a..b) = 0
      BY <1>5
    <3> QED BY <1>1, <2>1, <3>1
  <2>2. ASSUME NEW a \in Nat, a <= now \/ Uses(From(a)) # 0
        PROVE  Uses(From(a)) + bal <= Cap + now - a
    <3>1. Uses(From(a)) = 0
      BY <1>5
    <3>2. a <= now
      BY <2>2, <3>1
    <3> QED BY <1>1, <3>1, <3>2
  <2>3. Windows
    BY <2>1 DEF Windows
  <2>4. Room
    BY <2>2 DEF Room
  <2> QED BY <2>3, <2>4
<1>11. ArrivalOrder
  BY <1>1 DEF ArrivalOrder
<1>12. Calmly
  BY <1>1, <1>9, <1>10, <1>11 DEF Calmly
<1> QED BY <1>2, <1>4, <1>6, <1>8, <1>12 DEF Inv

LEMMA StutterInv ==
  ASSUME Inv, UNCHANGED vars
  PROVE  Inv'
<1>1. UNCHANGED <<now, bal, hold, wt, ahead, spent, sunk, calm>>
  BY DEF vars
<1>2. ASSUME NEW W, NEW P
      PROVE  Used(W)' = Used(W) /\ Owed(W, P)' = Owed(W, P)
  BY <1>1 DEF Used, UsedAt, Owed, OwedBy, Part
<1>3. \A W : Uses(W)' = Uses(W)
  BY <1>2 DEF Uses
<1>4. \A e : Future(e)' = Future(e)
  BY <1>2 DEF Future
<1>5. Conserved' /\ Covered'
  BY <1>1, <1>3, <1>4, SteadyLedger
<1>6. TypeOK' /\ \A x \in Waiters : Due(wt[x])'
  BY <1>1 DEF Inv, TypeOK, Reserved, Due
<1>7. Calmly'
  <2> SUFFICES ASSUME calm PROVE hold' = 0 /\ Latest' /\ Windows' /\ Room' /\ ArrivalOrder'
    BY <1>1 DEF Calmly
  <2>1. hold = 0 /\ Latest /\ ArrivalOrder
    BY DEF Inv, Calmly
  <2>2. Windows' /\ Room'
    BY <1>1, <1>3, SteadyWindows
  <2>3. Latest' /\ ArrivalOrder'
    BY <1>1, <2>1 DEF Latest, Horizon, ArrivalOrder
  <2> QED BY <1>1, <2>1, <2>2, <2>3
<1> QED BY <1>5, <1>6, <1>7 DEF Inv

LEMMA NextInv == Inv /\ [Next]_vars => Inv'
<1> SUFFICES ASSUME Inv, [Next]_vars PROVE Inv'
  OBVIOUS
<1>1. CASE \E x \in Waiters : LookToTake(x) \/ TryAcquire(x) \/ LookToReserve(x) \/ Reserve(x)
  BY <1>1, LookToTakeInv, TryAcquireInv, LookToReserveInv, ReserveInv
<1>3. CASE \E n \in Refunds : Refund(n)
  BY <1>3, RefundInv
<1>4. CASE \E n \in Drains : DrainTo(n)
  BY <1>4, DrainToInv
<1>5. CASE \E n \in Charges : Charge(n)
  BY <1>5, ChargeInv
<1>6. CASE \E d \in Pauses : PauseFor(d)
  BY <1>6, PauseForInv
<1>7. CASE Resume
  BY <1>7, ResumeInv
<1>2. CASE \E x \in Waiters : Acquire(x) \/ AskAgain(x) \/ Book(x) \/ Refused(x)
  BY <1>2, AcquireInv, AskAgainInv, BookInv, RefusedInv
<1>8. CASE \E x \in Waiters : Mature(x) \/ Cancel(x)
  BY <1>8, MatureInv, CancelInv
<1>9. CASE Tick
  BY <1>9, TickInv
<1>10. CASE UNCHANGED vars
  BY <1>10, StutterInv
<1> QED BY <1>1, <1>2, <1>3, <1>4, <1>5, <1>6, <1>7, <1>8, <1>9, <1>10 DEF Next

(* The ledger, the deadlines and, while calm, the windows and the order    *)
(* hold in every reachable state.                                          *)
THEOREM InvHolds == Spec => []Inv
BY InitInv, NextInv, PTL DEF Spec

-----------------------------------------------------------------------------
(* The properties. *)

(* Every token of the bucket is at any time in it, promised to a waiter,   *)
(* granted or gone: drop, timeout, pause and refund neither keep nor       *)
(* double one (src/throttle.rs).                                           *)
THEOREM TokensAreConserved == Spec => []TokensConserved
<1>1. Inv => TokensConserved
  <2> SUFFICES ASSUME Inv PROVE TokensConserved
    OBVIOUS
  <2>1. TypeOK /\ MaxNow \in Nat /\ MaxNow \in Times
    BY Constant DEF Inv, Times
  <2>2. Promised = Owed(Nat, Holding)
    BY <2>1, PromisedIs
  <2>3. Granted(0, MaxNow) = Used(Nat)
    <3>1. Granted(0, MaxNow) = Used(0..MaxNow)
      BY <2>1, GrantedIs
    <3>2. UsedAt(0..MaxNow) = UsedAt(Nat)
      BY <2>1 DEF UsedAt, Times
    <3> QED BY <3>1, <3>2 DEF Used
  <2>4. Used(Nat) \in Nat /\ Owed(Nat, Holding) \in Nat
    BY <2>1, UsedType, OwedType
  <2>5. Cap + now = bal + (Used(Nat) + Owed(Nat, Holding)) + sunk
    BY DEF Inv, Conserved, Uses
  <2>6. bal \in Int /\ sunk \in Nat
    BY <2>1, Numbers
  <2>7. Cap + now = bal + Owed(Nat, Holding) + Used(Nat) + sunk
    BY <2>4, <2>5, <2>6
  <2> QED BY <2>1, <2>2, <2>3, <2>7 DEF TokensConserved
<1> QED BY <1>1, InvHolds, PTL

(* What is granted until now, net of refunds, is within the burst and what *)
(* has accrued, although reservations run ahead of the bucket.             *)
LEMMA RateBounded ==
  ASSUME Inv
  PROVE  RateBound
<1>1. /\ TypeOK /\ now \in Nat /\ now \in Times /\ bal \in Int /\ sunk \in Nat /\ Cap \in Nat
      /\ MaxNow \in Nat
  BY Numbers, Constant DEF Inv
<1> DEFINE W == After(now)
<1>2. Granted(0, now) = Used(0..now)
  BY <1>1, GrantedIs
<1>3. Used(Nat) = Used(0..now) + Used(W) /\ Used(0..now) \in Nat /\ Used(W) \in Nat
  <2> DEFINE f == UsedAt(0..now)
             g == UsedAt(W)
             h == UsedAt(Nat)
  <2>1. \A i \in Times : f[i] \in Nat /\ g[i] \in Nat /\ h[i] \in Nat
    BY <1>1, UsedType
  <2>2. \A i \in Times : \/ f[i] = h[i] /\ g[i] = 0
                         \/ f[i] = 0 /\ g[i] = h[i]
    <3> DEFINE V == 0..now
    <3>1. \A i \in Times : i \in Nat /\ (i \in V <=> i \notin W)
      BY <1>1 DEF Times, After
    <3>2. \A i \in Times : f[i] = IF i \in V THEN spent[i] ELSE 0
      BY DEF UsedAt
    <3> HIDE DEF V, W, f
    <3> QED BY <3>1, <3>2 DEF UsedAt
  <2>3. Used(Nat) = Total(h, Times) /\ Used(0..now) = Total(f, Times) /\ Used(W) = Total(g, Times)
    BY DEF Used
  <2> HIDE DEF f, g, h
  <2>4. Total(h, Times) = Total(f, Times) + Total(g, Times)
    BY <2>1, <2>2, Constant, TotalSplit
  <2>5. Used(0..now) \in Nat /\ Used(W) \in Nat
    BY <1>1, UsedType
  <2> QED BY <2>3, <2>4, <2>5
<1>4. /\ Owed(W, {"reserved"}) <= Owed(Nat, Holding) /\ Owed(W, {"reserved"}) \in Nat
      /\ Owed(Nat, Holding) \in Nat
  <2> DEFINE f == OwedBy(W, {"reserved"})
             g == OwedBy(Nat, Holding)
  <2>1. \A x \in Waiters : f[x] \in Nat /\ g[x] \in Nat
    BY <1>1, OwedType
  <2>2. \A x \in Waiters : f[x] <= g[x]
    <3>1. \A x \in Waiters : wt[x] \in Waits /\ wt[x].cost \in Nat /\ wt[x].due \in Nat
      BY <1>1, PartType DEF TypeOK, Waits
    <3>2. "reserved" \in Holding
      BY DEF Holding
    <3> QED BY <3>1, <3>2 DEF OwedBy, Part
  <2>3. Owed(W, {"reserved"}) = Total(f, Waiters) /\ Owed(Nat, Holding) = Total(g, Waiters)
    BY DEF Owed
  <2> HIDE DEF f, g
  <2>4. Total(f, Waiters) <= Total(g, Waiters)
    BY <2>1, <2>2, Constant, TotalMono
  <2>5. Owed(W, {"reserved"}) \in Nat /\ Owed(Nat, Holding) \in Nat
    BY <1>1, OwedType
  <2> QED BY <2>3, <2>4, <2>5
<1>5. Cap + now = bal + (Used(Nat) + Owed(Nat, Holding)) + sunk
  BY DEF Inv, Conserved, Uses
<1>6. bal + (now - now) + (Used(W) + Owed(W, {"reserved"})) + sunk >= 0
  BY <1>1 DEF Inv, Covered, Future
<1> HIDE DEF W
<1> QED BY <1>1, <1>2, <1>3, <1>4, <1>5, <1>6 DEF RateBound

(* Grants never exceed the burst plus what has accrued since the start;    *)
(* and, until something is given back or paused, not over any window       *)
(* either, although reservations are handed out ahead of time.             *)
THEOREM GrantsAreBounded == Spec => []GrantsBounded
<1>1. ASSUME Inv
      PROVE  WindowBoundWhileCalm
  <2> SUFFICES ASSUME calm, NEW a \in 0..now
               PROVE  Granted(a, now) <= Cap + (now - a)
    BY DEF WindowBoundWhileCalm, WindowBound
  <2>1. TypeOK /\ Windows /\ now \in Nat /\ now \in Times /\ a \in Nat /\ a <= now /\ Cap \in Nat
    BY <1>1, Numbers, Constant DEF Inv, Calmly
  <2>2. Granted(a, now) = Used(a..now)
    BY <2>1, GrantedIs
  <2>3. Used(a..now) \in Nat /\ Owed(a..now, Holding) \in Nat
    BY <2>1, UsedType, OwedType
  <2>4. Used(a..now) + Owed(a..now, Holding) <= Cap + (now - a)
    BY <2>1 DEF Windows, Uses
  <2> QED BY <2>1, <2>2, <2>3, <2>4
<1>2. Inv => GrantsBounded
  BY <1>1, RateBounded DEF GrantsBounded
<1> QED BY <1>2, InvHolds, PTL

(* A wait with a timeout ends by its deadline, whatever pauses are set     *)
(* while its reservation matures; and, until something is given back or    *)
(* paused, waiters are due in the order in which they reserved.            *)
THEOREM WaitsAreHonored == Spec => []WaitsHonored
<1>1. Inv => WaitsHonored
  BY DEF Inv, Due, Calmly, WaitsHonored, DeadlineKept, ArrivalOrderWhileCalm
<1> QED BY <1>1, InvHolds, PTL

(* During a pause no step grants tokens but that of a call which had seen  *)
(* none, once and its own cost, and no call gets that far any more; a      *)
(* reservation made before the pause is not used in it.                    *)
THEOREM PausesStopCalls == Spec => PauseStopsCalls
<1> DEFINE Stops == Paused # 0 =>
             /\ Passed' \subseteq Passed
             /\ \A i \in 0..MaxNow :
                  \/ spent'[i] <= spent[i]
                  \/ \E x \in Passed \ Passed' : spent'[i] = spent[i] + wt[x].cost
<1>1. ASSUME Inv, [Next]_vars, Paused # 0
      PROVE  /\ Passed' \subseteq Passed
             /\ \A i \in 0..MaxNow :
                  \/ spent'[i] <= spent[i]
                  \/ \E x \in Passed \ Passed' : spent'[i] = spent[i] + wt[x].cost
  <2>1. /\ TypeOK /\ spent \in [0..MaxNow -> Nat] /\ now \in 0..MaxNow
        /\ wt \in [Waiters -> Waits] /\ \A n \in Refunds : n \in Nat
        /\ \A i \in 0..MaxNow : spent[i] \in Nat /\ spent[i] <= spent[i]
    <3>1. TypeOK
      BY <1>1 DEF Inv
    <3>2. spent \in [0..MaxNow -> Nat] /\ now \in 0..MaxNow /\ wt \in [Waiters -> Waits]
      BY <3>1 DEF TypeOK
    <3> QED BY <3>1, <3>2, ThrottleAssumption
  <2>2. CASE \E n \in Refunds : Refund(n)
    <3>1. PICK n \in Refunds : Refund(n)
      BY <2>2
    <3>2. spent' = [spent EXCEPT ![now] = spent[now] - n] /\ n \in Nat /\ wt' = wt
      BY <2>1, <3>1 DEF Refund
    <3>3. Passed' = Passed
      BY <3>2 DEF Passed
    <3>4. \A i \in 0..MaxNow : spent'[i] <= spent[i]
      BY <2>1, <3>2
    <3> QED BY <3>3, <3>4
  <2>3. CASE spent' = spent /\ wt' = wt
    <3>1. Passed' = Passed
      BY <2>3 DEF Passed
    <3> QED BY <2>1, <2>3, <3>1
  <2>4. CASE Resume
    <3>1. spent' = spent
      BY <2>4 DEF Resume
    <3>2. \A y \in Waiters : wt'[y].pc = wt[y].pc
      BY <2>1, <2>4 DEF Resume, Waits
    <3>3. Passed' = Passed
      BY <3>2 DEF Passed
    <3> QED BY <2>1, <3>1, <3>3
  <2>5. ASSUME NEW x \in Waiters, NEW m, wt' = [wt EXCEPT ![x] = m],
               m.pc \notin {"trying", "reserving"}
        PROVE  /\ Passed' = Passed \ {x}
               /\ wt[x].pc \in {"trying", "reserving"} => x \in Passed \ Passed'
    <3>1. wt'[x] = m /\ \A y \in Waiters : y # x => wt'[y] = wt[y]
      BY <2>1, <2>5
    <3> QED BY <2>5, <3>1 DEF Passed
  <2>6. ASSUME NEW x \in Waiters, NEW m, wt' = [wt EXCEPT ![x] = m],
               m.pc \notin {"trying", "reserving"}, spent' = spent
        PROVE  /\ Passed' \subseteq Passed
               /\ \A i \in 0..MaxNow : spent'[i] <= spent[i]
    BY <2>1, <2>5, <2>6
  <2>7. ASSUME NEW x \in Waiters,
               LookToTake(x) \/ TryAcquire(x) \/ LookToReserve(x) \/ Reserve(x)
        PROVE  /\ Passed' \subseteq Passed
               /\ \A i \in 0..MaxNow :
                    \/ spent'[i] <= spent[i]
                    \/ \E y \in Passed \ Passed' : spent'[i] = spent[i] + wt[y].cost
    <3>1. ~LookToTake(x) /\ ~LookToReserve(x)
      BY <1>1 DEF LookToTake, LookToReserve, Look
    <3>2. wt' = [wt EXCEPT ![x] = Idle] /\ wt[x].pc \in {"trying", "reserving"}
      BY <2>7, <3>1 DEF TryAcquire, Reserve
    <3>3. Idle.pc \notin {"trying", "reserving"}
      BY IdleWait
    <3>4. Passed' = Passed \ {x} /\ x \in Passed \ Passed'
      BY <2>5, <3>2, <3>3
    <3>5. \/ spent' = spent
          \/ \E j \in Int : spent' = [spent EXCEPT ![j] = spent[j] + wt[x].cost]
      <4>1. CASE TryAcquire(x)
        <5>1. spent' = spent \/ spent' = [spent EXCEPT ![now] = spent[now] + wt[x].cost]
          BY <2>1, <4>1 DEF TryAcquire, Grant
        <5>2. now \in Int
          BY <2>1
        <5> QED BY <5>1, <5>2
      <4>2. CASE Reserve(x)
        <5> DEFINE j == now + TimeUntil(wt[x].cost)
        <5>1. j \in Int
          <6>1. wt[x].cost \in Nat /\ now \in Nat
            BY <2>1, Constant DEF Waits
          <6>2. TimeUntil(wt[x].cost) \in Nat
            BY <2>1, <6>1, TimeUntilIs
          <6> QED BY <6>1, <6>2
        <5>2. spent' = spent \/ spent' = [spent EXCEPT ![j] = spent[j] + wt[x].cost]
          BY <2>1, <4>2 DEF Reserve
        <5> HIDE DEF j
        <5> QED BY <5>1, <5>2
      <4> QED BY <2>7, <3>1, <4>1, <4>2
    <3>6. \A i \in 0..MaxNow : spent'[i] = spent[i] \/ spent'[i] = spent[i] + wt[x].cost
      BY <2>1, <3>5
    <3> QED BY <2>1, <3>4, <3>6
  <2>8. ASSUME NEW x \in Waiters, Acquire(x) \/ AskAgain(x) \/ Book(x) \/ Refused(x)
        PROVE  /\ Passed' \subseteq Passed
               /\ \A i \in 0..MaxNow : spent'[i] <= spent[i]
    <3>1. spent' = spent
      BY <2>8 DEF Acquire, AskAgain, Ask, Book, Refused
    <3>2. \A y \in Waiters : wt'[y].pc \in {"trying", "reserving"} => wt'[y] = wt[y]
      <4>1. CASE Acquire(x)
        BY <2>1, <4>1, <1>1 DEF Acquire, Ask, Idle, Waits
      <4>2. CASE AskAgain(x)
        BY <2>1, <4>2, <1>1 DEF AskAgain, Ask, Idle, Waits
      <4>3. CASE Book(x)
        BY <2>1, <4>3 DEF Book, Waits
      <4>4. CASE Refused(x)
        BY <2>1, <4>4 DEF Refused, Idle, Waits
      <4> QED BY <2>8, <4>1, <4>2, <4>3, <4>4
    <3>3. Passed' \subseteq Passed
      BY <3>2 DEF Passed
    <3> QED BY <2>1, <3>1, <3>3
  <2>9. ASSUME NEW x \in Waiters, Mature(x) \/ Cancel(x)
        PROVE  /\ Passed' \subseteq Passed
               /\ \A i \in 0..MaxNow : spent'[i] <= spent[i]
    <3>1. spent' = spent
      BY <1>1, <2>9 DEF Mature, Cancel
    <3>2. \A y \in Waiters : wt'[y].pc \in {"trying", "reserving"} => wt'[y] = wt[y]
      BY <2>1, <2>9 DEF Mature, Cancel, Done, Idle, Waits
    <3>3. Passed' \subseteq Passed
      BY <3>2 DEF Passed
    <3> QED BY <2>1, <3>1, <3>3
  <2>10. CASE \/ \E n \in Drains : DrainTo(n)
              \/ \E n \in Charges : Charge(n)
              \/ \E d \in Pauses : PauseFor(d)
              \/ Tick \/ UNCHANGED vars
    BY <2>3, <2>10 DEF DrainTo, Charge, PauseFor, Tick, vars
  <2> QED BY <1>1, <2>2, <2>4, <2>7, <2>8, <2>9, <2>10 DEF Next
<1>2. Inv /\ [Next]_vars => [Stops]_vars
  BY <1>1 DEF Stops
<1> QED BY <1>2, InvHolds, PTL DEF Spec, PauseStopsCalls, Stops

=============================================================================
