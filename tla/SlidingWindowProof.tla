------------------------- MODULE SlidingWindowProof -------------------------
(***************************************************************************)
(* Proofs about the sliding-window log, for every limit, window, set of    *)
(* waiters, costs, timeouts, pauses, charges and refunds, and every age of *)
(* clock readings below the window.                                        *)
(*                                                                         *)
(* The window bound is not inductive: a grant is refused because of what   *)
(* the log still holds, so the log must hold enough.  Remembered says, of  *)
(* every instant d from now on, that the units granted in the W - MaxLag   *)
(* instants that end with d are no more than the log's units that will not *)
(* have left it by d.  It is said of the future as well, because a refund  *)
(* takes from the oldest grants: where it takes units that leave the log   *)
(* before d, the refunded grant may be one that does not.                  *)
(***************************************************************************)
EXTENDS SlidingWindow, Counting

-----------------------------------------------------------------------------
(* The invariant. *)

Grants == [at : Nat, count : Nat \ {0}]
Times == 0..MaxNow

(* A log is kept in the order of its stamps, none of them in the future. *)
Sorted(g) == \A i, j \in DOMAIN g : i <= j => g[i].at <= g[j].at
Past(g) == \A i \in DOMAIN g : g[i].at <= now

(* The units that have not left the log by d, and those granted so late    *)
(* that they must be among them.                                           *)
Staying(g, d) == {i \in DOMAIN g : g[i].at + W > d}
Late(g, d) == SumOver(Counts(g), Staying(g, d))
Recent(d) == {i \in Times : i + W > d + MaxLag}

Remembered == \A d \in Nat : d >= now => SumOver(spent, Recent(d)) <= Late(log, d)

(* The units of waiters that may still give them back are booked. *)
Costed == [x \in Waiters |-> wt[x].cost]
Booked == \A i \in Times : SumOver(Costed, WaitersOf(i)) <= spent[i]

Inv ==
  /\ TypeOK
  /\ UsedExact
  /\ Sorted(log)
  /\ Booked
  /\ ~stray => Remembered /\ WindowBound

-----------------------------------------------------------------------------
(* Sums over a log. *)

Sum(g, S) == Total(Counts(g), S)

LEMMA Constant ==
  /\ Limit \in Nat /\ W \in Nat /\ W > 0 /\ MaxLag \in Nat /\ MaxLag < W /\ MaxNow \in Nat
  /\ Forever \in Nat /\ Forever > MaxNow /\ IsFiniteSet(Waiters) /\ IsFiniteSet(Times)
<1>1. IsFiniteSet(Times)
  BY SlidingAssumption, FS_Interval DEF Times
<1> QED BY <1>1, SlidingAssumption

LEMMA Inputs ==
  /\ Costs \subseteq Nat /\ Timeouts \subseteq Nat
  /\ \A d \in Pauses : d \in Nat /\ d > 0
  /\ \A n \in Charges : n \in Nat /\ n > 0
  /\ \A n \in Refunds : n \in Nat /\ n > 0
<1>1. /\ Costs \subseteq Nat /\ Timeouts \subseteq Nat /\ Pauses \subseteq Nat \ {0}
      /\ Charges \subseteq Nat \ {0} /\ Refunds \subseteq Nat \ {0}
  BY SlidingAssumption, Zenon
<1>2. \A n \in Nat \ {0} : n \in Nat /\ n > 0
  OBVIOUS
<1> QED BY <1>1, <1>2, Zenon

LEMMA SumIs ==
  ASSUME NEW f, NEW S
  PROVE  SumOver(f, S) = Total(f, S)
BY DEF SumOver, Total, UnitsOf

LEMMA SumType ==
  ASSUME NEW g \in Seq(Grants), NEW S, S \subseteq DOMAIN g
  PROVE  /\ Len(g) \in Nat /\ DOMAIN g = 1..Len(g) /\ IsFiniteSet(S) /\ Sum(g, S) \in Nat
         /\ \A i \in DOMAIN g : /\ g[i] \in Grants /\ g[i].at \in Nat
                                /\ g[i].count \in Nat /\ g[i].count > 0
                                /\ Counts(g)[i] = g[i].count
<1>1. Len(g) \in Nat /\ DOMAIN g = 1..Len(g)
  OBVIOUS
<1>2. \A i \in DOMAIN g : g[i] \in Grants
  OBVIOUS
<1>3. \A i \in DOMAIN g : /\ g[i] \in Grants /\ g[i].at \in Nat
                          /\ g[i].count \in Nat /\ g[i].count > 0
                          /\ Counts(g)[i] = g[i].count
  BY <1>2 DEF Grants, Counts
<1>4. IsFiniteSet(S)
  <2>1. IsFiniteSet(1..Len(g))
    BY <1>1, FS_Interval
  <2> QED BY <1>1, <2>1, FS_Subset
<1>5. Sum(g, S) \in Nat
  <2>1. \A i \in S : Counts(g)[i] \in Nat
    BY <1>3
  <2> QED BY <1>4, <2>1, UnitsFinite DEF Sum
<1> QED BY <1>1, <1>3, <1>4, <1>5

LEMMA SumSplit ==
  ASSUME NEW g \in Seq(Grants), NEW S, NEW T, S \subseteq DOMAIN g, T \subseteq DOMAIN g,
         S \cap T = {}
  PROVE  /\ Sum(g, S) \in Nat /\ Sum(g, T) \in Nat /\ Sum(g, S \cup T) \in Nat
         /\ Sum(g, S \cup T) = Sum(g, S) + Sum(g, T)
<1>1. IsFiniteSet(S) /\ IsFiniteSet(T)
  BY SumType
<1>2. \A i \in S \cup T : Counts(g)[i] \in Nat
  BY SumType
<1> QED BY <1>1, <1>2, TotalUnion DEF Sum

LEMMA SumSub ==
  ASSUME NEW g \in Seq(Grants), NEW S, NEW T, S \subseteq T, T \subseteq DOMAIN g
  PROVE  Sum(g, S) \in Nat /\ Sum(g, T) \in Nat /\ Sum(g, S) <= Sum(g, T)
<1> DEFINE R == T \ S
<1>1. S \cup R = T /\ S \cap R = {} /\ R \subseteq DOMAIN g /\ S \subseteq DOMAIN g
  OBVIOUS
<1> HIDE DEF R
<1>2. /\ Sum(g, S) \in Nat /\ Sum(g, R) \in Nat /\ Sum(g, T) \in Nat
      /\ Sum(g, T) = Sum(g, S) + Sum(g, R)
  BY <1>1, SumSplit
<1> QED BY <1>2

(* The units of the first grants. *)
LEMMA FirstGrows ==
  ASSUME NEW g \in Seq(Grants)
  PROVE  /\ \A i \in 0..Len(g) : First(g, i) \in Nat
         /\ First(g, 0) = 0
         /\ First(g, Len(g)) = Units(g)
         /\ \A i \in 0..Len(g) : \A j \in 0..i : First(g, j) <= First(g, i)
         /\ \A i \in 1..Len(g) : First(g, i) = First(g, i - 1) + g[i].count
<1>1. Len(g) \in Nat /\ DOMAIN g = 1..Len(g)
  OBVIOUS
<1>2. \A i \in 0..Len(g) : First(g, i) = Sum(g, 1..i)
  BY SumIs DEF First, Sum
<1>3. \A i \in 0..Len(g) : First(g, i) \in Nat
  <2> SUFFICES ASSUME NEW i \in 0..Len(g) PROVE First(g, i) \in Nat
    OBVIOUS
  <2>1. 1..i \subseteq DOMAIN g
    BY <1>1
  <2> QED BY <1>2, <2>1, SumType
<1>4. First(g, 0) = 0
  <2>1. \A x \in 1..0 : Counts(g)[x] = 0
    OBVIOUS
  <2>2. Total(Counts(g), 1..0) = 0
    BY <2>1, TotalZero
  <2> QED BY <2>2, <1>1, <1>2 DEF Sum
<1>5. First(g, Len(g)) = Units(g)
  BY <1>1 DEF First, Units
<1>6. \A i \in 0..Len(g) : \A j \in 0..i : First(g, j) <= First(g, i)
  <2> SUFFICES ASSUME NEW i \in 0..Len(g), NEW j \in 0..i PROVE First(g, j) <= First(g, i)
    OBVIOUS
  <2>1. 1..j \subseteq 1..i /\ 1..i \subseteq DOMAIN g /\ j \in 0..Len(g)
    BY <1>1
  <2>2. Sum(g, 1..j) <= Sum(g, 1..i)
    BY <2>1, SumSub
  <2> QED BY <1>2, <2>1, <2>2
<1>7. \A i \in 1..Len(g) : First(g, i) = First(g, i - 1) + g[i].count
  <2> SUFFICES ASSUME NEW i \in 1..Len(g) PROVE First(g, i) = First(g, i - 1) + g[i].count
    OBVIOUS
  <2> DEFINE A == 1..(i - 1)
  <2>1. /\ 1..i = A \cup {i} /\ A \cap {i} = {} /\ A \subseteq DOMAIN g /\ {i} \subseteq DOMAIN g
        /\ i \in 0..Len(g) /\ i - 1 \in 0..Len(g)
    BY <1>1
  <2> HIDE DEF A
  <2>2. Sum(g, A \cup {i}) = Sum(g, A) + Sum(g, {i})
    BY <2>1, SumSplit
  <2>3. Sum(g, {i}) = g[i].count
    <3>1. Counts(g)[i] = g[i].count /\ Counts(g)[i] \in Nat
      BY <2>1, SumType
    <3> QED BY <3>1, TotalOne DEF Sum
  <2> QED BY <1>2, <2>1, <2>2, <2>3 DEF A
<1> QED BY <1>3, <1>4, <1>5, <1>6, <1>7

(* What stays and what leaves. *)
LEMMA LateOrGone ==
  ASSUME NEW g \in Seq(Grants), NEW d \in Nat
  PROVE  /\ Late(g, d) = Sum(g, Staying(g, d)) /\ Units(g) = Sum(g, DOMAIN g)
         /\ Late(g, d) \in Nat /\ Units(g) \in Nat /\ Late(g, d) <= Units(g)
         /\ SumOver(Counts(g), {i \in DOMAIN g : g[i].at + W <= d}) = Units(g) - Late(g, d)
<1> DEFINE S == Staying(g, d)
           R == {i \in DOMAIN g : g[i].at + W <= d}
<1>1. Late(g, d) = Sum(g, S) /\ Units(g) = Sum(g, DOMAIN g) /\ SumOver(Counts(g), R) = Sum(g, R)
  BY SumIs DEF Late, Units, Sum
<1>2. /\ S \subseteq DOMAIN g /\ R \subseteq DOMAIN g
  BY DEF Staying
<1>3. \A i \in DOMAIN g : (g[i].at + W > d) <=> ~(g[i].at + W <= d)
  <2> SUFFICES ASSUME NEW i \in DOMAIN g PROVE (g[i].at + W > d) <=> ~(g[i].at + W <= d)
    OBVIOUS
  <2>1. g[i].at \in Nat
    BY SumType
  <2> QED BY <2>1, Constant
<1>4. S \cup R = DOMAIN g /\ S \cap R = {}
  BY <1>3, Zenon DEF Staying
<1> HIDE DEF S, R
<1>5. /\ Sum(g, S) \in Nat /\ Sum(g, R) \in Nat /\ Sum(g, DOMAIN g) \in Nat
      /\ Sum(g, DOMAIN g) = Sum(g, S) + Sum(g, R)
  <2>1. Sum(g, S \cup R) = Sum(g, S) + Sum(g, R)
    BY <1>2, <1>4, SumSplit
  <2>2. Sum(g, S) \in Nat /\ Sum(g, R) \in Nat /\ Sum(g, DOMAIN g) \in Nat
    BY <1>2, SumType
  <2> QED BY <1>4, <2>1, <2>2
<1>6. Units(g) - Late(g, d) = Sum(g, R) /\ Late(g, d) <= Units(g)
  BY <1>1, <1>5
<1> QED BY <1>1, <1>5, <1>6 DEF S, R

(* Sums over what is left when the first k grants are gone. *)
LEMMA CutSum ==
  ASSUME NEW h \in Seq(Grants), NEW k \in Nat, NEW f, NEW S, S \subseteq DOMAIN h,
         \A i \in DOMAIN h : f[i + k] = h[i].count
  PROVE  Sum(h, S) = Total(f, Shift(S, k))
<1>1. S \subseteq Nat /\ IsFiniteSet(S)
  BY SumType
<1>2. \A i \in S : Counts(h)[i] \in Nat /\ f[i + k] = Counts(h)[i]
  BY SumType
<1> DEFINE c == Counts(h)
<1>3. \A i \in S : c[i] \in Nat /\ f[i + k] = c[i]
  BY <1>2
<1> HIDE DEF c
<1>4. Total(c, S) = Total(f, Shift(S, k))
  BY <1>1, <1>3, TotalShift, ZenonT(60)
<1> QED BY <1>4 DEF Sum, c

-----------------------------------------------------------------------------
(* prune. *)

GoodLog(g) == g \in Seq(Grants) /\ Sorted(g) /\ Past(g)

(* h is g without its first k grants. *)
Cut(g, h, k) ==
  /\ k \in 0..Len(g) /\ Len(h) = Len(g) - k
  /\ \A i \in 1..Len(h) : h[i] = g[i + k]

LEMMA CutIs ==
  ASSUME NEW g, GoodLog(g), NEW h \in Seq(Grants), NEW k, Cut(g, h, k)
  PROVE  /\ g \in Seq(Grants) /\ Len(g) \in Nat /\ Len(h) \in Nat /\ k \in Nat /\ k <= Len(g)
         /\ DOMAIN g = 1..Len(g) /\ DOMAIN h = 1..Len(h) /\ Len(h) = Len(g) - k
         /\ \A i \in DOMAIN h : h[i] = g[i + k] /\ i + k \in DOMAIN g
<1>1. g \in Seq(Grants) /\ k \in 0..Len(g) /\ Len(h) = Len(g) - k
  BY DEF GoodLog, Cut
<1>2. /\ Len(g) \in Nat /\ Len(h) \in Nat /\ k \in Nat /\ k <= Len(g)
      /\ DOMAIN g = 1..Len(g) /\ DOMAIN h = 1..Len(h)
  BY <1>1
<1>3. \A i \in 1..Len(h) : h[i] = g[i + k]
  BY DEF Cut
<1>4. \A i \in 1..Len(h) : i + k \in 1..Len(g)
  BY <1>1, <1>2
<1> QED BY <1>1, <1>2, <1>3, <1>4

LEMMA CutGood ==
  ASSUME NEW g, GoodLog(g), NEW h \in Seq(Grants), NEW k, Cut(g, h, k)
  PROVE  GoodLog(h) /\ Units(h) \in Nat /\ First(g, k) \in Nat /\ Units(g) = First(g, k) + Units(h)
<1>1. /\ g \in Seq(Grants) /\ Len(g) \in Nat /\ Len(h) \in Nat /\ k \in Nat /\ k <= Len(g)
      /\ DOMAIN g = 1..Len(g) /\ DOMAIN h = 1..Len(h) /\ Len(h) = Len(g) - k
      /\ \A i \in DOMAIN h : h[i] = g[i + k] /\ i + k \in DOMAIN g
  BY CutIs
<1>2. GoodLog(h)
  <2>1. Past(h)
    BY <1>1 DEF GoodLog, Past
  <2>2. Sorted(h)
    <3> SUFFICES ASSUME NEW i \in DOMAIN h, NEW j \in DOMAIN h, i <= j
                 PROVE  h[i].at <= h[j].at
      BY DEF Sorted
    <3>1. i + k <= j + k /\ i + k \in DOMAIN g /\ j + k \in DOMAIN g
      BY <1>1
    <3> QED BY <1>1, <3>1 DEF GoodLog, Sorted
  <2> QED BY <2>1, <2>2 DEF GoodLog
<1>3. Units(h) = Sum(g, (k + 1)..Len(g))
  <2>1. Units(h) = Sum(h, DOMAIN h)
    BY SumIs DEF Units, Sum
  <2>2. \A i \in DOMAIN h : Counts(g)[i + k] = h[i].count
    BY <1>1 DEF Counts
  <2>3. Shift(DOMAIN h, k) = (k + 1)..Len(g)
    <3>1. ASSUME NEW j \in (k + 1)..Len(g) PROVE j - k \in 1..Len(h) /\ j = (j - k) + k
      BY <1>1
    <3>2. ASSUME NEW i \in 1..Len(h) PROVE i + k \in (k + 1)..Len(g)
      BY <1>1
    <3>3. DOMAIN h = 1..Len(h)
      BY <1>1
    <3> QED BY <3>1, <3>2, <3>3 DEF Shift
  <2>4. Sum(h, DOMAIN h) = Total(Counts(g), Shift(DOMAIN h, k))
    <3> DEFINE c == Counts(g)
               S == DOMAIN h
    <3>1. k \in Nat /\ S \subseteq DOMAIN h /\ \A i \in DOMAIN h : c[i + k] = h[i].count
      BY <1>1, <2>2
    <3> HIDE DEF c, S
    <3>2. Sum(h, S) = Total(c, Shift(S, k))
      BY <3>1, CutSum
    <3> QED BY <3>2 DEF c, S
  <2> QED BY <2>1, <2>3, <2>4 DEF Sum
<1>4. Units(g) = Sum(g, DOMAIN g) /\ First(g, k) = Sum(g, 1..k)
  BY SumIs DEF Units, First, Sum
<1>5. /\ 1..k \subseteq DOMAIN g /\ (k + 1)..Len(g) \subseteq DOMAIN g
      /\ (1..k) \cap ((k + 1)..Len(g)) = {} /\ DOMAIN g = (1..k) \cup ((k + 1)..Len(g))
  BY <1>1
<1>6. /\ Sum(g, DOMAIN g) = Sum(g, 1..k) + Sum(g, (k + 1)..Len(g))
      /\ Sum(g, 1..k) \in Nat /\ Sum(g, (k + 1)..Len(g)) \in Nat
  <2> DEFINE A == 1..k
             B == (k + 1)..Len(g)
  <2> HIDE DEF A, B
  <2>1. A \subseteq DOMAIN g /\ B \subseteq DOMAIN g /\ A \cap B = {} /\ DOMAIN g = A \cup B
    BY <1>5 DEF A, B
  <2>2. Sum(g, A \cup B) = Sum(g, A) + Sum(g, B) /\ Sum(g, A) \in Nat /\ Sum(g, B) \in Nat
    BY <1>1, <2>1, SumSplit
  <2> QED BY <2>1, <2>2 DEF A, B
<1> QED BY <1>2, <1>3, <1>4, <1>6

(* Grants that leave before d do not count for d. *)
LEMMA CutLate ==
  ASSUME NEW g, GoodLog(g), NEW h \in Seq(Grants), NEW k, Cut(g, h, k),
         NEW d \in Nat, \A i \in 1..k : g[i].at + W <= d
  PROVE  Late(h, d) = Late(g, d)
<1>1. /\ g \in Seq(Grants) /\ Len(g) \in Nat /\ Len(h) \in Nat /\ k \in Nat /\ k <= Len(g)
      /\ DOMAIN g = 1..Len(g) /\ DOMAIN h = 1..Len(h) /\ Len(h) = Len(g) - k
      /\ \A i \in DOMAIN h : h[i] = g[i + k] /\ i + k \in DOMAIN g
  BY CutIs
<1>2. \A i \in DOMAIN h : Counts(g)[i + k] = h[i].count
  BY <1>1 DEF Counts
<1>3. Sum(h, Staying(h, d)) = Total(Counts(g), Shift(Staying(h, d), k))
  <2>1. Staying(h, d) \subseteq DOMAIN h
    BY DEF Staying
  <2> DEFINE c == Counts(g)
             S == Staying(h, d)
  <2>2. k \in Nat /\ S \subseteq DOMAIN h /\ \A i \in DOMAIN h : c[i + k] = h[i].count
    BY <1>1, <1>2, <2>1
  <2> HIDE DEF c, S
  <2>3. Sum(h, S) = Total(c, Shift(S, k))
    BY <2>2, CutSum
  <2> QED BY <2>3 DEF c, S
<1>4. Shift(Staying(h, d), k) = Staying(g, d)
  <2>1. ASSUME NEW i \in Staying(h, d) PROVE i + k \in Staying(g, d)
    BY <1>1 DEF Staying
  <2>2. ASSUME NEW j \in Staying(g, d) PROVE j - k \in Staying(h, d) /\ j = (j - k) + k
    <3>1. j \in 1..Len(g) /\ g[j].at \in Nat /\ g[j].at + W > d
      BY <1>1, SumType DEF Staying
    <3>2. ~(j \in 1..k)
      <4>1. ~(g[j].at + W <= d)
        BY <3>1, Constant
      <4> QED BY <4>1
    <3>3. j - k \in DOMAIN h /\ j = (j - k) + k
      BY <1>1, <3>1, <3>2
    <3>4. h[j - k] = g[j]
      BY <1>1, <3>3
    <3> QED BY <3>1, <3>3, <3>4 DEF Staying
  <2> QED BY <2>1, <2>2 DEF Shift
<1>5. Late(h, d) = Sum(h, Staying(h, d)) /\ Late(g, d) = Sum(g, Staying(g, d))
  BY <1>1, LateOrGone
<1> QED BY <1>3, <1>4, <1>5 DEF Sum

(* What prune leaves in the log, and of the cached sum. *)
LEMMA PruneLog ==
  ASSUME GoodLog(log), UsedExact, NEW at \in Nat
  PROVE  /\ Cut(log, Pruned(at), Expired(at)) /\ GoodLog(Pruned(at))
         /\ UsedAfterPrune(at) = Units(Pruned(at)) /\ Units(Pruned(at)) \in Nat
         /\ \A d \in Nat : d >= at => Late(Pruned(at), d) = Late(log, d)
         /\ \A i \in DOMAIN Pruned(at) : Pruned(at)[i].at + W > at
<1> DEFINE n == Len(log)
           D == {i \in DOMAIN log : \A j \in 1..i : log[j].at + W <= at}
           e == Expired(at)
           h == Pruned(at)
<1>1. /\ log \in Seq(Grants) /\ n \in Nat /\ DOMAIN log = 1..n
      /\ \A i \in 1..n : log[i] \in Grants /\ log[i].at \in Nat
  BY SumType DEF GoodLog
<1>2. e \in 0..n /\ D = 1..e
  <2>1. D \subseteq 1..n /\ \A i \in D : \A j \in 1..i : j \in D
    <3>1. D \subseteq 1..n
      BY <1>1
    <3>2. ASSUME NEW i \in D, NEW j \in 1..i PROVE j \in D
      <4>1. i \in 1..n /\ j \in DOMAIN log
        BY <1>1
      <4>2. \A m \in 1..j : m \in 1..i
        BY <4>1
      <4> QED BY <4>1, <4>2
    <3> QED BY <3>1, <3>2
  <2>2. e = Cardinality(D)
    BY DEF Expired
  <2> HIDE DEF D, e, n
  <2>3. Cardinality(D) \in 0..n /\ D = 1..Cardinality(D)
    BY <1>1, <2>1, Prefix
  <2> QED BY <2>2, <2>3
<1>3. \A i \in 1..e : log[i].at + W <= at
  <2> SUFFICES ASSUME NEW i \in 1..e PROVE log[i].at + W <= at
    OBVIOUS
  <2>1. i \in D /\ i \in 1..i
    BY <1>2
  <2> QED BY <2>1
<1>4. e < n => log[e + 1].at + W > at
  <2> SUFFICES ASSUME e < n, ~(log[e + 1].at + W > at) PROVE FALSE
    OBVIOUS
  <2>1. e + 1 \in 1..n /\ e \in Nat
    BY <1>1, <1>2
  <2>2. log[e + 1].at + W <= at
    BY <1>1, <2>1, Constant
  <2>3. \A j \in 1..(e + 1) : log[j].at + W <= at
    <3> SUFFICES ASSUME NEW j \in 1..(e + 1) PROVE log[j].at + W <= at
      OBVIOUS
    <3>1. j \in 1..e \/ j = e + 1
      BY <2>1
    <3> QED BY <1>3, <2>2, <3>1
  <2>4. e + 1 \in D
    BY <1>1, <2>1, <2>3
  <2> QED BY <1>2, <2>1, <2>4
<1> HIDE DEF D
<1>5. h \in Seq(Grants) /\ Cut(log, h, e)
  <2>1. h = SubSeq(log, e + 1, n)
    BY DEF Pruned
  <2> HIDE DEF h, e
  <2>2. /\ e + 1 \in 1..(n + 1) /\ n \in (e)..n /\ e \in Nat
    BY <1>1, <1>2
  <2>3. /\ Len(h) = n - e /\ h \in Seq(Grants)
        /\ \A i \in 1..(n - e) : h[i] = log[e + i]
    <3> HIDE DEF n
    <3>1. SubSeq(log, e + 1, n) = [i \in 1..(n - e) |-> log[e + i]]
      BY <1>1, <2>2 DEF n
    <3>2. \A i \in 1..(n - e) : log[e + i] \in Grants
      BY <1>1, <2>2
    <3>3. n - e \in Nat
      BY <1>1, <1>2
    <3>4. h = [i \in 1..(n - e) |-> log[e + i]]
      BY <2>1, <3>1
    <3>5. h \in [1..(n - e) -> Grants]
      BY <3>2, <3>4
    <3>6. h \in Seq(Grants) /\ Len(h) = n - e
      BY <3>3, <3>5
    <3>7. \A i \in 1..(n - e) : h[i] = log[e + i]
      BY <3>4
    <3> QED BY <3>6, <3>7
  <2> QED BY <1>1, <1>2, <2>2, <2>3 DEF Cut
<1> HIDE DEF h, e, n
<1>6. GoodLog(h) /\ Units(h) \in Nat /\ First(log, e) \in Nat /\ Units(log) = First(log, e) + Units(h)
  BY <1>5, CutGood
<1>7. UsedAfterPrune(at) = Units(h)
  <2>1. UsedAfterPrune(at) = SatSub(Units(log), First(log, e))
    BY DEF UsedAfterPrune, UsedExact, e
  <2> QED BY <1>6, <2>1 DEF SatSub
<1>8. ASSUME NEW d \in Nat, d >= at PROVE Late(h, d) = Late(log, d)
  <2>1. \A i \in 1..e : log[i].at + W <= d
    <3> SUFFICES ASSUME NEW i \in 1..e PROVE log[i].at + W <= d
      OBVIOUS
    <3>1. i \in 1..n
      BY <1>1, <1>2
    <3>2. log[i].at \in Nat /\ log[i].at + W <= at
      BY <1>1, <1>3, <3>1
    <3> QED BY <1>8, <3>2, Constant
  <2> QED BY <1>5, <2>1, CutLate
<1>9. ASSUME NEW i \in DOMAIN h PROVE h[i].at + W > at
  <2>1. /\ i \in 1..Len(h) /\ 1 \in DOMAIN h /\ Len(h) = n - e /\ h[1] = log[1 + e]
        /\ DOMAIN h = 1..Len(h)
    BY <1>1, <1>2, <1>5 DEF Cut, n
  <2>2. h[1].at <= h[i].at /\ h[i].at \in Nat /\ h[1].at \in Nat
    <3>1. 1 <= i
      BY <2>1
    <3>2. h[1].at <= h[i].at
      BY <1>6, <2>1, <3>1 DEF GoodLog, Sorted
    <3> QED BY <1>5, <2>1, <3>2, SumType
  <2>3. e < n /\ 1 + e = e + 1
    BY <1>1, <1>2, <2>1
  <2>4. h[1].at + W > at
    BY <1>4, <2>1, <2>3
  <2> QED BY <2>2, <2>4, Constant
<1> QED BY <1>5, <1>6, <1>7, <1>8, <1>9 DEF h, e

-----------------------------------------------------------------------------
(* push_back. *)

LEMMA PushLog ==
  ASSUME NEW g, GoodLog(g), NEW r \in Grants, r.at <= now,
         \A i \in DOMAIN g : g[i].at <= r.at
  PROVE  /\ GoodLog(Append(g, r))
         /\ Units(Append(g, r)) = Units(g) + r.count
         /\ \A d \in Nat : Late(Append(g, r), d) = Late(g, d) + IF r.at + W > d THEN r.count ELSE 0
<1> DEFINE n == Len(g)
           h == Append(g, r)
<1>1. /\ g \in Seq(Grants) /\ n \in Nat /\ DOMAIN g = 1..n /\ r.at \in Nat /\ r.count \in Nat
      /\ h \in Seq(Grants) /\ Len(h) = n + 1 /\ DOMAIN h = 1..(n + 1)
      /\ h[n + 1] = r /\ \A i \in 1..n : h[i] = g[i]
  BY DEF GoodLog, Grants
<1> HIDE DEF h, n
<1>2. /\ DOMAIN h = (DOMAIN g) \cup {n + 1} /\ n + 1 \notin DOMAIN g
      /\ \A i \in DOMAIN g : h[i] = g[i]
  BY <1>1
<1>3. GoodLog(h)
  <2>1. \A i \in DOMAIN g : g[i].at <= now
    BY DEF GoodLog, Past
  <2>2. Past(h)
    BY <1>1, <1>2, <2>1 DEF Past
  <2>3. ASSUME NEW i \in DOMAIN h, NEW j \in DOMAIN h, i <= j PROVE h[i].at <= h[j].at
    <3>1. CASE j = n + 1 /\ i = n + 1
      BY <1>1, <3>1
    <3>2. CASE j = n + 1 /\ i \in DOMAIN g
      BY <1>1, <1>2, <3>2
    <3>3. CASE i \in DOMAIN g /\ j \in DOMAIN g
      BY <1>2, <2>3, <3>3 DEF GoodLog, Sorted
    <3>4. CASE i = n + 1 /\ j \in DOMAIN g
      BY <1>1, <2>3, <3>4
    <3> QED BY <1>2, <3>1, <3>2, <3>3, <3>4
  <2>4. Sorted(h)
    BY <2>3 DEF Sorted
  <2> QED BY <1>1, <2>2, <2>4 DEF GoodLog
<1>4. /\ Counts(h)[n + 1] = r.count /\ Counts(h)[n + 1] \in Nat
      /\ \A i \in DOMAIN g : Counts(h)[i] = Counts(g)[i]
  BY <1>1, <1>2 DEF Counts
<1>5. Sum(h, {n + 1}) = r.count
  BY <1>4, TotalOne DEF Sum
<1>6. ASSUME NEW S, S \subseteq DOMAIN g
      PROVE  /\ Sum(h, S) = Sum(g, S) /\ Sum(g, S) \in Nat
             /\ Sum(h, S \cup {n + 1}) = Sum(g, S) + r.count
  <2> DEFINE T == {n + 1}
  <2>1. Sum(h, S) = Sum(g, S)
    <3>1. \A i \in S : Counts(h)[i] = Counts(g)[i]
      BY <1>4, <1>6
    <3> QED BY <3>1, TotalSame DEF Sum
  <2>2. S \cap T = {} /\ S \subseteq DOMAIN h /\ T \subseteq DOMAIN h
    BY <1>2, <1>6
  <2>3. Sum(h, T) = r.count
    BY <1>5
  <2> HIDE DEF T
  <2>4. Sum(h, S \cup T) = Sum(h, S) + Sum(h, T)
    BY <1>1, <2>2, SumSplit
  <2>5. Sum(g, S) \in Nat
    BY <1>1, <1>6, SumType
  <2> QED BY <2>1, <2>3, <2>4, <2>5 DEF T
<1>7. Units(h) = Units(g) + r.count
  <2>1. Units(h) = Sum(h, DOMAIN h) /\ Units(g) = Sum(g, DOMAIN g)
    BY SumIs DEF Units, Sum
  <2>2. Sum(h, (DOMAIN g) \cup {n + 1}) = Sum(g, DOMAIN g) + r.count
    BY <1>6
  <2> QED BY <1>2, <2>1, <2>2
<1>8. ASSUME NEW d \in Nat
      PROVE  Late(h, d) = Late(g, d) + IF r.at + W > d THEN r.count ELSE 0
  <2> DEFINE S == Staying(g, d)
  <2>1. Late(h, d) = Sum(h, Staying(h, d)) /\ Late(g, d) = Sum(g, S) /\ S \subseteq DOMAIN g
    BY <1>1, LateOrGone DEF Staying
  <2>2. CASE r.at + W > d
    <3>1. Staying(h, d) = S \cup {n + 1}
      BY <1>1, <1>2, <2>2 DEF Staying
    <3> HIDE DEF S
    <3>2. Sum(h, S \cup {n + 1}) = Sum(g, S) + r.count
      BY <1>6, <2>1
    <3> QED BY <2>1, <2>2, <3>1, <3>2
  <2>3. CASE ~(r.at + W > d)
    <3>1. Staying(h, d) = S
      BY <1>1, <1>2, <2>3 DEF Staying
    <3> HIDE DEF S
    <3>2. Sum(h, S) = Sum(g, S) /\ Sum(g, S) \in Nat
      BY <1>6, <2>1
    <3> QED BY <2>1, <2>3, <3>1, <3>2
  <2> QED BY <2>2, <2>3
<1> QED BY <1>3, <1>7, <1>8 DEF h

(* The stamp is at most the clock, and at least the last one. *)
LEMMA StampIs ==
  ASSUME NEW g, GoodLog(g), NEW at \in Nat, at <= now, now \in Nat
  PROVE  /\ Stamp(g, at) \in Nat /\ at <= Stamp(g, at) /\ Stamp(g, at) <= now
         /\ \A i \in DOMAIN g : g[i].at <= Stamp(g, at)
<1>1. CASE g = <<>>
  <2>1. DOMAIN g = {} /\ Stamp(g, at) = at
    BY <1>1 DEF Stamp
  <2> QED BY <2>1
<1>2. CASE g # <<>>
  <2> DEFINE n == Len(g)
             last == g[n].at
  <2>1. g \in Seq(Grants) /\ n \in Nat /\ DOMAIN g = 1..n /\ n \in DOMAIN g
    <3>1. g \in Seq(Grants)
      BY DEF GoodLog
    <3> QED BY <1>2, <3>1
  <2>2. /\ last \in Nat /\ \A i \in DOMAIN g : g[i].at \in Nat
    BY <2>1, SumType
  <2>3. last <= now /\ \A i \in DOMAIN g : i <= n => g[i].at <= last
    BY <2>1 DEF GoodLog, Past, Sorted
  <2>4. \A i \in DOMAIN g : g[i].at <= last
    BY <2>1, <2>3
  <2>5. Stamp(g, at) = IF last < at THEN at ELSE last
    BY <1>2 DEF Stamp
  <2> HIDE DEF last
  <2>6. /\ Stamp(g, at) \in Nat /\ at <= Stamp(g, at) /\ Stamp(g, at) <= now
        /\ last <= Stamp(g, at)
    BY <2>2, <2>3, <2>5
  <2>7. ASSUME NEW i \in DOMAIN g PROVE g[i].at <= Stamp(g, at)
    <3>1. g[i].at \in Nat /\ g[i].at <= last
      BY <2>2, <2>4
    <3> QED BY <2>2, <2>6, <3>1
  <2> QED BY <2>6, <2>7
<1> QED BY <1>1, <1>2

-----------------------------------------------------------------------------
(* refund. *)

(* The grants that n units empty, and what is left of the log. *)
Emptied(g, n) == Cardinality({i \in DOMAIN g : First(g, i) <= n})
Drained(g, n) ==
  [i \in 1..(Len(g) - Emptied(g, n)) |->
     IF i = 1 THEN [g[Emptied(g, n) + 1] EXCEPT !.count = @ - (n - First(g, Emptied(g, n)))]
              ELSE g[Emptied(g, n) + i]]

LEMMA EmptiedIs ==
  ASSUME NEW g \in Seq(Grants), NEW n \in Nat
  PROVE  /\ Emptied(g, n) \in 0..Len(g)
         /\ First(g, Emptied(g, n)) \in Nat /\ First(g, Emptied(g, n)) <= n
         /\ Emptied(g, n) = Len(g) => Units(g) <= n
         /\ Emptied(g, n) < Len(g) =>
              n - First(g, Emptied(g, n)) < g[Emptied(g, n) + 1].count
<1> DEFINE D == {i \in DOMAIN g : First(g, i) <= n}
           k == Emptied(g, n)
<1>1. Len(g) \in Nat /\ DOMAIN g = 1..Len(g)
  OBVIOUS
<1>2. \A i \in 0..Len(g) : First(g, i) \in Nat
  BY FirstGrows
<1>3. k \in 0..Len(g) /\ D = 1..k
  <2>1. D \subseteq 1..Len(g)
    BY <1>1
  <2>2. ASSUME NEW i \in D, NEW j \in 1..i PROVE j \in D
    <3>1. i \in 0..Len(g) /\ j \in 0..i /\ j \in DOMAIN g /\ j \in 0..Len(g)
      BY <1>1
    <3>2. First(g, j) <= First(g, i) /\ First(g, i) <= n
      BY <3>1, FirstGrows
    <3>3. First(g, i) \in Nat /\ First(g, j) \in Nat
      BY <1>2, <3>1
    <3>4. First(g, j) <= n
      BY <3>2, <3>3
    <3> QED BY <3>1, <3>4
  <2>3. k = Cardinality(D)
    BY DEF Emptied
  <2> HIDE DEF D, k
  <2>4. Cardinality(D) \in 0..Len(g) /\ D = 1..Cardinality(D)
    BY <1>1, <2>1, <2>2, Prefix
  <2> QED BY <2>3, <2>4
<1>4. First(g, k) \in Nat /\ First(g, k) <= n
  <2>1. CASE k = 0
    BY <2>1, FirstGrows
  <2>2. CASE k # 0
    <3>1. k \in D
      BY <1>1, <1>3, <2>2
    <3> QED BY <1>2, <1>3, <3>1
  <2> QED BY <2>1, <2>2
<1>5. k = Len(g) => Units(g) <= n
  BY <1>4, FirstGrows
<1>6. ASSUME k < Len(g) PROVE n - First(g, k) < g[k + 1].count
  <2>1. k + 1 \in DOMAIN g /\ k + 1 \in 1..Len(g) /\ k + 1 \notin D /\ (k + 1) - 1 = k
    BY <1>1, <1>3, <1>6
  <2>2. First(g, k + 1) = First(g, (k + 1) - 1) + g[k + 1].count
    BY <2>1, FirstGrows
  <2>3. ~(First(g, k + 1) <= n)
    BY <2>1
  <2>4. g[k + 1].count \in Nat
    BY <2>1, SumType
  <2> HIDE DEF k
  <2> QED BY <1>4, <2>1, <2>2, <2>3, <2>4
<1> QED BY <1>3, <1>4, <1>5, <1>6

LEMMA DrainLog ==
  ASSUME NEW g, GoodLog(g), NEW n \in Nat
  PROVE  /\ GoodLog(Drained(g, n))
         /\ Units(Drained(g, n)) = SatSub(Units(g), n)
         /\ \A d \in Nat : \/ Late(Drained(g, n), d) >= Late(g, d)
                           \/ Late(Drained(g, n), d) >= Units(g) - n
<1> DEFINE k == Emptied(g, n)
           rest == n - First(g, k)
           h == Drained(g, n)
           l == Len(g)
           f == [i \in DOMAIN g |-> IF i = k + 1 THEN g[i].count - rest ELSE g[i].count]
<1>1. g \in Seq(Grants) /\ l \in Nat /\ DOMAIN g = 1..l
  BY DEF GoodLog
<1>2. /\ k \in 0..l /\ First(g, k) \in Nat /\ First(g, k) <= n
      /\ k = l => Units(g) <= n
      /\ k < l => rest < g[k + 1].count
  BY <1>1, EmptiedIs
<1>3. /\ k \in Nat /\ k <= l /\ rest \in Nat /\ Units(g) \in Nat
      /\ \A i \in DOMAIN g : g[i] \in Grants /\ g[i].at \in Nat /\ g[i].count \in Nat
  <2>1. \A i \in DOMAIN g : g[i] \in Grants /\ g[i].at \in Nat /\ g[i].count \in Nat
    BY <1>1, SumType
  <2>2. Units(g) \in Nat
    BY <1>1, LateOrGone
  <2> HIDE DEF k, l
  <2>3. k \in Nat /\ k <= l
    BY <1>1, <1>2
  <2>4. rest \in Nat
    BY <1>2
  <2> QED BY <2>1, <2>2, <2>3, <2>4
<1>4. h = [i \in 1..(l - k) |-> IF i = 1 THEN [g[k + 1] EXCEPT !.count = @ - rest] ELSE g[k + i]]
  BY DEF Drained
<1> HIDE DEF k, rest, h, l
<1>5. CASE k = l
  <2>1. h = <<>>
    <3>1. 1..(l - k) = {}
      BY <1>1, <1>5
    <3> QED BY <1>4, <3>1
  <2>2. Units(h) = 0
    <3>1. Units(h) = Total(Counts(h), DOMAIN h) /\ DOMAIN h = {}
      BY <2>1, SumIs DEF Units
    <3>2. Total(Counts(h), {}) = 0
      BY TotalZero
    <3> QED BY <3>1, <3>2
  <2>3. GoodLog(h)
    BY <2>1 DEF GoodLog, Sorted, Past
  <2>4. SatSub(Units(g), n) = 0 /\ Units(g) - n <= 0 /\ Units(g) - n \in Int
    BY <1>2, <1>3, <1>5 DEF SatSub
  <2>5. ASSUME NEW d \in Nat PROVE Late(h, d) >= Units(g) - n
    <3>1. Late(h, d) \in Nat
      BY <2>3, LateOrGone DEF GoodLog
    <3> QED BY <2>4, <3>1
  <2> QED BY <2>2, <2>3, <2>4, <2>5 DEF h
<1>6. CASE k # l
  <2>1. /\ k < l /\ rest < g[k + 1].count /\ k + 1 \in DOMAIN g /\ l - k \in Nat
        /\ 1 \in 1..(l - k)
    BY <1>1, <1>2, <1>3, <1>6
  <2>2. /\ h[1].at = g[k + 1].at /\ h[1].count = g[k + 1].count - rest /\ h[1] \in Grants
    <3>1. h[1] = [g[k + 1] EXCEPT !.count = @ - rest]
      BY <1>4, <2>1
    <3>2. g[k + 1].count - rest \in Nat \ {0}
      BY <1>3, <2>1
    <3>3. g[k + 1] \in Grants
      BY <1>3, <2>1
    <3> QED BY <3>1, <3>2, <3>3 DEF Grants
  <2>3. \A i \in 1..(l - k) : i # 1 => h[i] = g[i + k]
    <3>1. \A i \in 1..(l - k) : k + i = i + k
      BY <1>3
    <3> QED BY <1>4, <3>1
  <2>4. \A i \in 1..(l - k) : i + k \in DOMAIN g /\ (i = 1 <=> i + k = k + 1)
    BY <1>1, <1>3
  <2>5. \A i \in 1..(l - k) : h[i] \in Grants /\ h[i].at = g[i + k].at
    BY <1>3, <2>2, <2>3, <2>4
  <2>6. h \in Seq(Grants) /\ Len(h) = l - k /\ DOMAIN h = 1..(l - k)
    <3>1. h \in [1..(l - k) -> Grants]
      BY <1>4, <2>5
    <3> QED BY <2>1, <3>1
  <2>7. GoodLog(h)
    <3>1. Past(h)
      BY <2>4, <2>5, <2>6 DEF GoodLog, Past
    <3>2. ASSUME NEW i \in DOMAIN h, NEW j \in DOMAIN h, i <= j PROVE h[i].at <= h[j].at
      <4>1. i + k <= j + k /\ i + k \in DOMAIN g /\ j + k \in DOMAIN g
        BY <1>3, <2>4, <2>6, <3>2
      <4> QED BY <2>5, <2>6, <4>1 DEF GoodLog, Sorted
    <3> QED BY <2>6, <3>1, <3>2 DEF GoodLog, Sorted
  (* The counts of h are those of f, moved down by k. *)
  <2>8. /\ \A i \in DOMAIN h : f[i + k] = h[i].count
        /\ \A i \in DOMAIN g : f[i] \in Nat
        /\ f[k + 1] = g[k + 1].count - rest
        /\ \A i \in DOMAIN g : i # k + 1 => f[i] = Counts(g)[i]
    <3>1. \A i \in DOMAIN h : f[i + k] = h[i].count
      BY <2>2, <2>3, <2>4, <2>6
    <3>2. f[k + 1] = g[k + 1].count - rest /\ f[k + 1] \in Nat
      BY <1>3, <2>1
    <3>3. \A i \in DOMAIN g : i # k + 1 => f[i] = g[i].count /\ Counts(g)[i] = g[i].count
      BY DEF Counts
    <3> QED BY <1>3, <3>1, <3>2, <3>3
  <2> HIDE DEF f
  <2>9. ASSUME NEW S, S \subseteq DOMAIN h PROVE Sum(h, S) = Total(f, Shift(S, k))
    BY <1>3, <2>6, <2>8, <2>9, CutSum
  <2> DEFINE B == (k + 2)..l
  <2>10. /\ B \subseteq DOMAIN g /\ IsFiniteSet(B)
         /\ (k + 1)..l = {k + 1} \cup B /\ {k + 1} \cap B = {} /\ k + 1 \notin B
    <3>1. IsFiniteSet(B)
      BY <1>1, <1>3, FS_Interval
    <3> QED BY <1>1, <1>3, <2>1, <3>1
  <2> HIDE DEF B
  <2>11. ASSUME NEW S, S \subseteq B PROVE Total(f, S) = Sum(g, S) /\ Sum(g, S) \in Nat
    <3>1. \A i \in S : f[i] = Counts(g)[i]
      BY <2>8, <2>10, <2>11
    <3>2. Total(f, S) = Sum(g, S)
      BY <3>1, TotalSame DEF Sum
    <3>3. S \subseteq DOMAIN g
      BY <2>10, <2>11
    <3> QED BY <1>1, <3>2, <3>3, SumType
  (* The sum is less by n. *)
  <2>12. Units(h) = Units(g) - n
    <3>1. Units(h) = Sum(h, DOMAIN h)
      BY SumIs DEF Units, Sum
    <3>2. Shift(DOMAIN h, k) = (k + 1)..l
      <4>1. ASSUME NEW j \in (k + 1)..l PROVE j - k \in 1..(l - k) /\ j = (j - k) + k
        BY <1>1, <1>3
      <4>2. ASSUME NEW i \in 1..(l - k) PROVE i + k \in (k + 1)..l
        BY <1>1, <1>3
      <4> QED BY <2>6, <4>1, <4>2 DEF Shift
    <3>3. Units(h) = Total(f, {k + 1} \cup B)
      BY <2>9, <2>10, <3>1, <3>2
    <3>4. Total(f, {k + 1} \cup B) = Total(f, {k + 1}) + Total(f, B)
      <4> DEFINE A == {k + 1}
      <4>1. IsFiniteSet(A) /\ A \cap B = {} /\ \A i \in A \cup B : f[i] \in Nat
        BY <2>1, <2>8, <2>10, FS_Singleton
      <4> HIDE DEF A
      <4>2. Total(f, A \cup B) = Total(f, A) + Total(f, B)
        BY <2>10, <4>1, TotalUnion
      <4> QED BY <4>2 DEF A
    <3>5. Total(f, {k + 1}) = g[k + 1].count - rest
      BY <2>1, <2>8, TotalOne
    <3>6. Total(f, B) = Sum(g, B) /\ Sum(g, B) \in Nat
      BY <2>11
    <3>7. Units(g) = First(g, k) + g[k + 1].count + Sum(g, B)
      <4> DEFINE A == 1..(k + 1)
      <4>1. A \subseteq DOMAIN g /\ A \cap B = {} /\ A \cup B = DOMAIN g
        BY <1>1, <1>3, <2>1 DEF B
      <4>2. Units(g) = Sum(g, DOMAIN g) /\ First(g, k + 1) = Sum(g, A)
        BY SumIs DEF Units, First, Sum
      <4> HIDE DEF A
      <4>3. Sum(g, A \cup B) = Sum(g, A) + Sum(g, B)
        BY <1>1, <2>10, <4>1, SumSplit
      <4>4. First(g, k + 1) = First(g, (k + 1) - 1) + g[k + 1].count /\ (k + 1) - 1 = k
        <5>1. k + 1 \in 1..Len(g) /\ (k + 1) - 1 = k
          BY <1>1, <1>3, <2>1 DEF l
        <5> QED BY <1>1, <5>1, FirstGrows
      <4> QED BY <4>1, <4>2, <4>3, <4>4
    <3>8. g[k + 1].count \in Nat
      BY <1>3, <2>1
    <3>9. rest = n - First(g, k)
      BY DEF rest
    <3> QED BY <1>2, <1>3, <3>3, <3>4, <3>5, <3>6, <3>7, <3>8, <3>9
  <2>13. Units(h) \in Nat /\ Units(h) = SatSub(Units(g), n)
    <3>1. Units(h) \in Nat
      BY <2>6, LateOrGone
    <3> QED BY <1>3, <2>12, <3>1 DEF SatSub
  (* What is late of h. *)
  <2>14. ASSUME NEW d \in Nat
         PROVE  Late(h, d) >= Late(g, d) \/ Late(h, d) >= Units(g) - n
    <3>1. /\ Late(h, d) = Sum(h, Staying(h, d)) /\ Late(g, d) = Sum(g, Staying(g, d))
          /\ Units(h) = Sum(h, DOMAIN h) /\ Late(h, d) \in Nat
      BY <1>1, <2>6, LateOrGone
    <3>2. CASE g[k + 1].at + W > d
      <4>1. Staying(h, d) = DOMAIN h
        <5> SUFFICES ASSUME NEW i \in DOMAIN h PROVE h[i].at + W > d
          BY DEF Staying
        <5>1. i + k \in DOMAIN g /\ k + 1 <= i + k /\ h[i].at = g[i + k].at
          BY <1>3, <2>4, <2>5, <2>6
        <5>2. g[k + 1].at <= g[i + k].at
          BY <2>1, <5>1 DEF GoodLog, Sorted
        <5>3. g[k + 1].at \in Nat /\ g[i + k].at \in Nat
          BY <1>3, <2>1, <5>1
        <5> QED BY <3>2, <5>1, <5>2, <5>3, Constant
      <4>2. Late(h, d) = Units(h)
        BY <3>1, <4>1
      <4> QED BY <2>12, <2>13, <4>2
    <3>3. CASE ~(g[k + 1].at + W > d)
      <4>1. Staying(g, d) \subseteq B
        <5> SUFFICES ASSUME NEW j \in Staying(g, d) PROVE j \in B
          OBVIOUS
        <5>1. j \in DOMAIN g /\ g[j].at + W > d
          BY DEF Staying
        <5>2. ~(j <= k + 1)
          <6> SUFFICES ASSUME j <= k + 1 PROVE FALSE
            OBVIOUS
          <6>1. g[j].at <= g[k + 1].at
            BY <2>1, <5>1 DEF GoodLog, Sorted
          <6>2. g[k + 1].at \in Nat /\ g[j].at \in Nat
            BY <1>3, <2>1, <5>1
          <6> QED BY <3>3, <5>1, <6>1, <6>2, Constant
        <5> QED BY <1>1, <1>3, <5>1, <5>2 DEF B
      <4>2. Shift(Staying(h, d), k) = Staying(g, d)
        <5>1. ASSUME NEW i \in Staying(h, d) PROVE i + k \in Staying(g, d)
          BY <2>4, <2>5, <2>6 DEF Staying
        <5>2. ASSUME NEW j \in Staying(g, d) PROVE j - k \in Staying(h, d) /\ j = (j - k) + k
          <6>1. j \in DOMAIN g /\ g[j].at + W > d /\ j \in B
            BY <4>1 DEF Staying
          <6>2. j - k \in 1..(l - k) /\ j = (j - k) + k
            BY <1>1, <1>3, <6>1 DEF B
          <6>3. h[j - k].at = g[j].at
            BY <2>5, <6>2
          <6> QED BY <2>6, <6>1, <6>2, <6>3 DEF Staying
        <5> QED BY <5>1, <5>2 DEF Shift
      <4>3. Sum(h, Staying(h, d)) = Total(f, Shift(Staying(h, d), k))
        <5>1. Staying(h, d) \subseteq DOMAIN h
          BY DEF Staying
        <5> QED BY <2>9, <5>1
      <4>4. Total(f, Staying(g, d)) = Sum(g, Staying(g, d))
        BY <2>11, <4>1
      <4>5. Late(h, d) = Late(g, d)
        BY <3>1, <4>2, <4>3, <4>4
      <4> QED BY <3>1, <4>5
    <3> QED BY <3>2, <3>3
  <2> QED BY <2>7, <2>13, <2>14 DEF h
<1> QED BY <1>5, <1>6

-----------------------------------------------------------------------------
(* wait_for. *)

LEMMA TypedLog ==
  ASSUME TypeOK, Sorted(log)
  PROVE  GoodLog(log) /\ now \in Nat /\ now <= MaxNow
<1>1. now \in Nat /\ now <= MaxNow
  BY Constant DEF TypeOK
<1> DEFINE R == [at : 0..now, count : Nat \ {0}]
<1>2. log \in Seq(R)
  BY DEF TypeOK
<1>3. \A r \in R : r \in Grants /\ r.at <= now
  BY <1>1 DEF Grants
<1> HIDE DEF R
<1>4. \A i \in DOMAIN log : log[i] \in Grants /\ log[i].at <= now
  BY <1>2, <1>3
<1>5. log \in Seq(Grants)
  <2>1. Len(log) \in Nat /\ DOMAIN log = 1..Len(log) /\ log = [i \in 1..Len(log) |-> log[i]]
    BY <1>2
  <2>2. log \in [1..Len(log) -> Grants]
    BY <1>4, <2>1
  <2> QED BY <2>1, <2>2
<1> QED BY <1>1, <1>4, <1>5 DEF GoodLog, Past

(* The first grant at which the units freed are enough. *)
LEMMA EnoughIs ==
  ASSUME NEW g \in Seq(Grants), NEW needed \in Nat, needed > 0, needed <= Units(g)
  PROVE  LET enough == {i \in DOMAIN g : First(g, i) >= needed}
             last == CHOOSE i \in enough : \A j \in enough : i <= j
         IN  /\ enough # {} /\ last \in DOMAIN g
             /\ First(g, last) >= needed /\ First(g, last - 1) < needed
<1> DEFINE enough == {i \in DOMAIN g : First(g, i) >= needed}
           last == CHOOSE i \in enough : \A j \in enough : i <= j
<1>1. Len(g) \in Nat /\ DOMAIN g = 1..Len(g) /\ enough \subseteq Nat
  OBVIOUS
<1>2. /\ First(g, 0) = 0 /\ First(g, Len(g)) = Units(g)
      /\ \A i \in 0..Len(g) : First(g, i) \in Nat
  BY FirstGrows
<1>3. enough # {}
  <2>1. Len(g) # 0
    BY <1>2
  <2>2. Len(g) \in enough
    BY <1>1, <1>2, <2>1
  <2> QED BY <2>2
<1>4. last \in enough /\ \A j \in enough : last <= j
  <2> HIDE DEF enough
  <2>1. \E m \in enough : \A i \in enough : m <= i
    BY <1>1, <1>3, LeastNumber
  <2> QED BY <2>1
<1>5. last \in DOMAIN g /\ First(g, last) >= needed
  BY <1>4
<1> HIDE DEF last
<1>6. First(g, last - 1) < needed
  <2>1. last \in 1..Len(g) /\ last - 1 \in 0..Len(g) /\ First(g, last - 1) \in Nat
    BY <1>1, <1>2, <1>5
  <2>2. CASE last = 1
    BY <1>2, <2>2
  <2>3. CASE last # 1
    <3>1. last - 1 \in DOMAIN g /\ ~(last <= last - 1)
      BY <1>1, <2>1, <2>3
    <3>2. last - 1 \notin enough
      BY <1>4, <3>1
    <3>3. ~(First(g, last - 1) >= needed)
      BY <3>1, <3>2
    <3> QED BY <2>1, <3>3
  <2> QED BY <2>2, <2>3
<1> QED BY <1>3, <1>5, <1>6 DEF last

(* The moment the m-th grant leaves, what stays is less than what comes    *)
(* after it; a moment before, not less than what comes from it on.         *)
LEMMA LateAt ==
  ASSUME NEW g, GoodLog(g), NEW m \in DOMAIN g, NEW t, t = g[m].at + W
  PROVE  /\ t \in Nat /\ t > 0
         /\ Late(g, t) <= Units(g) - First(g, m)
         /\ Late(g, t - 1) >= Units(g) - First(g, m - 1)
<1> DEFINE l == Len(g)
<1>1. g \in Seq(Grants) /\ l \in Nat /\ DOMAIN g = 1..l /\ m \in 1..l
  BY DEF GoodLog
<1>2. \A i \in DOMAIN g : g[i].at \in Nat
  BY <1>1, SumType
<1>3. t \in Nat /\ t > 0 /\ t - 1 \in Nat
  BY <1>2, Constant
<1>4. ASSUME NEW k \in 0..l
      PROVE  /\ Sum(g, (k + 1)..l) = Units(g) - First(g, k)
             /\ (k + 1)..l \subseteq DOMAIN g
  <2> DEFINE A == 1..k
             B == (k + 1)..l
  <2>1. A \subseteq DOMAIN g /\ B \subseteq DOMAIN g /\ A \cap B = {} /\ A \cup B = DOMAIN g
    BY <1>1
  <2>2. Units(g) = Sum(g, DOMAIN g) /\ First(g, k) = Sum(g, A)
    BY SumIs DEF Units, First, Sum
  <2> HIDE DEF A, B
  <2>3. /\ Sum(g, A \cup B) = Sum(g, A) + Sum(g, B)
        /\ Sum(g, A) \in Nat /\ Sum(g, B) \in Nat
    BY <1>1, <2>1, SumSplit
  <2>4. Sum(g, B) = Units(g) - First(g, k)
    BY <2>1, <2>2, <2>3
  <2> QED BY <2>1, <2>4 DEF B
<1>5. Late(g, t) <= Units(g) - First(g, m)
  <2>1. Staying(g, t) \subseteq (m + 1)..l
    <3> SUFFICES ASSUME NEW i \in Staying(g, t) PROVE i \in (m + 1)..l
      OBVIOUS
    <3>1. i \in DOMAIN g /\ g[i].at + W > g[m].at + W
      BY DEF Staying
    <3>2. ~(i <= m)
      <4> SUFFICES ASSUME i <= m PROVE FALSE
        OBVIOUS
      <4>1. g[i].at <= g[m].at
        BY <3>1 DEF GoodLog, Sorted
      <4>2. g[i].at \in Nat /\ g[m].at \in Nat
        BY <1>2, <3>1
      <4> QED BY <3>1, <4>1, <4>2, Constant
    <3> QED BY <1>1, <3>1, <3>2
  <2>2. m \in 0..l
    BY <1>1
  <2>3. /\ Sum(g, (m + 1)..l) = Units(g) - First(g, m) /\ (m + 1)..l \subseteq DOMAIN g
    BY <1>4, <2>2
  <2>4. Late(g, t) = Sum(g, Staying(g, t))
    BY <1>1, <1>3, LateOrGone
  <2>5. Sum(g, Staying(g, t)) <= Sum(g, (m + 1)..l)
    BY <1>1, <2>1, <2>3, SumSub
  <2> QED BY <2>3, <2>4, <2>5
<1>6. Late(g, t - 1) >= Units(g) - First(g, m - 1)
  <2> DEFINE k == m - 1
  <2>1. k \in 0..l /\ (k + 1)..l = m..l
    BY <1>1
  <2>2. m..l \subseteq Staying(g, t - 1)
    <3> SUFFICES ASSUME NEW i \in m..l PROVE i \in Staying(g, t - 1)
      OBVIOUS
    <3>1. i \in DOMAIN g /\ m <= i
      BY <1>1
    <3>2. g[m].at <= g[i].at
      BY <3>1 DEF GoodLog, Sorted
    <3>3. g[i].at \in Nat /\ g[m].at \in Nat
      BY <1>2, <3>1
    <3>4. g[i].at + W > t - 1
      BY <3>2, <3>3, Constant
    <3> QED BY <3>1, <3>4 DEF Staying
  <2>3. Staying(g, t - 1) \subseteq DOMAIN g
    BY DEF Staying
  <2>4. Late(g, t - 1) = Sum(g, Staying(g, t - 1))
    BY <1>1, <1>3, LateOrGone
  <2>5. /\ Sum(g, m..l) <= Sum(g, Staying(g, t - 1))
        /\ Sum(g, m..l) \in Nat /\ Sum(g, Staying(g, t - 1)) \in Nat
    BY <1>1, <2>2, <2>3, SumSub
  <2>6. Sum(g, m..l) = Units(g) - First(g, k)
    BY <1>4, <2>1
  <2> QED BY <2>4, <2>5, <2>6
<1> QED BY <1>3, <1>5, <1>6

LEMMA WaitIsExact ==
  ASSUME TypeOK, UsedExact, Sorted(log)
  PROVE  WaitExact
<1> SUFFICES ASSUME NEW cost \in Costs \cap (1..Limit), ~Held(now), ~Fits(cost, now)
             PROVE  /\ After(cost, now) > 0
                    /\ used - FreedBy(now + After(cost, now)) + cost <= Limit
                    /\ ~(used - FreedBy(now + After(cost, now) - 1) + cost <= Limit)
  BY DEF WaitExact
<1> DEFINE g == Pruned(now)
           needed == UsedAfterPrune(now) + cost - Limit
           enough == {i \in DOMAIN g : First(g, i) >= needed}
           m == CHOOSE i \in enough : \A j \in enough : i <= j
           t == g[m].at + W
<1>1. GoodLog(log) /\ now \in Nat /\ log \in Seq(Grants)
  BY TypedLog DEF GoodLog
<1>2. /\ GoodLog(g) /\ UsedAfterPrune(now) = Units(g) /\ Units(g) \in Nat
      /\ \A d \in Nat : d >= now => Late(g, d) = Late(log, d)
      /\ \A i \in DOMAIN g : g[i].at + W > now
  BY <1>1, PruneLog
<1> HIDE DEF g
<1>3. cost \in Nat /\ cost > 0 /\ cost <= Limit /\ Limit \in Nat
  BY Constant
<1>4. needed \in Nat /\ needed > 0 /\ needed <= Units(g)
  BY <1>2, <1>3 DEF Fits
<1>5. After(cost, now) = WaitFor(g, now, needed)
  BY DEF After, g
<1> HIDE DEF needed
<1>6. g \in Seq(Grants) /\ DOMAIN g = 1..Len(g) /\ Len(g) \in Nat
  BY <1>2 DEF GoodLog
<1>7. enough # {} /\ m \in DOMAIN g /\ First(g, m) >= needed /\ First(g, m - 1) < needed
  BY <1>4, <1>6, EnoughIs
<1>8. WaitFor(g, now, needed) = SatSub(t, now)
  BY <1>7 DEF WaitFor
<1> HIDE DEF m, enough
<1>9. /\ t \in Nat /\ t > now
      /\ Late(g, t) <= Units(g) - First(g, m)
      /\ Late(g, t - 1) >= Units(g) - First(g, m - 1)
  BY <1>2, <1>7, LateAt
<1> HIDE DEF t
<1>10. After(cost, now) = t - now /\ t - now > 0 /\ now + (t - now) = t
  BY <1>1, <1>5, <1>8, <1>9 DEF SatSub
<1>11. ASSUME NEW d \in Nat, d >= now
       PROVE  used - FreedBy(d) = Late(g, d) /\ Late(g, d) \in Nat
  <2>1. /\ Late(log, d) \in Nat /\ Units(log) \in Nat
        /\ FreedBy(d) = Units(log) - Late(log, d)
    BY <1>1, LateOrGone DEF FreedBy
  <2>2. Late(g, d) = Late(log, d) /\ used = Units(log)
    BY <1>2, <1>11 DEF UsedExact
  <2> QED BY <2>1, <2>2
<1>12. First(g, m) \in Nat /\ First(g, m - 1) \in Nat
  <2>1. m \in 0..Len(g) /\ m - 1 \in 0..Len(g)
    BY <1>6, <1>7
  <2> QED BY <1>6, <2>1, FirstGrows
<1>13. used - FreedBy(t) = Late(g, t) /\ Late(g, t) \in Nat
  BY <1>1, <1>9, <1>11
<1>14. used - FreedBy(t - 1) = Late(g, t - 1) /\ Late(g, t - 1) \in Nat
  <2>1. t - 1 \in Nat /\ t - 1 >= now
    BY <1>1, <1>9
  <2> QED BY <1>11, <2>1
<1>15. needed = Units(g) + cost - Limit
  BY <1>2 DEF needed
<1>16. Late(g, t) + cost <= Limit
  BY <1>2, <1>3, <1>4, <1>7, <1>9, <1>12, <1>13, <1>15
<1>17. ~(Late(g, t - 1) + cost <= Limit)
  BY <1>2, <1>3, <1>4, <1>7, <1>9, <1>12, <1>14, <1>15
<1>18. now + After(cost, now) = t /\ now + After(cost, now) - 1 = t - 1
  BY <1>1, <1>9, <1>10
<1>19. used - FreedBy(t) + cost <= Limit /\ ~(used - FreedBy(t - 1) + cost <= Limit)
  BY <1>13, <1>14, <1>16, <1>17
<1> QED BY <1>10, <1>18, <1>19, Zenon

-----------------------------------------------------------------------------
(* What was granted at each instant. *)

LEMMA SpentSub ==
  ASSUME NEW f \in [Times -> Nat], NEW S, NEW T, S \subseteq T, T \subseteq Times
  PROVE  /\ SumOver(f, S) \in Nat /\ SumOver(f, T) \in Nat /\ SumOver(f, S) <= SumOver(f, T)
         /\ \A k \in T \ S : SumOver(f, S) + f[k] <= SumOver(f, T)
<1> DEFINE R == T \ S
<1>1. IsFiniteSet(S) /\ IsFiniteSet(R)
  <2>1. IsFiniteSet(Times) /\ S \subseteq Times /\ R \subseteq Times
    BY Constant
  <2> QED BY <2>1, FS_Subset
<1>2. S \cap R = {} /\ S \cup R = T /\ \A i \in S \cup R : f[i] \in Nat
  OBVIOUS
<1> HIDE DEF R
<1>3. /\ Total(f, S) \in Nat /\ Total(f, R) \in Nat /\ Total(f, S \cup R) \in Nat
      /\ Total(f, S \cup R) = Total(f, S) + Total(f, R)
  BY <1>1, <1>2, TotalUnion
<1>4. ASSUME NEW k \in R PROVE f[k] <= Total(f, R) /\ f[k] \in Nat
  <2> DEFINE K == {k}
             Q == R \ {k}
  <2>1. IsFiniteSet(K) /\ IsFiniteSet(Q)
    BY <1>1, FS_Singleton, FS_Difference
  <2>2. K \cap Q = {} /\ K \cup Q = R /\ \A i \in K \cup Q : f[i] \in Nat
    BY <1>2
  <2>3. Total(f, K) = f[k] /\ f[k] \in Nat
    BY <1>2, TotalOne
  <2> HIDE DEF K, Q
  <2>4. Total(f, Q) \in Nat /\ Total(f, K \cup Q) = Total(f, K) + Total(f, Q)
    BY <2>1, <2>2, TotalUnion
  <2>5. Total(f, R) = f[k] + Total(f, Q)
    BY <2>2, <2>3, <2>4
  <2> QED BY <2>3, <2>4, <2>5
<1>5. /\ SumOver(f, S) = Total(f, S) /\ SumOver(f, T) = Total(f, S) + Total(f, R)
  BY <1>2, <1>3, SumIs
<1>6. SumOver(f, S) \in Nat /\ SumOver(f, T) \in Nat /\ SumOver(f, S) <= SumOver(f, T)
  BY <1>3, <1>5
<1>7. ASSUME NEW k \in R PROVE SumOver(f, S) + f[k] <= SumOver(f, T)
  <2>1. f[k] <= Total(f, R) /\ f[k] \in Nat
    BY <1>4
  <2> QED BY <1>3, <1>5, <2>1
<1> QED BY <1>6, <1>7 DEF R

(* f and h give every instant but k the same. *)
OneDiffers(f, h, k) ==
  /\ f \in [Times -> Nat] /\ h \in [Times -> Nat] /\ k \in Times
  /\ \A i \in Times : i # k => h[i] = f[i]

LEMMA SpentChanged ==
  ASSUME NEW f, NEW h, NEW k, OneDiffers(f, h, k), NEW S, S \subseteq Times
  PROVE  /\ SumOver(f, S) \in Nat /\ f[k] \in Nat /\ h[k] \in Nat
         /\ k \in S => SumOver(h, S) = SumOver(f, S) - f[k] + h[k]
         /\ k \notin S => SumOver(h, S) = SumOver(f, S)
<1>1. IsFiniteSet(S)
  BY Constant, FS_Subset
<1>2. /\ \A i \in S : f[i] \in Nat
      /\ \A i \in S : h[i] \in Nat
      /\ \A i \in S : i # k => h[i] = f[i]
      /\ f[k] \in Nat /\ h[k] \in Nat
  BY DEF OneDiffers
<1>3. SumOver(f, S) = Total(f, S) /\ SumOver(h, S) = Total(h, S)
  BY SumIs
<1>4. Total(f, S) \in Nat
  BY <1>1, <1>2, UnitsFinite
<1>5. ASSUME k \in S PROVE Total(h, S) = Total(f, S) - f[k] + h[k]
  BY <1>1, <1>2, <1>5, TotalChanged
<1>6. ASSUME k \notin S PROVE Total(h, S) = Total(f, S)
  <2>1. \A i \in S : h[i] = f[i]
    BY <1>2, <1>6
  <2> QED BY <2>1, TotalSame
<1> QED BY <1>2, <1>3, <1>4, <1>5, <1>6

LEMMA RecentIs ==
  ASSUME NEW d \in Nat, NEW c \in Nat, c <= d
  PROVE  Recent(d) \subseteq Times /\ Recent(c) \subseteq Times /\ Recent(d) \subseteq Recent(c)
<1>1. Recent(d) \subseteq Times /\ Recent(c) \subseteq Times
  BY DEF Recent
<1>2. ASSUME NEW i \in Recent(d) PROVE i \in Recent(c)
  <2>1. i \in Nat /\ i \in Times /\ i + W > d + MaxLag
    BY Constant DEF Recent, Times
  <2>2. i + W > c + MaxLag
    BY <2>1, Constant
  <2> QED BY <2>1, <2>2 DEF Recent
<1> QED BY <1>1, <1>2

-----------------------------------------------------------------------------
(* What the waiters may still give back. *)

Records == [pc : {"idle", "ask", "granted"}, cost : Costs \cup {0},
            dl : 0..Forever, until : 0..Forever, lis : BOOLEAN, got : Times]

Term(w, x, i) == IF w[x].pc = "granted" /\ w[x].got = i THEN w[x].cost ELSE 0
Owing(w, i) == Total([x \in Waiters |-> Term(w, x, i)], Waiters)

LEMMA OwingIs ==
  ASSUME NEW w, NEW i
  PROVE  SumOver([x \in Waiters |-> w[x].cost],
                 {x \in Waiters : w[x].pc = "granted" /\ w[x].got = i}) = Owing(w, i)
<1> DEFINE f == [x \in Waiters |-> w[x].cost]
           S == {x \in Waiters : w[x].pc = "granted" /\ w[x].got = i}
           h == [x \in Waiters |-> IF x \in S THEN f[x] ELSE 0]
<1>1. \A x \in Waiters : (IF x \in S THEN f[x] ELSE 0) = Term(w, x, i)
  BY DEF Term
<1>2. h = [x \in Waiters |-> Term(w, x, i)]
  BY <1>1
<1>3. S \subseteq Waiters
  OBVIOUS
<1> HIDE DEF f, S
<1>4. Total(f, S) = Total(h, Waiters)
  BY <1>3, TotalPart
<1>5. SumOver(f, S) = Total(f, S)
  BY SumIs
<1> QED BY <1>2, <1>4, <1>5 DEF Owing, f, S

LEMMA TermType ==
  ASSUME NEW w \in [Waiters -> Records], NEW x \in Waiters, NEW i
  PROVE  Term(w, x, i) \in Nat /\ w[x].cost \in Nat
<1>1. w[x].cost \in Costs \cup {0}
  BY DEF Records
<1>2. Costs \subseteq Nat /\ 0 \in Nat
  BY Inputs
<1>3. w[x].cost \in Nat
  BY <1>1, <1>2, Zenon
<1>4. Term(w, x, i) = w[x].cost \/ Term(w, x, i) = 0
  BY DEF Term
<1> QED BY <1>3, <1>4

LEMMA OwingOne ==
  ASSUME NEW w \in [Waiters -> Records], NEW v \in [Waiters -> Records], NEW x \in Waiters,
         \A y \in Waiters : y # x => v[y] = w[y], NEW i
  PROVE  /\ Owing(w, i) \in Nat /\ Owing(v, i) \in Nat
         /\ Term(w, x, i) \in Nat /\ Term(v, x, i) \in Nat
         /\ Owing(v, i) = Owing(w, i) - Term(w, x, i) + Term(v, x, i)
<1> DEFINE f == [y \in Waiters |-> Term(w, y, i)]
           h == [y \in Waiters |-> Term(v, y, i)]
<1>1. \A y \in Waiters : Term(w, y, i) \in Nat /\ Term(v, y, i) \in Nat
  BY TermType
<1>2. /\ \A y \in Waiters : f[y] \in Nat
      /\ \A y \in Waiters : h[y] \in Nat
      /\ \A y \in Waiters : y # x => h[y] = f[y]
  BY <1>1 DEF Term
<1>3. f[x] = Term(w, x, i) /\ h[x] = Term(v, x, i)
  OBVIOUS
<1>4. Owing(w, i) = Total(f, Waiters) /\ Owing(v, i) = Total(h, Waiters)
  BY DEF Owing
<1> HIDE DEF f, h
<1>5. IsFiniteSet(Waiters)
  BY Constant
<1>6. /\ Total(f, Waiters) \in Nat /\ Total(h, Waiters) \in Nat
      /\ Total(h, Waiters) = Total(f, Waiters) - f[x] + h[x]
  BY <1>2, <1>5, TotalChanged
<1> QED BY <1>1, <1>3, <1>4, <1>6

LEMMA OwingSame ==
  ASSUME NEW w, NEW v, NEW i, \A y \in Waiters : Term(v, y, i) = Term(w, y, i)
  PROVE  Owing(v, i) = Owing(w, i)
<1>1. [y \in Waiters |-> Term(v, y, i)] = [y \in Waiters |-> Term(w, y, i)]
  OBVIOUS
<1> QED BY <1>1 DEF Owing

-----------------------------------------------------------------------------
(* The steps of the log. *)

LEMMA InvFacts ==
  ASSUME Inv
  PROVE  /\ GoodLog(log) /\ UsedExact /\ Booked /\ now \in Nat /\ now \in Times
         /\ used \in Nat /\ hold \in Nat /\ wt \in [Waiters -> Records]
         /\ spent \in [Times -> Nat] /\ stray \in BOOLEAN
<1>1. GoodLog(log) /\ now \in Nat
  BY TypedLog DEF Inv
<1>2. now \in Times /\ used \in Nat /\ hold \in Nat
  BY Zenon DEF Inv, TypeOK, Times
<1>3. spent \in [Times -> Nat] /\ stray \in BOOLEAN
  BY Zenon DEF Inv, TypeOK, Times
<1>4. wt \in [Waiters -> Records]
  BY Zenon DEF Inv, TypeOK, Times, Records
<1>5. UsedExact /\ Booked
  BY DEF Inv
<1> QED BY <1>1, <1>2, <1>3, <1>4, <1>5

LEMMA ReadingIs ==
  ASSUME now \in Nat, NEW at \in Readings
  PROVE  at \in Nat /\ at <= now /\ now <= at + MaxLag
<1>1. at \in 0..now /\ now - at <= MaxLag
  BY DEF Readings
<1> QED BY <1>1, Constant

LEMMA LogAfter ==
  ASSUME NEW g, GoodLog(g), now \in Nat, NEW t \in Nat, now <= t
  PROVE  g \in Seq([at : 0..t, count : Nat \ {0}]) /\ Sorted(g)
<1>1. g \in Seq(Grants) /\ Sorted(g) /\ \A i \in DOMAIN g : g[i].at <= now
  BY DEF GoodLog, Past
<1> DEFINE R == [at : 0..t, count : Nat \ {0}]
<1>2. \A r \in Grants : r.at <= now => r \in R
  BY DEF Grants
<1> HIDE DEF R
<1>3. \A i \in DOMAIN g : g[i] \in R
  BY <1>1, <1>2
<1>4. Len(g) \in Nat /\ DOMAIN g = 1..Len(g) /\ g = [i \in 1..Len(g) |-> g[i]]
  BY <1>1
<1>5. g \in [1..Len(g) -> R]
  BY <1>3, <1>4
<1>6. g \in Seq(R)
  BY <1>4, <1>5
<1> QED BY <1>1, <1>6 DEF R

LEMMA LookStep ==
  ASSUME Inv, NEW at \in Readings, Look(at)
  PROVE  /\ GoodLog(log') /\ used' = Units(log') /\ used' \in Nat
         /\ \A d \in Nat : d >= now => Late(log', d) >= Late(log, d)
<1>1. GoodLog(log) /\ UsedExact /\ at \in Nat /\ at <= now /\ now \in Nat
  BY InvFacts, ReadingIs
<1>2. /\ GoodLog(Pruned(at))
      /\ UsedAfterPrune(at) = Units(Pruned(at)) /\ Units(Pruned(at)) \in Nat
      /\ \A d \in Nat : d >= at => Late(Pruned(at), d) = Late(log, d)
  BY <1>1, PruneLog
<1>3. log' = Pruned(at) /\ used' = UsedAfterPrune(at)
  BY DEF Look
<1>4. ASSUME NEW d \in Nat, d >= now PROVE Late(log', d) >= Late(log, d)
  <2>1. d >= at
    BY <1>1, <1>4
  <2>2. Late(log', d) = Late(log, d)
    BY <1>2, <1>3, <2>1
  <2>3. Late(log, d) \in Nat
    BY <1>1, LateOrGone DEF GoodLog
  <2> QED BY <2>2, <2>3
<1> QED BY <1>2, <1>3, <1>4

LEMMA PushStep ==
  ASSUME Inv, NEW at \in Readings, NEW cost \in Nat, cost > 0, Push(cost, at)
  PROVE  /\ GoodLog(log') /\ used' = Units(log') /\ used' \in Nat
         /\ \A d \in Nat : d >= now =>
              /\ Late(log', d) >= Late(log, d)
              /\ now + W > d + MaxLag => Late(log', d) >= Late(log, d) + cost
         /\ UsedAfterPrune(at) \in Nat /\ Late(log, now) <= UsedAfterPrune(at)
<1> DEFINE g == Pruned(at)
           s == Stamp(g, at)
           r == [at |-> s, count |-> cost]
<1>1. GoodLog(log) /\ UsedExact /\ at \in Nat /\ at <= now /\ now \in Nat /\ now <= at + MaxLag
  BY InvFacts, ReadingIs
<1>2. /\ GoodLog(g)
      /\ UsedAfterPrune(at) = Units(g) /\ Units(g) \in Nat
      /\ \A d \in Nat : d >= at => Late(g, d) = Late(log, d)
  BY <1>1, PruneLog
<1>3. log' = Append(g, r) /\ used' = UsedAfterPrune(at) + cost
  BY DEF Push
<1> HIDE DEF g
<1>4. s \in Nat /\ at <= s /\ s <= now /\ \A i \in DOMAIN g : g[i].at <= s
  BY <1>1, <1>2, StampIs
<1> HIDE DEF s
<1>5. r \in Grants /\ r.at = s /\ r.count = cost
  BY <1>4 DEF Grants
<1> HIDE DEF r
<1>6. /\ GoodLog(Append(g, r)) /\ Units(Append(g, r)) = Units(g) + r.count
      /\ \A d \in Nat : Late(Append(g, r), d) = Late(g, d) + IF r.at + W > d THEN r.count ELSE 0
  <2>1. r.at <= now /\ \A i \in DOMAIN g : g[i].at <= r.at
    BY <1>4, <1>5
  <2> QED BY <1>2, <1>5, <2>1, PushLog
<1>7. ASSUME NEW d \in Nat, d >= now
      PROVE  /\ Late(log', d) >= Late(log, d)
             /\ now + W > d + MaxLag => Late(log', d) >= Late(log, d) + cost
  <2>1. d >= at
    BY <1>1, <1>7
  <2>2. Late(g, d) = Late(log, d)
    BY <1>2, <2>1
  <2>3. Late(log, d) \in Nat
    BY <1>1, LateOrGone DEF GoodLog
  <2>4. Late(log', d) = Late(log, d) + IF s + W > d THEN cost ELSE 0
    BY <1>3, <1>5, <1>6, <2>2
  <2>5. Late(log', d) >= Late(log, d)
    BY <2>3, <2>4
  <2>6. ASSUME now + W > d + MaxLag PROVE Late(log', d) >= Late(log, d) + cost
    <3>1. s + W > d
      BY <1>1, <1>4, <2>6, Constant
    <3> QED BY <2>3, <2>4, <3>1
  <2> QED BY <2>5, <2>6
<1>8. Late(log, now) <= UsedAfterPrune(at)
  <2>1. Late(g, now) = Late(log, now)
    BY <1>1, <1>2
  <2>2. Late(g, now) <= Units(g)
    BY <1>1, <1>2, LateOrGone DEF GoodLog
  <2> QED BY <1>2, <2>1, <2>2
<1> QED BY <1>2, <1>3, <1>5, <1>6, <1>7, <1>8

LEMMA GiveBackStep ==
  ASSUME Inv, NEW n \in Nat, GiveBack(n)
  PROVE  /\ GoodLog(log') /\ used' = Units(log') /\ used' \in Nat
         /\ Units(log) \in Nat
         /\ \A d \in Nat : Late(log', d) >= Late(log, d) \/ Late(log', d) >= Units(log) - n
<1>1. GoodLog(log) /\ UsedExact
  BY InvFacts
<1>2. log' = Drained(log, n) /\ used' = SatSub(used, n)
  BY DEF GiveBack, Drained, Emptied
<1>3. /\ GoodLog(Drained(log, n))
      /\ Units(Drained(log, n)) = SatSub(Units(log), n)
      /\ \A d \in Nat : \/ Late(Drained(log, n), d) >= Late(log, d)
                        \/ Late(Drained(log, n), d) >= Units(log) - n
  BY <1>1, DrainLog
<1>4. Units(log) \in Nat
  BY <1>1, LateOrGone DEF GoodLog
<1>5. used' = Units(log')
  BY <1>1, <1>2, <1>3 DEF UsedExact
<1>6. SatSub(Units(log), n) \in Nat
  BY <1>4 DEF SatSub
<1> QED BY <1>2, <1>3, <1>4, <1>5, <1>6

-----------------------------------------------------------------------------
(* The window bound. *)

LEMMA Bounded ==
  ASSUME Inv, ~stray
  PROVE  /\ \A d \in Nat : d >= now => SumOver(spent, Recent(d)) <= Late(log, d)
         /\ \A t \in Windows : SumOver(spent, t..(t + W - MaxLag - 1)) <= Limit
BY Zenon DEF Inv, Remembered, WindowBound, SpentFrom

LEMMA BoundAfter ==
  ASSUME now' = now,
         \A d \in Nat : d >= now => SumOver(spent', Recent(d)) <= Late(log', d),
         \A t \in Windows : SumOver(spent', t..(t + W - MaxLag - 1)) <= Limit
  PROVE  Remembered' /\ WindowBound'
<1>1. Remembered'
  BY Zenon DEF Remembered
<1>2. WindowBound'
  BY Zenon DEF WindowBound, SpentFrom
<1> QED BY <1>1, <1>2

LEMMA LateType ==
  ASSUME NEW g, GoodLog(g), NEW d \in Nat
  PROVE  Late(g, d) \in Nat /\ Late(g, d) <= Units(g) /\ Units(g) \in Nat
BY LateOrGone DEF GoodLog

LEMMA WindowIs ==
  ASSUME NEW t \in Windows
  PROVE  /\ t..(t + W - MaxLag - 1) \subseteq Times
         /\ \A i \in Times : i \in t..(t + W - MaxLag - 1) =>
              t..(t + W - MaxLag - 1) \subseteq Recent(i)
<1>1. t \in Nat /\ t + W - MaxLag - 1 <= MaxNow
  BY Constant DEF Windows
<1>2. t..(t + W - MaxLag - 1) \subseteq Times
  BY <1>1, Constant DEF Times
<1>3. ASSUME NEW i \in Times, i \in t..(t + W - MaxLag - 1),
             NEW j \in t..(t + W - MaxLag - 1)
      PROVE  j \in Recent(i)
  <2>1. j \in Nat /\ i \in Nat /\ t <= j /\ i <= t + W - MaxLag - 1
    BY <1>1, <1>3, Constant
  <2>2. j + W > i + MaxLag
    BY <1>1, <2>1, Constant
  <2>3. j \in Times
    BY <1>2
  <2> QED BY <2>2, <2>3 DEF Recent
<1> QED BY <1>2, <1>3

(* Nothing is granted or given back, and the log forgets nothing too soon. *)
LEMMA KeepBound ==
  ASSUME Inv, now' = now, spent' = spent, stray' = stray, GoodLog(log'),
         \A d \in Nat : d >= now => Late(log', d) >= Late(log, d)
  PROVE  ~stray' => Remembered' /\ WindowBound'
<1> SUFFICES ASSUME ~stray PROVE Remembered' /\ WindowBound'
  OBVIOUS
<1>1. GoodLog(log) /\ spent \in [Times -> Nat] /\ now \in Nat
  BY InvFacts
<1>2. ASSUME NEW d \in Nat, d >= now PROVE SumOver(spent, Recent(d)) <= Late(log', d)
  <2>1. SumOver(spent, Recent(d)) <= Late(log, d)
    BY <1>2, Bounded
  <2>2. SumOver(spent, Recent(d)) \in Nat
    <3>1. Recent(d) \subseteq Times
      BY DEF Recent
    <3> QED BY <1>1, <3>1, SpentSub
  <2>3. Late(log, d) \in Nat /\ Late(log', d) \in Nat
    BY <1>1, LateType
  <2>4. Late(log', d) >= Late(log, d)
    BY <1>2
  <2> QED BY <2>1, <2>2, <2>3, <2>4
<1>3. \A t \in Windows : SumOver(spent, t..(t + W - MaxLag - 1)) <= Limit
  BY Bounded
<1> QED BY <1>2, <1>3, BoundAfter

(* A grant that fits. *)
LEMMA GrantBound ==
  ASSUME Inv, NEW at \in Readings, NEW cost \in Nat, cost > 0, Fits(cost, at), Push(cost, at),
         spent' = [spent EXCEPT ![now] = @ + cost], now' = now, stray' = stray
  PROVE  spent' \in [Times -> Nat] /\ (~stray' => Remembered' /\ WindowBound')
<1>1. GoodLog(log) /\ spent \in [Times -> Nat] /\ now \in Nat /\ now \in Times
  BY InvFacts
<1>2. /\ GoodLog(log')
      /\ \A d \in Nat : d >= now =>
           /\ Late(log', d) >= Late(log, d)
           /\ now + W > d + MaxLag => Late(log', d) >= Late(log, d) + cost
      /\ UsedAfterPrune(at) \in Nat /\ Late(log, now) <= UsedAfterPrune(at)
  BY PushStep
<1>3. UsedAfterPrune(at) + cost <= Limit
  BY DEF Fits
<1> DEFINE h == spent'
<1>4. /\ h \in [Times -> Nat] /\ h[now] = spent[now] + cost /\ spent[now] \in Nat
      /\ \A i \in Times : i # now => h[i] = spent[i]
  BY <1>1
<1> HIDE DEF h
<1>5. ASSUME NEW S, S \subseteq Times
      PROVE  /\ SumOver(spent, S) \in Nat
             /\ now \in S => SumOver(h, S) = SumOver(spent, S) + cost
             /\ now \notin S => SumOver(h, S) = SumOver(spent, S)
  <2>1. /\ SumOver(spent, S) \in Nat
        /\ now \in S => SumOver(h, S) = SumOver(spent, S) - spent[now] + h[now]
        /\ now \notin S => SumOver(h, S) = SumOver(spent, S)
    <3>1. OneDiffers(spent, h, now)
      BY <1>1, <1>4 DEF OneDiffers
    <3> QED BY <1>5, <3>1, SpentChanged
  <2>2. SumOver(spent, S) - spent[now] + h[now] = SumOver(spent, S) + cost
    BY <1>4, <2>1
  <2> QED BY <2>1, <2>2
<1>6. ASSUME ~stray, NEW d \in Nat, d >= now PROVE SumOver(h, Recent(d)) <= Late(log', d)
  <2> DEFINE S == Recent(d)
  <2>1. S \subseteq Times /\ (now \in S => now + W > d + MaxLag)
    BY DEF Recent
  <2>2. SumOver(spent, S) <= Late(log, d)
    BY <1>6, Bounded
  <2>3. Late(log, d) \in Nat /\ Late(log', d) \in Nat
    BY <1>1, <1>2, LateType
  <2>4. /\ Late(log', d) >= Late(log, d)
        /\ now + W > d + MaxLag => Late(log', d) >= Late(log, d) + cost
    BY <1>2, <1>6
  <2> HIDE DEF S
  <2>5. /\ SumOver(spent, S) \in Nat
        /\ now \in S => SumOver(h, S) = SumOver(spent, S) + cost
        /\ now \notin S => SumOver(h, S) = SumOver(spent, S)
    BY <1>5, <2>1
  <2>6. CASE now \in S
    <3>1. Late(log', d) >= Late(log, d) + cost /\ SumOver(h, S) = SumOver(spent, S) + cost
      BY <2>1, <2>4, <2>5, <2>6
    <3> QED BY <2>2, <2>3, <2>5, <3>1 DEF S
  <2>7. CASE now \notin S
    <3>1. SumOver(h, S) = SumOver(spent, S)
      BY <2>5, <2>7
    <3> QED BY <2>2, <2>3, <2>4, <2>5, <3>1 DEF S
  <2> QED BY <2>6, <2>7
<1>7. ASSUME ~stray, NEW t \in Windows PROVE SumOver(h, t..(t + W - MaxLag - 1)) <= Limit
  <2> DEFINE S == t..(t + W - MaxLag - 1)
  <2>1. S \subseteq Times /\ (now \in S => S \subseteq Recent(now))
    BY <1>1, WindowIs
  <2>2. SumOver(spent, S) <= Limit
    BY <1>7, Bounded
  <2>3. SumOver(spent, Recent(now)) <= Late(log, now)
    BY <1>1, <1>7, Bounded
  <2>4. Late(log, now) \in Nat
    BY <1>1, LateType
  <2> HIDE DEF S
  <2>5. /\ SumOver(spent, S) \in Nat
        /\ now \in S => SumOver(h, S) = SumOver(spent, S) + cost
        /\ now \notin S => SumOver(h, S) = SumOver(spent, S)
    BY <1>5, <2>1
  <2>6. CASE now \in S
    <3>1. S \subseteq Recent(now) /\ Recent(now) \subseteq Times
      BY <2>1, <2>6 DEF Recent
    <3>2. /\ SumOver(spent, S) <= SumOver(spent, Recent(now))
          /\ SumOver(spent, Recent(now)) \in Nat
      BY <1>1, <3>1, SpentSub
    <3>3. SumOver(h, S) = SumOver(spent, S) + cost
      BY <2>5, <2>6
    <3> QED BY <1>2, <1>3, <2>3, <2>4, <2>5, <3>2, <3>3, Constant DEF S
  <2>7. CASE now \notin S
    <3>1. SumOver(h, S) = SumOver(spent, S)
      BY <2>5, <2>7
    <3> QED BY <2>2, <3>1 DEF S
  <2> QED BY <2>6, <2>7
<1>8. ASSUME ~stray PROVE Remembered' /\ WindowBound'
  <2>1. /\ \A d \in Nat : d >= now => SumOver(spent', Recent(d)) <= Late(log', d)
        /\ \A t \in Windows : SumOver(spent', t..(t + W - MaxLag - 1)) <= Limit
    BY <1>6, <1>7, <1>8 DEF h
  <2> QED BY <2>1, BoundAfter
<1> QED BY <1>4, <1>8 DEF h

(* Units given back. *)
LEMMA GiveBackBound ==
  ASSUME Inv, NEW n \in Nat, NEW from \in Times, n <= spent[from],
         GiveBack(n), Unspend(n, from), now' = now
  PROVE  /\ spent' \in [Times -> Nat] /\ stray' \in BOOLEAN
         /\ spent'[from] = spent[from] - n /\ \A i \in Times : i # from => spent'[i] = spent[i]
         /\ ~stray' => Remembered' /\ WindowBound'
<1>1. GoodLog(log) /\ spent \in [Times -> Nat] /\ now \in Nat /\ now \in Times
  BY InvFacts
<1>2. /\ GoodLog(log') /\ Units(log) \in Nat
      /\ \A d \in Nat : Late(log', d) >= Late(log, d) \/ Late(log', d) >= Units(log) - n
  BY GiveBackStep
<1>3. /\ spent' = [spent EXCEPT ![from] = @ - n]
      /\ stray' = (stray \/ from + W - MaxLag <= now)
  BY DEF Unspend
<1> DEFINE h == spent'
<1>4. /\ h \in [Times -> Nat] /\ h[from] = spent[from] - n /\ spent[from] \in Nat
      /\ \A i \in Times : i # from => h[i] = spent[i]
  <2>1. spent[from] \in Nat /\ spent[from] - n \in Nat
    BY <1>1
  <2> QED BY <1>1, <1>3, <2>1
<1>5. stray' \in BOOLEAN
  BY <1>3, Zenon
<1> HIDE DEF h
<1>6. ASSUME NEW S, S \subseteq Times
      PROVE  /\ SumOver(spent, S) \in Nat /\ SumOver(h, S) \in Nat
             /\ from \in S => SumOver(h, S) = SumOver(spent, S) - n
             /\ from \notin S => SumOver(h, S) = SumOver(spent, S)
  <2>1. /\ SumOver(spent, S) \in Nat
        /\ from \in S => SumOver(h, S) = SumOver(spent, S) - spent[from] + h[from]
        /\ from \notin S => SumOver(h, S) = SumOver(spent, S)
    <3>1. OneDiffers(spent, h, from)
      BY <1>1, <1>4 DEF OneDiffers
    <3> QED BY <1>6, <3>1, SpentChanged
  <2>2. SumOver(spent, S) - spent[from] + h[from] = SumOver(spent, S) - n
    BY <1>4, <2>1
  <2>3. SumOver(h, S) \in Nat
    BY <1>4, <1>6, SpentSub, ZenonT(30)
  <2> QED BY <2>1, <2>2, <2>3
<1>7. ASSUME ~stray' PROVE ~stray /\ from \in Recent(now)
  <2>1. ~stray /\ ~(from + W - MaxLag <= now)
    BY <1>3, <1>7, Zenon
  <2>2. from \in Nat
    BY Constant DEF Times
  <2>3. from + W > now + MaxLag
    BY <1>1, <2>1, <2>2, Constant
  <2> QED BY <2>1, <2>3 DEF Recent
<1>8. ASSUME ~stray', NEW d \in Nat, d >= now PROVE SumOver(h, Recent(d)) <= Late(log', d)
  <2> DEFINE S == Recent(d)
             T == Recent(now)
  <2>1. ~stray /\ from \in T
    BY <1>7, <1>8
  <2>2. S \subseteq Times /\ T \subseteq Times /\ S \subseteq T
    BY <1>1, <1>8, RecentIs
  <2>3. SumOver(spent, S) <= Late(log, d) /\ SumOver(spent, T) <= Late(log, now)
    BY <1>1, <1>8, <2>1, Bounded
  <2>4. /\ Late(log, d) \in Nat /\ Late(log', d) \in Nat /\ Late(log, now) \in Nat
        /\ Late(log, d) <= Units(log) /\ Late(log, now) <= Units(log)
    BY <1>1, <1>2, LateType
  <2>5. Late(log', d) >= Late(log, d) \/ Late(log', d) >= Units(log) - n
    BY <1>2
  <2> HIDE DEF S, T
  <2>6. /\ SumOver(spent, S) \in Nat /\ SumOver(h, S) \in Nat
        /\ from \in S => SumOver(h, S) = SumOver(spent, S) - n
        /\ from \notin S => SumOver(h, S) = SumOver(spent, S)
    BY <1>6, <2>2
  <2>7. CASE from \in S
    <3>1. SumOver(h, S) = SumOver(spent, S) - n
      BY <2>6, <2>7
    <3>2. SumOver(h, S) <= Late(log', d)
      BY <1>2, <2>3, <2>4, <2>5, <2>6, <3>1
    <3> QED BY <3>2 DEF S
  <2>8. CASE from \notin S
    <3>1. SumOver(h, S) = SumOver(spent, S)
      BY <2>6, <2>8
    <3>2. /\ SumOver(spent, S) + spent[from] <= SumOver(spent, T)
          /\ SumOver(spent, T) \in Nat
      <4>1. from \in T \ S
        BY <2>1, <2>8
      <4> QED BY <1>1, <2>2, <4>1, SpentSub, ZenonT(30)
    <3>3. SumOver(h, S) <= Units(log) - n
      BY <1>2, <1>4, <2>3, <2>4, <2>6, <3>1, <3>2
    <3>4. SumOver(h, S) <= Late(log', d)
      BY <1>2, <2>3, <2>4, <2>5, <2>6, <3>1, <3>3
    <3> QED BY <3>4 DEF S
  <2> QED BY <2>7, <2>8
<1>9. ASSUME ~stray', NEW t \in Windows PROVE SumOver(h, t..(t + W - MaxLag - 1)) <= Limit
  <2> DEFINE S == t..(t + W - MaxLag - 1)
  <2>1. ~stray
    BY <1>7, <1>9
  <2>2. SumOver(spent, S) <= Limit /\ S \subseteq Times
    BY <2>1, Bounded, WindowIs
  <2> HIDE DEF S
  <2>3. /\ SumOver(spent, S) \in Nat /\ SumOver(h, S) \in Nat
        /\ SumOver(h, S) = SumOver(spent, S) - n \/ SumOver(h, S) = SumOver(spent, S)
    BY <1>6, <2>2
  <2>4. SumOver(h, S) <= Limit
    BY <2>2, <2>3, Constant
  <2> QED BY <2>4 DEF S
<1>10. ASSUME ~stray' PROVE Remembered' /\ WindowBound'
  <2>1. /\ \A d \in Nat : d >= now => SumOver(spent', Recent(d)) <= Late(log', d)
        /\ \A t \in Windows : SumOver(spent', t..(t + W - MaxLag - 1)) <= Limit
    BY <1>8, <1>9, <1>10 DEF h
  <2> QED BY <2>1, BoundAfter
<1> QED BY <1>4, <1>5, <1>10 DEF h

-----------------------------------------------------------------------------
(* The invariant, put together. *)

LEMMA BookedIs ==
  ASSUME Inv
  PROVE  \A i \in Times : Owing(wt, i) <= spent[i]
<1>1. \A i \in Times : SumOver(Costed, WaitersOf(i)) <= spent[i]
  BY DEF Inv, Booked
<1>2. \A i : SumOver(Costed, WaitersOf(i)) = Owing(wt, i)
  BY OwingIs DEF Costed, WaitersOf
<1> QED BY <1>1, <1>2

LEMMA Assemble ==
  ASSUME Inv, now' = now, GoodLog(log'), used' = Units(log'), used' \in Nat,
         hold' \in Nat, wt' \in [Waiters -> Records], spent' \in [Times -> Nat],
         stray' \in BOOLEAN, \A i \in Times : Owing(wt', i) <= spent'[i],
         ~stray' => Remembered' /\ WindowBound'
  PROVE  Inv'
<1>1. now \in Nat /\ now \in 0..MaxNow
  BY InvFacts DEF Times
<1>2. log' \in Seq([at : 0..now, count : Nat \ {0}]) /\ Sorted(log')
  BY <1>1, LogAfter
<1>3. TypeOK'
  BY <1>1, <1>2, Zenon DEF TypeOK, Times, Records
<1>4. UsedExact'
  BY Zenon DEF UsedExact
<1>5. Booked'
  <2>1. \A i \in Times : SumOver(Costed', WaitersOf(i)') <= spent'[i]
    <3>1. \A i \in Times : SumOver(Costed', WaitersOf(i)') = Owing(wt', i)
      BY OwingIs DEF Costed, WaitersOf
    <3> QED BY <3>1
  <2> QED BY <2>1, Zenon DEF Booked
<1> QED BY <1>2, <1>3, <1>4, <1>5 DEF Inv

-----------------------------------------------------------------------------
(* The steps of the waiters. *)

LEMMA WaitType ==
  ASSUME NEW g \in Seq(Grants), NEW at \in Nat, NEW needed
  PROVE  WaitFor(g, at, needed) \in Nat
<1> DEFINE enough == {i \in DOMAIN g : First(g, i) >= needed}
           m == CHOOSE i \in enough : \A j \in enough : i <= j
<1>1. WaitFor(g, at, needed) = IF enough = {} THEN W ELSE SatSub(g[m].at + W, at)
  BY DEF WaitFor
<1>2. CASE enough = {}
  BY <1>1, <1>2, Constant
<1>3. CASE enough # {}
  <2>1. enough \subseteq Nat /\ enough \subseteq DOMAIN g
    BY SumType
  <2> HIDE DEF enough
  <2>2. \E i \in enough : \A j \in enough : i <= j
    BY <1>3, <2>1, LeastNumber
  <2>3. m \in DOMAIN g
    BY <2>1, <2>2
  <2> HIDE DEF m
  <2>4. g[m].at \in Nat
    BY <2>3, SumType
  <2>5. SatSub(g[m].at + W, at) \in Nat
    BY <2>4, Constant DEF SatSub
  <2> QED BY <1>1, <1>3, <2>5
<1> QED BY <1>2, <1>3

LEMMA AfterType ==
  ASSUME Inv, NEW at \in Readings, NEW cost
  PROVE  After(cost, at) \in Nat /\ (Held(at) => hold - at \in Nat) /\ Held(at) \in BOOLEAN
<1>1. GoodLog(log) /\ UsedExact /\ now \in Nat /\ hold \in Nat /\ at \in Nat
  BY InvFacts, ReadingIs
<1>2. Held(at) => hold - at \in Nat
  BY <1>1 DEF Held
<1>3. Pruned(at) \in Seq(Grants)
  BY <1>1, PruneLog DEF GoodLog
<1>4. WaitFor(Pruned(at), at, UsedAfterPrune(at) + cost - Limit) \in Nat
  BY <1>1, <1>3, WaitType
<1>5. Held(at) \in BOOLEAN
  BY DEF Held
<1> QED BY <1>2, <1>4, <1>5 DEF After

LEMMA UntilType ==
  ASSUME now \in Nat, NEW d \in Nat
  PROVE  Until(d) \in 0..Forever
BY Constant DEF Until

LEMMA IdleRecord == Idle \in Records /\ Idle.pc = "idle"
<1>1. 0 \in 0..Forever /\ 0 \in Times
  BY Constant DEF Times
<1> QED BY <1>1 DEF Idle, Records

(* A waiter changes, and does not come to hold more. *)
LEMMA OneWaiter ==
  ASSUME Inv, NEW x \in Waiters, NEW r \in Records, wt' = [wt EXCEPT ![x] = r],
         \/ r.pc # "granted"
         \/ r.cost = 0
         \/ r.pc = wt[x].pc /\ r.cost = wt[x].cost /\ r.got = wt[x].got
  PROVE  /\ wt' \in [Waiters -> Records]
         /\ \A i \in Times : Owing(wt', i) <= spent[i]
<1>1. wt \in [Waiters -> Records] /\ spent \in [Times -> Nat]
  BY InvFacts
<1> DEFINE v == wt'
<1>2. /\ v \in [Waiters -> Records] /\ v[x] = r /\ \A y \in Waiters : y # x => v[y] = wt[y]
  BY <1>1
<1>3. ASSUME NEW i \in Times PROVE Term(v, x, i) = 0 \/ Term(v, x, i) = Term(wt, x, i)
  BY <1>2 DEF Term
<1> HIDE DEF v
<1>4. ASSUME NEW i \in Times PROVE Owing(v, i) <= spent[i]
  <2>1. /\ Owing(wt, i) \in Nat /\ Owing(v, i) \in Nat
        /\ Term(wt, x, i) \in Nat /\ Term(v, x, i) \in Nat
        /\ Owing(v, i) = Owing(wt, i) - Term(wt, x, i) + Term(v, x, i)
    BY <1>1, <1>2, OwingOne, ZenonT(30)
  <2>2. Owing(wt, i) <= spent[i] /\ spent[i] \in Nat
    BY <1>1, BookedIs
  <2>3. Term(v, x, i) = 0 \/ Term(v, x, i) = Term(wt, x, i)
    BY <1>3
  <2> QED BY <2>1, <2>2, <2>3
<1> QED BY <1>2, <1>4 DEF v

LEMMA LeaveStep ==
  ASSUME Inv, NEW x \in Waiters, Leave(x)
  PROVE  /\ wt' \in [Waiters -> Records]
         /\ \A i \in Times : Owing(wt', i) <= spent[i]
<1>1. wt' = [wt EXCEPT ![x] = Idle]
  BY DEF Leave
<1>2. Idle \in Records /\ Idle.pc # "granted"
  BY IdleRecord
<1> QED BY <1>1, <1>2, OneWaiter, ZenonT(30)

LEMMA SleepStep ==
  ASSUME Inv, NEW x \in Waiters, NEW at \in Readings, NEW after \in Nat,
         SleepOrTimeOut(x, after, at)
  PROVE  /\ wt' \in [Waiters -> Records]
         /\ \A i \in Times : Owing(wt', i) <= spent[i]
<1>1. CASE after > Left(x)
  <2>1. Leave(x)
    BY <1>1 DEF SleepOrTimeOut
  <2> QED BY <2>1, LeaveStep
<1>2. CASE ~(after > Left(x))
  <2> DEFINE r == [wt[x] EXCEPT !.until = Until(after), !.lis = Held(at)]
  <2>1. wt \in [Waiters -> Records] /\ now \in Nat
    BY InvFacts
  <2>2. wt' = [wt EXCEPT ![x].until = Until(after), ![x].lis = Held(at)]
    BY <1>2 DEF SleepOrTimeOut
  <2>3. Until(after) \in 0..Forever /\ Held(at) \in BOOLEAN
    BY <2>1, UntilType, AfterType
  <2>4. wt' = [wt EXCEPT ![x] = r]
    BY <2>1, <2>2
  <2>5. r \in Records
    BY <2>1, <2>3 DEF Records
  <2>6. r.pc = wt[x].pc /\ r.cost = wt[x].cost /\ r.got = wt[x].got
    BY <2>1 DEF Records
  <2> HIDE DEF r
  <2> QED BY <2>4, <2>5, <2>6, OneWaiter, ZenonT(30)
<1> QED BY <1>1, <1>2

(* Steps that leave the log alone. *)
LEMMA QuietStep ==
  ASSUME Inv, UNCHANGED <<now, log, used, spent, stray>>, hold' \in Nat,
         wt' \in [Waiters -> Records], \A i \in Times : Owing(wt', i) <= spent[i]
  PROVE  Inv'
<1>1. /\ GoodLog(log) /\ UsedExact /\ used \in Nat /\ spent \in [Times -> Nat]
      /\ stray \in BOOLEAN
  BY InvFacts
<1>2. now' = now /\ log' = log /\ used' = used /\ spent' = spent /\ stray' = stray
  OBVIOUS
<1>3. GoodLog(log') /\ used' = Units(log') /\ used' \in Nat
  BY <1>1, <1>2, Zenon DEF UsedExact
<1>4. \A d \in Nat : d >= now => Late(log', d) >= Late(log, d)
  <2> SUFFICES ASSUME NEW d \in Nat PROVE Late(log', d) >= Late(log, d)
    OBVIOUS
  <2>1. Late(log, d) \in Nat
    BY <1>1, LateType
  <2> QED BY <1>2, <2>1
<1>5. ~stray' => Remembered' /\ WindowBound'
  BY <1>2, <1>3, <1>4, KeepBound, Zenon
<1>6. \A i \in Times : Owing(wt', i) <= spent'[i]
  BY <1>2
<1>7. spent' \in [Times -> Nat] /\ stray' \in BOOLEAN
  BY <1>1, <1>2, Zenon
<1> QED BY <1>2, <1>3, <1>5, <1>6, <1>7, Assemble, Zenon

(* Steps that change the log and grant nothing. *)
LEMMA LogStep ==
  ASSUME Inv, UNCHANGED <<now, hold, spent, stray>>,
         GoodLog(log'), used' = Units(log'), used' \in Nat,
         \A d \in Nat : d >= now => Late(log', d) >= Late(log, d),
         wt' \in [Waiters -> Records], \A i \in Times : Owing(wt', i) <= spent[i]
  PROVE  Inv'
<1>1. hold \in Nat /\ spent \in [Times -> Nat] /\ stray \in BOOLEAN
  BY InvFacts
<1>2. now' = now /\ hold' = hold /\ spent' = spent /\ stray' = stray
  OBVIOUS
<1>3. ~stray' => Remembered' /\ WindowBound'
  BY <1>2, KeepBound, Zenon
<1>4. \A i \in Times : Owing(wt', i) <= spent'[i]
  BY <1>2
<1>5. spent' \in [Times -> Nat] /\ stray' \in BOOLEAN /\ hold' \in Nat
  BY <1>1, <1>2, Zenon
<1> QED BY <1>2, <1>3, <1>4, <1>5, Assemble, Zenon

-----------------------------------------------------------------------------
(* The actions. *)

LEMMA SameWaiters ==
  ASSUME Inv, wt' = wt
  PROVE  wt' \in [Waiters -> Records] /\ \A i \in Times : Owing(wt', i) <= spent[i]
<1>1. wt \in [Waiters -> Records] /\ \A i \in Times : Owing(wt, i) <= spent[i]
  BY InvFacts, BookedIs
<1> QED BY <1>1, Zenon

LEMMA CostIs ==
  ASSUME NEW cost \in Nat, ~Free(cost)
  PROVE  cost > 0
BY DEF Free

LEMMA TryAcquireStep ==
  ASSUME Inv, NEW cost \in Costs, NEW at \in Readings, TryAcquire(cost, at)
  PROVE  Inv'
<1>1. cost \in Nat /\ cost > 0
  <2>1. cost \in Nat
    BY Inputs
  <2> QED BY <2>1, CostIs DEF TryAcquire
<1>2. UNCHANGED <<now, hold, stray>> /\ wt' = wt
  BY DEF TryAcquire
<1>3. wt' \in [Waiters -> Records] /\ \A i \in Times : Owing(wt', i) <= spent[i]
  BY <1>2, SameWaiters
<1>4. CASE Fits(cost, at)
  <2>1. Push(cost, at) /\ spent' = [spent EXCEPT ![now] = @ + cost]
    BY <1>4 DEF TryAcquire
  <2>2. GoodLog(log') /\ used' = Units(log') /\ used' \in Nat
    BY <1>1, <2>1, PushStep
  <2>3. spent' \in [Times -> Nat] /\ (~stray' => Remembered' /\ WindowBound')
    <3>1. now' = now /\ stray' = stray
      BY <1>2
    <3> QED BY <1>1, <1>4, <2>1, <3>1, GrantBound, Zenon
  <2>4. \A i \in Times : Owing(wt', i) <= spent'[i]
    <3> SUFFICES ASSUME NEW i \in Times PROVE Owing(wt', i) <= spent'[i]
      OBVIOUS
    <3>1. spent \in [Times -> Nat] /\ wt' \in [Waiters -> Records] /\ now \in Times
      BY <1>3, InvFacts
    <3>2. Owing(wt', i) <= spent[i] /\ spent[i] \in Nat
      BY <1>3, <3>1
    <3>3. Owing(wt', i) \in Nat
      <4>1. \A x \in Waiters : [z \in Waiters |-> Term(wt', z, i)][x] \in Nat
        BY <3>1, TermType
      <4> QED BY <4>1, Constant, UnitsFinite DEF Owing
    <3>4. spent'[i] >= spent[i] /\ spent'[i] \in Nat
      BY <1>1, <2>1, <3>1, <3>2
    <3> QED BY <3>2, <3>3, <3>4
  <2>5. now' = now /\ hold' \in Nat /\ stray' \in BOOLEAN
    BY <1>2, InvFacts
  <2> QED BY <1>3, <2>2, <2>3, <2>4, <2>5, Assemble, Zenon
<1>5. CASE ~Fits(cost, at)
  <2>1. Look(at) /\ UNCHANGED spent
    BY <1>5 DEF TryAcquire
  <2>2. /\ GoodLog(log') /\ used' = Units(log') /\ used' \in Nat
        /\ \A d \in Nat : d >= now => Late(log', d) >= Late(log, d)
    BY <2>1, LookStep
  <2>3. UNCHANGED <<now, hold, spent, stray>>
    BY <1>2, <2>1
  <2> QED BY <1>3, <2>2, <2>3, LogStep, Zenon
<1> QED BY <1>4, <1>5

LEMMA PeekStep ==
  ASSUME Inv, NEW at \in Readings, Peek(at)
  PROVE  Inv'
<1>1. Look(at) /\ UNCHANGED <<now, hold, spent, stray>> /\ wt' = wt
  BY DEF Peek
<1>2. /\ GoodLog(log') /\ used' = Units(log') /\ used' \in Nat
      /\ \A d \in Nat : d >= now => Late(log', d) >= Late(log, d)
  BY <1>1, LookStep
<1>3. wt' \in [Waiters -> Records] /\ \A i \in Times : Owing(wt', i) <= spent[i]
  BY <1>1, SameWaiters
<1> QED BY <1>1, <1>2, <1>3, LogStep, Zenon

LEMMA ChargeStep ==
  ASSUME Inv, NEW n \in Charges, NEW at \in Readings, Charge(n, at)
  PROVE  Inv'
<1>1. Push(n, at) /\ UNCHANGED <<now, hold, spent, stray>> /\ wt' = wt
  BY DEF Charge
<1>2. n \in Nat /\ n > 0
  BY Inputs
<1>3. /\ GoodLog(log') /\ used' = Units(log') /\ used' \in Nat
      /\ \A d \in Nat : d >= now => Late(log', d) >= Late(log, d)
  BY <1>1, <1>2, PushStep
<1>4. wt' \in [Waiters -> Records] /\ \A i \in Times : Owing(wt', i) <= spent[i]
  BY <1>1, SameWaiters
<1> QED BY <1>1, <1>3, <1>4, LogStep, Zenon

LEMMA RefundStep ==
  ASSUME Inv, NEW n \in Refunds, Refund(n)
  PROVE  Inv'
<1>1. PICK from \in 0..now : Owned(from) >= n /\ Unspend(n, from)
  BY DEF Refund
<1>2. GiveBack(n) /\ now' = now /\ hold' = hold /\ wt' = wt
  BY DEF Refund
<1>3. /\ n \in Nat /\ now \in Times /\ spent \in [Times -> Nat] /\ hold \in Nat
      /\ wt \in [Waiters -> Records] /\ \A i \in Times : Owing(wt, i) <= spent[i]
  BY Inputs, InvFacts, BookedIs
<1>4. from \in Times /\ spent[from] \in Nat
  <2>1. from \in Times
    BY <1>3, Constant DEF Times
  <2> QED BY <1>3, <2>1
<1>5. \A i \in Times : Owing(wt, i) \in Nat
  <2> SUFFICES ASSUME NEW i \in Times PROVE Owing(wt, i) \in Nat
    OBVIOUS
  <2>1. \A x \in Waiters : [z \in Waiters |-> Term(wt, z, i)][x] \in Nat
    BY <1>3, TermType
  <2> QED BY <2>1, Constant, UnitsFinite DEF Owing
<1>6. Owned(from) = spent[from] - Owing(wt, from)
  <2>1. SumOver([x \in Waiters |-> wt[x].cost], WaitersOf(from)) = Owing(wt, from)
    BY OwingIs DEF WaitersOf
  <2> QED BY <2>1 DEF Owned
<1>7. Owing(wt, from) \in Nat
  BY <1>4, <1>5
<1>8. n <= spent[from] /\ Owing(wt, from) <= spent[from] - n
  BY <1>1, <1>3, <1>4, <1>6, <1>7
<1>9. /\ spent' \in [Times -> Nat] /\ stray' \in BOOLEAN
      /\ spent'[from] = spent[from] - n /\ \A i \in Times : i # from => spent'[i] = spent[i]
      /\ ~stray' => Remembered' /\ WindowBound'
  BY <1>1, <1>2, <1>3, <1>4, <1>8, GiveBackBound, ZenonT(30)
<1>10. GoodLog(log') /\ used' = Units(log') /\ used' \in Nat
  BY <1>2, <1>3, GiveBackStep
<1>11. \A i \in Times : Owing(wt', i) <= spent'[i]
  <2> SUFFICES ASSUME NEW i \in Times PROVE Owing(wt, i) <= spent'[i]
    BY <1>2
  <2>1. CASE i = from
    BY <1>8, <1>9, <2>1
  <2>2. CASE i # from
    BY <1>3, <1>9, <2>2
  <2> QED BY <2>1, <2>2
<1>12. wt' \in [Waiters -> Records] /\ hold' \in Nat
  BY <1>2, <1>3
<1> QED BY <1>2, <1>9, <1>10, <1>11, <1>12, Assemble, Zenon

LEMMA PauseStep ==
  ASSUME Inv, NEW d \in Pauses, NEW at \in Readings, PauseFor(d, at)
  PROVE  Inv'
<1>1. /\ hold' = IF at + d > hold THEN at + d ELSE hold
      /\ UNCHANGED <<now, log, used, spent, stray>> /\ wt' = wt
  BY DEF PauseFor
<1>2. d \in Nat /\ at \in Nat /\ hold \in Nat
  BY Inputs, InvFacts, ReadingIs
<1>3. hold' \in Nat
  BY <1>1, <1>2
<1>4. wt' \in [Waiters -> Records] /\ \A i \in Times : Owing(wt', i) <= spent[i]
  BY <1>1, SameWaiters
<1> QED BY <1>1, <1>3, <1>4, QuietStep, Zenon

LEMMA ResumeStep ==
  ASSUME Inv, Resume
  PROVE  Inv'
<1>1. /\ hold' = 0 /\ UNCHANGED <<now, log, used, spent, stray>>
      /\ wt' = [x \in Waiters |-> IF wt[x].lis THEN [wt[x] EXCEPT !.until = now, !.lis = FALSE]
                                              ELSE wt[x]]
  BY DEF Resume
<1>2. /\ wt \in [Waiters -> Records] /\ now \in Nat /\ now \in 0..Forever
      /\ \A i \in Times : Owing(wt, i) <= spent[i]
  <2>1. wt \in [Waiters -> Records] /\ now \in Nat /\ now \in Times
    BY InvFacts
  <2>2. now \in 0..Forever
    BY <2>1, Constant DEF Times
  <2> QED BY <2>1, <2>2, BookedIs
<1> DEFINE v == wt'
<1>3. ASSUME NEW x \in Waiters
      PROVE  /\ v[x] \in Records
             /\ v[x].pc = wt[x].pc /\ v[x].cost = wt[x].cost /\ v[x].got = wt[x].got
  <2>1. wt[x] \in Records
    BY <1>2
  <2>2. CASE wt[x].lis
    <3>1. v[x] = [wt[x] EXCEPT !.until = now, !.lis = FALSE]
      BY <1>1, <2>2
    <3> HIDE DEF v
    <3> QED BY <1>2, <2>1, <3>1 DEF Records
  <2>3. CASE ~wt[x].lis
    <3>1. v[x] = wt[x]
      BY <1>1, <2>3
    <3> HIDE DEF v
    <3> QED BY <2>1, <3>1
  <2> QED BY <2>2, <2>3
<1>4. v \in [Waiters -> Records]
  <2>1. DOMAIN v = Waiters /\ v = [x \in Waiters |-> v[x]]
    BY <1>1
  <2> HIDE DEF v
  <2> QED BY <1>3, <2>1
<1> HIDE DEF v
<1>5. ASSUME NEW i \in Times PROVE Owing(v, i) = Owing(wt, i)
  <2>1. \A y \in Waiters : Term(v, y, i) = Term(wt, y, i)
    BY <1>3 DEF Term
  <2> QED BY <2>1, OwingSame
<1>6. wt' \in [Waiters -> Records] /\ \A i \in Times : Owing(wt', i) <= spent[i]
  BY <1>2, <1>4, <1>5 DEF v
<1>7. hold' \in Nat
  BY <1>1
<1> QED BY <1>1, <1>6, <1>7, QuietStep, Zenon

LEMMA AcquireStep ==
  ASSUME Inv, NEW x \in Waiters, NEW cost \in Costs, NEW timeout \in Timeouts,
         Acquire(x, cost, timeout)
  PROVE  Inv'
<1> DEFINE r == [pc |-> "ask", cost |-> cost, dl |-> Until(timeout),
                 until |-> now, lis |-> FALSE, got |-> 0]
<1>1. UNCHANGED <<now, log, used, spent, stray>> /\ hold' = hold /\ wt' = [wt EXCEPT ![x] = r]
  BY DEF Acquire
<1>2. now \in Nat /\ now \in Times /\ hold \in Nat /\ timeout \in Nat
  BY InvFacts, Inputs
<1>3. Until(timeout) \in 0..Forever
  BY <1>2, UntilType
<1>4. now \in 0..Forever /\ 0 \in Times
  BY <1>2, Constant DEF Times
<1>5. r \in Records /\ r.pc # "granted"
  BY <1>3, <1>4 DEF Records
<1> HIDE DEF r
<1>6. wt' \in [Waiters -> Records] /\ \A i \in Times : Owing(wt', i) <= spent[i]
  BY <1>1, <1>5, OneWaiter, ZenonT(30)
<1>7. hold' \in Nat
  BY <1>1, <1>2
<1> QED BY <1>1, <1>6, <1>7, QuietStep, Zenon

(* A waiter that is granted: what it holds is what the clock's instant is  *)
(* booked with.                                                            *)
LEMMA GrantedStep ==
  ASSUME Inv, NEW x \in Waiters, NEW at \in Readings, wt[x].pc = "ask",
         ~Free(wt[x].cost), Fits(wt[x].cost, at), Push(wt[x].cost, at),
         wt' = [wt EXCEPT ![x].pc = "granted", ![x].got = now],
         spent' = [spent EXCEPT ![now] = @ + wt[x].cost],
         UNCHANGED <<now, hold, stray>>
  PROVE  Inv'
<1> DEFINE cost == wt[x].cost
           v == wt'
<1>1. /\ wt \in [Waiters -> Records] /\ spent \in [Times -> Nat] /\ now \in Times
      /\ hold \in Nat /\ stray \in BOOLEAN
  BY InvFacts
<1>2. cost \in Nat /\ cost > 0
  <2>1. cost \in Nat
    BY <1>1, TermType
  <2> QED BY <2>1, CostIs
<1>3. /\ v \in [Waiters -> Records] /\ \A y \in Waiters : y # x => v[y] = wt[y]
      /\ v[x].pc = "granted" /\ v[x].got = now /\ v[x].cost = cost
  <2> DEFINE r == [wt[x] EXCEPT !.pc = "granted", !.got = now]
  <2>1. wt' = [wt EXCEPT ![x] = r]
    BY <1>1
  <2>2. r \in Records /\ r.pc = "granted" /\ r.got = now /\ r.cost = cost
    BY <1>1 DEF Records
  <2> HIDE DEF r
  <2> QED BY <1>1, <2>1, <2>2
<1>4. GoodLog(log') /\ used' = Units(log') /\ used' \in Nat
  BY <1>2, PushStep
<1>5. spent' \in [Times -> Nat] /\ (~stray' => Remembered' /\ WindowBound')
  <2>1. now' = now /\ stray' = stray
    OBVIOUS
  <2> QED BY <1>2, <2>1, GrantBound, Zenon
<1>6. ASSUME NEW i \in Times PROVE Owing(v, i) <= spent'[i]
  <2>1. Term(wt, x, i) = 0
    BY DEF Term
  <2>2. Term(v, x, i) = IF i = now THEN cost ELSE 0
    BY <1>3 DEF Term
  <2>3. spent'[i] = IF i = now THEN spent[i] + cost ELSE spent[i]
    BY <1>1
  <2>4. Owing(wt, i) <= spent[i] /\ spent[i] \in Nat
    BY <1>1, BookedIs
  <2> HIDE DEF v, cost
  <2>5. /\ Owing(wt, i) \in Nat /\ Owing(v, i) \in Nat
        /\ Owing(v, i) = Owing(wt, i) - Term(wt, x, i) + Term(v, x, i)
    BY <1>1, <1>3, OwingOne, ZenonT(30)
  <2>6. CASE i = now
    <3>1. Owing(v, i) = Owing(wt, i) + cost /\ spent'[i] = spent[i] + cost
      BY <1>2, <2>1, <2>2, <2>3, <2>5, <2>6
    <3> QED BY <1>2, <2>4, <2>5, <3>1
  <2>7. CASE i # now
    <3>1. Owing(v, i) = Owing(wt, i) /\ spent'[i] = spent[i]
      BY <2>1, <2>2, <2>3, <2>5, <2>7
    <3> QED BY <2>4, <3>1
  <2> QED BY <2>6, <2>7
<1>7. now' = now /\ hold' \in Nat /\ stray' \in BOOLEAN
  BY <1>1
<1> QED BY <1>3, <1>4, <1>5, <1>6, <1>7, Assemble, Zenon DEF v

LEMMA AskStep ==
  ASSUME Inv, NEW x \in Waiters, NEW at \in Readings, Ask(x, at)
  PROVE  Inv'
<1> DEFINE cost == wt[x].cost
<1>1. wt[x].pc = "ask" /\ UNCHANGED <<now, hold, stray>>
  BY DEF Ask
<1>2. /\ wt \in [Waiters -> Records] /\ now \in Times /\ hold \in Nat /\ hold' \in Nat
  BY <1>1, InvFacts
<1>3. After(cost, at) \in Nat
  BY AfterType
<1>4. CASE Impossible(cost) /\ Leave(x) /\ UNCHANGED <<log, used, spent>>
  <2>1. UNCHANGED <<now, log, used, spent, stray>>
    BY <1>1, <1>4
  <2>2. wt' \in [Waiters -> Records] /\ \A i \in Times : Owing(wt', i) <= spent[i]
    BY <1>4, LeaveStep
  <2> QED BY <1>2, <2>1, <2>2, QuietStep, Zenon
<1>5. CASE /\ Free(cost)
           /\ wt' = [wt EXCEPT ![x].pc = "granted", ![x].got = now]
           /\ UNCHANGED <<log, used, spent>>
  <2> DEFINE r == [wt[x] EXCEPT !.pc = "granted", !.got = now]
  <2>1. wt' = [wt EXCEPT ![x] = r]
    BY <1>2, <1>5
  <2>2. r \in Records /\ r.cost = 0
    <3>1. wt[x] \in Records /\ wt[x].cost = 0
      BY <1>2, <1>5 DEF Free
    <3> QED BY <1>2, <3>1 DEF Records
  <2> HIDE DEF r
  <2>3. wt' \in [Waiters -> Records] /\ \A i \in Times : Owing(wt', i) <= spent[i]
    BY <2>1, <2>2, OneWaiter, ZenonT(30)
  <2>4. UNCHANGED <<now, log, used, spent, stray>>
    BY <1>1, <1>5
  <2> QED BY <1>2, <2>3, <2>4, QuietStep, Zenon
<1>6. CASE SleepOrTimeOut(x, After(cost, at), at) /\ UNCHANGED <<log, used, spent>>
  <2>1. wt' \in [Waiters -> Records] /\ \A i \in Times : Owing(wt', i) <= spent[i]
    BY <1>3, <1>6, SleepStep
  <2>2. UNCHANGED <<now, log, used, spent, stray>>
    BY <1>1, <1>6
  <2> QED BY <1>2, <2>1, <2>2, QuietStep, Zenon
<1>7. CASE /\ ~Free(cost) /\ Fits(cost, at) /\ Push(cost, at)
           /\ wt' = [wt EXCEPT ![x].pc = "granted", ![x].got = now]
           /\ spent' = [spent EXCEPT ![now] = @ + cost]
  BY <1>1, <1>7, GrantedStep, Zenon
<1>8. CASE Look(at) /\ SleepOrTimeOut(x, After(cost, at), at) /\ UNCHANGED spent
  <2>1. wt' \in [Waiters -> Records] /\ \A i \in Times : Owing(wt', i) <= spent[i]
    BY <1>3, <1>8, SleepStep
  <2>2. /\ GoodLog(log') /\ used' = Units(log') /\ used' \in Nat
        /\ \A d \in Nat : d >= now => Late(log', d) >= Late(log, d)
    BY <1>8, LookStep
  <2>3. UNCHANGED <<now, hold, spent, stray>>
    BY <1>1, <1>8
  <2> QED BY <2>1, <2>2, <2>3, LogStep, Zenon
<1> QED BY <1>4, <1>5, <1>6, <1>7, <1>8, Zenon DEF Ask

(* A waiter that leaves with its units given back. *)
LEMMA ReturnStep ==
  ASSUME Inv, NEW x \in Waiters, wt[x].pc = "granted", Leave(x),
         GiveBack(wt[x].cost), Unspend(wt[x].cost, wt[x].got), UNCHANGED <<now, hold>>
  PROVE  Inv'
<1> DEFINE cost == wt[x].cost
           from == wt[x].got
           v == wt'
<1>1. wt \in [Waiters -> Records] /\ spent \in [Times -> Nat] /\ hold \in Nat
  BY InvFacts
<1>2. cost \in Nat /\ from \in Times
  <2>1. cost \in Nat
    BY <1>1, TermType
  <2> QED BY <1>1, <2>1 DEF Records
<1>3. /\ v \in [Waiters -> Records] /\ v[x] = Idle /\ \A y \in Waiters : y # x => v[y] = wt[y]
  <2>1. wt' = [wt EXCEPT ![x] = Idle] /\ Idle \in Records
    BY IdleRecord DEF Leave
  <2> QED BY <1>1, <2>1
<1>4. ASSUME NEW i \in Times
      PROVE  Term(wt, x, i) = (IF i = from THEN cost ELSE 0) /\ Term(v, x, i) = 0
  BY <1>3, IdleRecord DEF Term
<1>5. \A i \in Times : Owing(wt, i) <= spent[i] /\ spent[i] \in Nat
  BY <1>1, BookedIs
<1>6. GiveBack(cost) /\ Unspend(cost, from) /\ now' = now /\ hold' = hold
  OBVIOUS
<1> HIDE DEF v, cost, from
<1>7. ASSUME NEW i \in Times
      PROVE  /\ Owing(wt, i) \in Nat /\ Owing(v, i) \in Nat
             /\ Owing(v, i) = Owing(wt, i) - Term(wt, x, i) + Term(v, x, i)
  BY <1>1, <1>3, OwingOne, ZenonT(30)
<1>8. cost <= spent[from] /\ Owing(v, from) <= spent[from] - cost
  <2>1. /\ Term(wt, x, from) = cost /\ Term(v, x, from) = 0
    BY <1>2, <1>4
  <2>2. /\ Owing(wt, from) \in Nat /\ Owing(v, from) \in Nat
        /\ Owing(v, from) = Owing(wt, from) - Term(wt, x, from) + Term(v, x, from)
    BY <1>2, <1>7
  <2>3. Owing(wt, from) <= spent[from] /\ spent[from] \in Nat
    BY <1>2, <1>5
  <2> QED BY <1>2, <2>1, <2>2, <2>3
<1>9. /\ spent' \in [Times -> Nat] /\ stray' \in BOOLEAN
      /\ spent'[from] = spent[from] - cost /\ \A i \in Times : i # from => spent'[i] = spent[i]
      /\ ~stray' => Remembered' /\ WindowBound'
  BY <1>2, <1>6, <1>8, GiveBackBound, ZenonT(30)
<1>10. GoodLog(log') /\ used' = Units(log') /\ used' \in Nat
  BY <1>2, <1>6, GiveBackStep
<1>11. ASSUME NEW i \in Times PROVE Owing(v, i) <= spent'[i]
  <2>1. CASE i = from
    BY <1>8, <1>9, <2>1
  <2>2. CASE i # from
    <3>1. Term(wt, x, i) = 0 /\ Term(v, x, i) = 0
      BY <1>4, <2>2
    <3>2. Owing(v, i) = Owing(wt, i)
      <4>1. /\ Owing(wt, i) \in Nat
            /\ Owing(v, i) = Owing(wt, i) - Term(wt, x, i) + Term(v, x, i)
        BY <1>7
      <4> QED BY <3>1, <4>1
    <3>3. spent'[i] = spent[i] /\ Owing(wt, i) <= spent[i]
      BY <1>5, <1>9, <2>2
    <3> QED BY <3>2, <3>3
  <2> QED BY <2>1, <2>2
<1>12. hold' \in Nat /\ wt' \in [Waiters -> Records] /\ \A i \in Times : Owing(wt', i) <= spent'[i]
  BY <1>1, <1>3, <1>6, <1>11 DEF v
<1> QED BY <1>6, <1>9, <1>10, <1>12, Assemble, Zenon

LEMMA ReturnsStep ==
  ASSUME Inv, NEW x \in Waiters, NEW at \in Readings, Granted(x, at)
  PROVE  Inv'
<1>1. wt[x].pc = "granted" /\ UNCHANGED <<now, hold>>
  BY DEF Granted
<1>2. hold' \in Nat
  BY <1>1, InvFacts
<1>3. Held(at) => hold - at \in Nat
  BY AfterType
<1>4. CASE Held(at) /\ hold - at > Left(x)
  <2>1. GiveBack(wt[x].cost) /\ Unspend(wt[x].cost, wt[x].got) /\ Leave(x)
    BY <1>4 DEF Granted, SleepOrTimeOut
  <2> QED BY <1>1, <2>1, ReturnStep, Zenon
<1>5. CASE ~(Held(at) /\ hold - at > Left(x))
  <2>1. UNCHANGED <<log, used, spent, stray>>
    BY <1>5 DEF Granted
  <2>2. UNCHANGED <<now, log, used, spent, stray>>
    BY <1>1, <2>1
  <2>3. wt' \in [Waiters -> Records] /\ \A i \in Times : Owing(wt', i) <= spent[i]
    <3>1. CASE Held(at)
      <4>1. SleepOrTimeOut(x, hold - at, at)
        BY <3>1 DEF Granted
      <4> QED BY <1>3, <3>1, <4>1, SleepStep
    <3>2. CASE ~Held(at)
      <4>1. Leave(x)
        BY <3>2 DEF Granted
      <4> QED BY <4>1, LeaveStep
    <3> QED BY <3>1, <3>2
  <2> QED BY <1>2, <2>2, <2>3, QuietStep, Zenon
<1> QED BY <1>4, <1>5

LEMMA CancelStep ==
  ASSUME Inv, NEW x \in Waiters, Cancel(x)
  PROVE  Inv'
<1>1. Leave(x) /\ UNCHANGED <<now, hold>>
  BY DEF Cancel
<1>2. hold' \in Nat
  BY <1>1, InvFacts
<1>3. CASE wt[x].pc = "granted"
  <2>1. GiveBack(wt[x].cost) /\ Unspend(wt[x].cost, wt[x].got)
    BY <1>3 DEF Cancel
  <2> QED BY <1>1, <1>3, <2>1, ReturnStep, Zenon
<1>4. CASE wt[x].pc # "granted"
  <2>1. UNCHANGED <<log, used, spent, stray>>
    BY <1>4 DEF Cancel
  <2>2. UNCHANGED <<now, log, used, spent, stray>>
    BY <1>1, <2>1
  <2>3. wt' \in [Waiters -> Records] /\ \A i \in Times : Owing(wt', i) <= spent[i]
    BY <1>1, LeaveStep
  <2> QED BY <1>2, <2>2, <2>3, QuietStep, Zenon
<1> QED BY <1>3, <1>4

LEMMA TickStep ==
  ASSUME Inv, Tick
  PROVE  Inv'
<1>1. now < MaxNow /\ now' = now + 1 /\ UNCHANGED <<log, used, hold, wt, spent, stray>>
  BY DEF Tick
<1>2. /\ GoodLog(log) /\ now \in Nat /\ used \in Nat /\ hold \in Nat
      /\ wt \in [Waiters -> Records] /\ spent \in [Times -> Nat] /\ stray \in BOOLEAN
      /\ UsedExact /\ Booked
  BY InvFacts
<1>3. now + 1 \in Nat /\ now <= now + 1 /\ now' \in 0..MaxNow
  BY <1>1, <1>2, Constant
<1>4. log \in Seq([at : 0..now', count : Nat \ {0}]) /\ Sorted(log)
  BY <1>1, <1>2, <1>3, LogAfter
<1>5. TypeOK'
  <2>1. /\ log' = log /\ used' = used /\ hold' = hold /\ wt' = wt /\ spent' = spent
        /\ stray' = stray
    BY <1>1
  <2> QED BY <1>2, <1>3, <1>4, <2>1, Zenon DEF TypeOK, Times, Records
<1>6. UsedExact' /\ Booked' /\ Sorted(log')
  <2>1. UsedExact'
    BY <1>1, <1>2 DEF UsedExact
  <2>2. Booked'
    BY <1>1, <1>2 DEF Booked, Costed, WaitersOf
  <2> QED BY <1>1, <1>4, <2>1, <2>2
<1>7. ASSUME ~stray' PROVE Remembered' /\ WindowBound'
  <2>1. ~stray
    BY <1>1, <1>7
  <2>2. ASSUME NEW d \in Nat, d >= now + 1 PROVE SumOver(spent, Recent(d)) <= Late(log, d)
    <3>1. d >= now
      BY <1>2, <2>2
    <3> QED BY <2>1, <3>1, Bounded
  <2>3. Remembered'
    BY <1>1, <2>2 DEF Remembered
  <2>4. WindowBound'
    BY <1>1, <2>1, Bounded DEF WindowBound, SpentFrom
  <2> QED BY <2>3, <2>4
<1> QED BY <1>5, <1>6, <1>7 DEF Inv

LEMMA InitInv == Init => Inv
<1> SUFFICES ASSUME Init PROVE Inv
  OBVIOUS
<1>1. /\ now = 0 /\ log = <<>> /\ used = 0 /\ hold = 0 /\ wt = [x \in Waiters |-> Idle]
      /\ spent = [i \in Times |-> 0] /\ stray = FALSE
  BY DEF Init, Times
<1>2. GoodLog(log) /\ now \in Nat /\ now \in Times /\ DOMAIN log = {}
  BY <1>1, Constant DEF GoodLog, Sorted, Past, Times
<1>3. wt \in [Waiters -> Records] /\ spent \in [Times -> Nat]
  BY <1>1, IdleRecord
<1>4. log \in Seq([at : 0..now, count : Nat \ {0}]) /\ Sorted(log)
  <2>1. now <= now
    BY <1>2
  <2> QED BY <1>2, <2>1, LogAfter
<1>5. TypeOK
  <2>1. used \in Nat /\ hold \in Nat /\ stray \in BOOLEAN
    BY <1>1
  <2> QED BY <1>2, <1>3, <1>4, <2>1, Zenon DEF TypeOK, Times, Records
<1>6. UsedExact
  <2>1. Total(Counts(log), {}) = 0
    BY TotalZero
  <2>2. Units(log) = Total(Counts(log), {})
    BY <1>2, SumIs DEF Units
  <2> QED BY <1>1, <2>1, <2>2 DEF UsedExact
<1>7. ASSUME NEW S, S \subseteq Times PROVE SumOver(spent, S) = 0
  <2>1. \A i \in S : spent[i] = 0
    BY <1>1, <1>7
  <2> QED BY <2>1, TotalZero, SumIs
<1>8. Booked
  <2> SUFFICES ASSUME NEW i \in Times PROVE SumOver(Costed, WaitersOf(i)) <= spent[i]
    BY DEF Booked
  <2>1. WaitersOf(i) = {}
    BY <1>1, IdleRecord DEF WaitersOf
  <2>2. Total(Costed, {}) = 0
    BY TotalZero
  <2>3. SumOver(Costed, WaitersOf(i)) = 0
    BY <2>1, <2>2, SumIs
  <2>4. spent[i] = 0
    BY <1>1
  <2> QED BY <2>3, <2>4
<1>9. Remembered
  <2> SUFFICES ASSUME NEW d \in Nat PROVE SumOver(spent, Recent(d)) <= Late(log, d)
    BY DEF Remembered
  <2>1. SumOver(spent, Recent(d)) = 0
    BY <1>7 DEF Recent
  <2>2. Late(log, d) \in Nat
    BY <1>2, LateType
  <2> QED BY <2>1, <2>2
<1>10. WindowBound
  <2> SUFFICES ASSUME NEW t \in Windows PROVE SumOver(spent, t..(t + W - MaxLag - 1)) <= Limit
    BY DEF WindowBound, SpentFrom
  <2>1. t..(t + W - MaxLag - 1) \subseteq Times
    BY WindowIs
  <2>2. SumOver(spent, t..(t + W - MaxLag - 1)) = 0
    BY <1>7, <2>1
  <2> QED BY <2>2, Constant
<1> QED BY <1>4, <1>5, <1>6, <1>8, <1>9, <1>10 DEF Inv

LEMMA NextInv == Inv /\ [Next]_vars => Inv'
<1> SUFFICES ASSUME Inv, [Next]_vars PROVE Inv'
  OBVIOUS
<1>1. ASSUME NEW cost \in Costs, NEW at \in Readings, TryAcquire(cost, at) PROVE Inv'
  BY <1>1, TryAcquireStep
<1>2. ASSUME NEW at \in Readings, Peek(at) PROVE Inv'
  BY <1>2, PeekStep
<1>3. ASSUME NEW n \in Refunds, Refund(n) PROVE Inv'
  BY <1>3, RefundStep
<1>4. ASSUME NEW n \in Charges, NEW at \in Readings, Charge(n, at) PROVE Inv'
  BY <1>4, ChargeStep
<1>5. ASSUME NEW d \in Pauses, NEW at \in Readings, PauseFor(d, at) PROVE Inv'
  BY <1>5, PauseStep
<1>6. ASSUME Resume PROVE Inv'
  BY <1>6, ResumeStep
<1>7. ASSUME NEW x \in Waiters, NEW cost \in Costs, NEW timeout \in Timeouts,
             Acquire(x, cost, timeout)
      PROVE  Inv'
  BY <1>7, AcquireStep
<1>8. ASSUME NEW x \in Waiters, NEW at \in Readings, Ask(x, at) PROVE Inv'
  BY <1>8, AskStep
<1>9. ASSUME NEW x \in Waiters, NEW at \in Readings, Granted(x, at) PROVE Inv'
  BY <1>9, ReturnsStep
<1>10. ASSUME NEW x \in Waiters, Cancel(x) PROVE Inv'
  BY <1>10, CancelStep
<1>11. ASSUME Tick PROVE Inv'
  BY <1>11, TickStep
<1>12. ASSUME UNCHANGED vars PROVE Inv'
  <2>1. UNCHANGED <<now, log, used, spent, stray>> /\ hold' = hold /\ wt' = wt
    BY <1>12 DEF vars
  <2>2. hold' \in Nat
    BY <2>1, InvFacts
  <2>3. wt' \in [Waiters -> Records] /\ \A i \in Times : Owing(wt', i) <= spent[i]
    BY <2>1, SameWaiters
  <2> QED BY <2>1, <2>2, <2>3, QuietStep, Zenon
<1> QED BY <1>1, <1>2, <1>3, <1>4, <1>5, <1>6, <1>7, <1>8, <1>9, <1>10, <1>11, <1>12 DEF Next

-----------------------------------------------------------------------------
(* The theorems. *)

(* The log is never in doubt (prune, try_acquire, refund, charge and the   *)
(* drops of granted waiters): the cached sum is the sum of the grants, and *)
(* the wait told to a refused caller (wait_for) is the first moment at     *)
(* which its cost fits if nothing else happens.                            *)
THEOREM LogStaysExact == Spec => []LogExact
<1>1. Inv => LogExact
  <2> SUFFICES ASSUME Inv PROVE LogExact
    OBVIOUS
  <2>1. TypeOK /\ UsedExact /\ Sorted(log)
    BY DEF Inv
  <2>2. WaitExact
    BY <2>1, WaitIsExact
  <2> QED BY <2>1, <2>2 DEF LogExact
<1> QED BY <1>1, InitInv, NextInv, PTL DEF Spec

(* Any window of W less the age of a reading holds at most Limit granted   *)
(* units, through pauses, charges, refunds and drops in every order, until *)
(* units are given back whose grant has left the window (refund, which     *)
(* takes from the oldest grants).                                          *)
THEOREM WindowsAreBounded == Spec => []WindowBoundUnlessStray
<1>1. Inv => WindowBoundUnlessStray
  BY Zenon DEF Inv, WindowBoundUnlessStray
<1> QED BY <1>1, InitInv, NextInv, PTL DEF Spec
=============================================================================
