------------------------------ MODULE Counting ------------------------------
(***************************************************************************)
(* What the proofs of the other modules need to know about the sizes of    *)
(* finite sets and about sums over them.  A sum of natural numbers is the  *)
(* number of units its terms stand for, so that the theorems about finite  *)
(* sets apply to it.                                                       *)
(***************************************************************************)
EXTENDS Integers, FiniteSets, Lists, FiniteSetTheorems, SequenceTheorems, TLAPS

Bit(b) == IF b THEN 1 ELSE 0

(* The units of f, one pair for each; and how many there are. *)
UnitsOf(f, D) == UNION {{x} \X (1..f[x]) : x \in D}
Total(f, D) == Cardinality(UnitsOf(f, D))

LEMMA Products ==
  ASSUME NEW a \in Nat, NEW b \in Nat
  PROVE  /\ a * b \in Nat
         /\ a * (b + 1) = a * b + a
         /\ (b + 1) * a = b * a + a
OBVIOUS

(* When at most one element comes or goes, the size follows it. *)
LEMMA OneChanged ==
  ASSUME NEW A, NEW B, NEW t, IsFiniteSet(A), A \ {t} = B \ {t}
  PROVE  /\ IsFiniteSet(B)
         /\ Cardinality(A) \in Nat /\ Cardinality(B) \in Nat
         /\ Cardinality(B) = Cardinality(A) + Bit(t \in B) - Bit(t \in A)
<1>1. Cardinality(A) \in Nat
  BY FS_CardinalityType
<1>2. CASE t \in A /\ t \in B
  <2>1. A = B
    BY <1>2
  <2> QED BY <1>1, <1>2, <2>1 DEF Bit
<1>3. CASE t \notin A /\ t \notin B
  <2>1. A = B
    BY <1>3
  <2> QED BY <1>1, <1>3, <2>1 DEF Bit
<1>4. CASE t \in A /\ t \notin B
  <2>1. B = A \ {t}
    BY <1>4
  <2>2. IsFiniteSet(B) /\ Cardinality(B) = Cardinality(A) - 1
    BY <1>4, <2>1, FS_RemoveElement
  <2>3. Cardinality(B) \in Nat
    BY <2>2, FS_CardinalityType
  <2> QED BY <1>1, <1>4, <2>2, <2>3 DEF Bit
<1>5. CASE t \notin A /\ t \in B
  <2>1. B = A \cup {t}
    BY <1>5
  <2>2. IsFiniteSet(B) /\ Cardinality(B) = Cardinality(A) + 1
    BY <1>5, <2>1, FS_AddElement
  <2> QED BY <1>1, <1>5, <2>2 DEF Bit
<1> QED BY <1>2, <1>3, <1>4, <1>5

(* The units of a function on a finite set are finitely many. *)
LEMMA UnitsFinite ==
  ASSUME NEW D, IsFiniteSet(D), NEW f, \A x \in D : f[x] \in Nat
  PROVE  IsFiniteSet(UnitsOf(f, D)) /\ Total(f, D) \in Nat
<1> DEFINE Col(x) == {x} \X (1..f[x])
           Cols == {Col(x) : x \in D}
           m == [x \in D |-> Col(x)]
<1>1. m \in Surjection(D, Cols)
  BY DEF Surjection
<1>2. IsFiniteSet(Cols)
  <2> HIDE DEF Cols, m
  <2> QED BY <1>1, FS_Surjection
<1>3. ASSUME NEW T \in Cols
      PROVE  IsFiniteSet(T)
  <2>1. PICK x \in D : T = Col(x)
    OBVIOUS
  <2>2. IsFiniteSet({x}) /\ IsFiniteSet(1..f[x])
    <3>1. f[x] \in Int
      OBVIOUS
    <3>2. IsFiniteSet({x})
      BY FS_Singleton
    <3>3. IsFiniteSet(1..f[x])
      BY <3>1, FS_Interval
    <3> QED BY <3>2, <3>3
  <2> QED BY <2>1, <2>2, FS_Product
<1>4. IsFiniteSet(UNION Cols)
  <2> HIDE DEF Cols
  <2> QED BY <1>2, <1>3, FS_UNION
<1>5. IsFiniteSet(UnitsOf(f, D))
  BY <1>4 DEF UnitsOf
<1> QED BY <1>5, FS_CardinalityType DEF Total

(* A sum in which one term changes changes by as much. *)
LEMMA TotalChanged ==
  ASSUME NEW D, IsFiniteSet(D), NEW t \in D,
         NEW f, \A x \in D : f[x] \in Nat,
         NEW g, \A x \in D : g[x] \in Nat,
         \A x \in D : x # t => g[x] = f[x]
  PROVE  /\ Total(f, D) \in Nat /\ Total(g, D) \in Nat
         /\ Total(g, D) = Total(f, D) - f[t] + g[t]
<1> DEFINE R == D \ {t}
<1>1. IsFiniteSet(R)
  BY FS_Difference
<1>2. ASSUME NEW h, \A x \in D : h[x] \in Nat
      PROVE  /\ Total(h, D) \in Nat /\ Total(h, R) \in Nat
             /\ Total(h, D) = Total(h, R) + h[t]
  <2> DEFINE U == UnitsOf(h, R)
             C == {t} \X (1..h[t])
  <2>1. UnitsOf(h, D) = U \cup C
    BY DEF UnitsOf
  <2>2. U \cap C = {}
    BY DEF UnitsOf
  <2>3. IsFiniteSet(U) /\ Total(h, R) \in Nat /\ Total(h, D) \in Nat
    BY <1>1, <1>2, UnitsFinite
  <2>4. IsFiniteSet(C) /\ Cardinality(C) = h[t]
    <3>1. h[t] \in Nat
      BY <1>2
    <3>2. IsFiniteSet({t}) /\ Cardinality({t}) = 1
      BY FS_Singleton
    <3>3. IsFiniteSet(1..h[t]) /\ Cardinality(1..h[t]) = h[t]
      <4>1. IsFiniteSet(1..h[t]) /\ Cardinality(1..h[t]) = IF 1 > h[t] THEN 0 ELSE h[t] - 1 + 1
        <5>1. ASSUME NEW n \in Nat
              PROVE  IsFiniteSet(1..n) /\ Cardinality(1..n) = IF 1 > n THEN 0 ELSE n - 1 + 1
          BY FS_Interval
        <5> QED BY <3>1, <5>1
      <4> QED BY <3>1, <4>1
    <3>4. IsFiniteSet(C) /\ Cardinality(C) = 1 * h[t]
      <4> DEFINE S == {t}
                 I == 1..h[t]
      <4> HIDE DEF S, I
      <4>1. IsFiniteSet(S \X I) /\ Cardinality(S \X I) = Cardinality(S) * Cardinality(I)
        BY <3>2, <3>3, FS_Product DEF S, I
      <4> QED BY <3>2, <3>3, <4>1 DEF S, I
    <3> QED BY <3>1, <3>4
  <2>5. Cardinality(U \cup C) = Cardinality(U) + Cardinality(C)
    <3> HIDE DEF U, C
    <3>1. Cardinality(U \cup C) = Cardinality(U) + Cardinality(C) - Cardinality({})
      BY <2>2, <2>3, <2>4, FS_Union
    <3>2. Cardinality(U) \in Nat /\ Cardinality(C) \in Nat
      BY <2>3, <2>4, FS_CardinalityType
    <3> QED BY <3>1, <3>2, FS_EmptySet
  <2> QED BY <2>1, <2>3, <2>4, <2>5 DEF Total
<1>3. UnitsOf(f, R) = UnitsOf(g, R)
  BY DEF UnitsOf
<1>4. Total(f, R) = Total(g, R)
  BY <1>3 DEF Total
<1>5. /\ Total(f, D) \in Nat /\ Total(f, R) \in Nat
      /\ Total(f, D) = Total(f, R) + f[t]
  BY <1>2
<1>6. /\ Total(g, D) \in Nat /\ Total(g, R) \in Nat
      /\ Total(g, D) = Total(g, R) + g[t]
  BY <1>2
<1>7. f[t] \in Nat /\ g[t] \in Nat
  OBVIOUS
<1> QED BY <1>4, <1>5, <1>6, <1>7

(* Larger terms make a larger sum. *)
LEMMA TotalMono ==
  ASSUME NEW D, IsFiniteSet(D), NEW f, NEW g,
         \A x \in D : f[x] \in Nat /\ g[x] \in Nat /\ f[x] <= g[x]
  PROVE  Total(f, D) \in Nat /\ Total(g, D) \in Nat /\ Total(f, D) <= Total(g, D)
<1>1. /\ IsFiniteSet(UnitsOf(g, D)) /\ Total(f, D) \in Nat /\ Total(g, D) \in Nat
  BY UnitsFinite
<1>2. UnitsOf(f, D) \subseteq UnitsOf(g, D)
  <2>1. \A x \in D : 1..f[x] \subseteq 1..g[x]
    OBVIOUS
  <2> QED BY <2>1 DEF UnitsOf
<1> QED BY <1>1, <1>2, FS_Subset DEF Total

(* Nothing sums to nothing. *)
LEMMA TotalZero ==
  ASSUME NEW D, NEW f, \A x \in D : f[x] = 0
  PROVE  Total(f, D) = 0
<1>1. UnitsOf(f, D) = {}
  BY DEF UnitsOf
<1> QED BY <1>1, FS_EmptySet DEF Total

(* A sum is the sum over its terms of either kind. *)
LEMMA TotalSplit ==
  ASSUME NEW D, IsFiniteSet(D), NEW f, NEW g, NEW h, \A x \in D : f[x] \in Nat,
         \A x \in D : \/ g[x] = f[x] /\ h[x] = 0
                      \/ g[x] = 0 /\ h[x] = f[x]
  PROVE  /\ Total(g, D) \in Nat /\ Total(h, D) \in Nat
         /\ Total(f, D) = Total(g, D) + Total(h, D)
<1> DEFINE G == UnitsOf(g, D)
           H == UnitsOf(h, D)
<1>1. \A x \in D : g[x] \in Nat /\ h[x] \in Nat
  OBVIOUS
<1>2. IsFiniteSet(G) /\ IsFiniteSet(H) /\ Total(g, D) \in Nat /\ Total(h, D) \in Nat
  BY <1>1, UnitsFinite
<1>3. \A x \in D : \/ 1..g[x] = 1..f[x] /\ 1..h[x] = {}
                   \/ 1..g[x] = {} /\ 1..h[x] = 1..f[x]
  OBVIOUS
<1>4. UnitsOf(f, D) = G \cup H
  BY <1>3 DEF UnitsOf
<1>5. G \cap H = {}
  BY <1>3 DEF UnitsOf
<1>6. Cardinality(G \cup H) = Cardinality(G) + Cardinality(H)
  <2> HIDE DEF G, H
  <2>1. Cardinality(G \cup H) = Cardinality(G) + Cardinality(H) - Cardinality({})
    BY <1>2, <1>5, FS_Union
  <2>2. Cardinality(G) \in Nat /\ Cardinality(H) \in Nat
    BY <1>2, FS_CardinalityType
  <2> QED BY <2>1, <2>2, FS_EmptySet
<1> QED BY <1>2, <1>4, <1>6 DEF Total

(* A sum over a part, as a sum over the whole in which the rest is zero. *)
LEMMA TotalPart ==
  ASSUME NEW D, NEW S, S \subseteq D, NEW f
  PROVE  Total(f, S) = Total([x \in D |-> IF x \in S THEN f[x] ELSE 0], D)
<1> DEFINE g == [x \in D |-> IF x \in S THEN f[x] ELSE 0]
<1>1. /\ \A x \in S : g[x] = f[x]
      /\ \A x \in D : x \notin S => 1..g[x] = {}
  OBVIOUS
<1> HIDE DEF g
<1>2. UnitsOf(f, S) = UnitsOf(g, D)
  BY <1>1 DEF UnitsOf
<1> QED BY <1>2 DEF Total, g

(* A sum over two parts that share nothing. *)
LEMMA TotalUnion ==
  ASSUME NEW S, NEW T, IsFiniteSet(S), IsFiniteSet(T), S \cap T = {},
         NEW f, \A x \in S \cup T : f[x] \in Nat
  PROVE  /\ Total(f, S) \in Nat /\ Total(f, T) \in Nat /\ Total(f, S \cup T) \in Nat
         /\ Total(f, S \cup T) = Total(f, S) + Total(f, T)
<1> DEFINE G == UnitsOf(f, S)
           H == UnitsOf(f, T)
<1>1. IsFiniteSet(G) /\ IsFiniteSet(H) /\ Total(f, S) \in Nat /\ Total(f, T) \in Nat
  BY UnitsFinite
<1>2. UnitsOf(f, S \cup T) = G \cup H
  BY DEF UnitsOf
<1>3. G \cap H = {}
  BY DEF UnitsOf
<1>4. Cardinality(G \cup H) = Cardinality(G) + Cardinality(H)
  <2> HIDE DEF G, H
  <2>1. Cardinality(G \cup H) = Cardinality(G) + Cardinality(H) - Cardinality({})
    BY <1>1, <1>3, FS_Union
  <2>2. Cardinality(G) \in Nat /\ Cardinality(H) \in Nat
    BY <1>1, FS_CardinalityType
  <2> QED BY <2>1, <2>2, FS_EmptySet
<1>5. Total(f, S \cup T) = Total(f, S) + Total(f, T)
  BY <1>2, <1>4 DEF Total
<1> QED BY <1>1, <1>5

(* A sum over one. *)
LEMMA TotalOne ==
  ASSUME NEW x, NEW f, f[x] \in Nat
  PROVE  Total(f, {x}) = f[x]
<1> DEFINE g == [y \in {x} |-> 0]
<1>1. IsFiniteSet({x})
  BY FS_Singleton
<1>2. Total(g, {x}) = 0
  BY TotalZero
<1>3. /\ \A y \in {x} : f[y] \in Nat
      /\ \A y \in {x} : g[y] \in Nat
      /\ \A y \in {x} : y # x => f[y] = g[y]
      /\ x \in {x} /\ g[x] = 0
  OBVIOUS
<1> HIDE DEF g
<1>4. Total(f, {x}) = Total(g, {x}) - g[x] + f[x]
  BY <1>1, <1>3, TotalChanged, ZenonT(30)
<1> QED BY <1>2, <1>3, <1>4

(* Equal terms make equal sums. *)
LEMMA TotalSame ==
  ASSUME NEW S, NEW f, NEW g, \A x \in S : f[x] = g[x]
  PROVE  Total(f, S) = Total(g, S)
<1>1. UnitsOf(f, S) = UnitsOf(g, S)
  BY DEF UnitsOf
<1> QED BY <1>1 DEF Total

(* A sum over numbers that are moved up by k. *)
Shift(S, k) == {i + k : i \in S}

LEMMA TotalShift ==
  ASSUME NEW S, S \subseteq Nat, IsFiniteSet(S), NEW k \in Nat, NEW f, NEW h,
         \A i \in S : f[i] \in Nat /\ h[i + k] = f[i]
  PROVE  Total(f, S) = Total(h, Shift(S, k))
<1> DEFINE T == {i + k : i \in S}
           A == UnitsOf(f, S)
           B == UnitsOf(h, T)
           b == [p \in A |-> <<p[1] + k, p[2]>>]
<1>1. /\ \A p : p \in A <=> \E i \in S : \E j \in 1..f[i] : p = <<i, j>>
      /\ \A p : p \in B <=> \E i \in S : \E j \in 1..f[i] : p = <<i + k, j>>
  <2>1. \A p : p \in A <=> \E i \in S : \E j \in 1..f[i] : p = <<i, j>>
    BY DEF UnitsOf
  <2>2. \A p : p \in B <=> \E i \in T : \E j \in 1..h[i] : p = <<i, j>>
    BY DEF UnitsOf
  <2> QED BY <2>1, <2>2
<1>2. IsFiniteSet(A)
  BY UnitsFinite
<1> HIDE DEF A, B
<1>3. b \in Injection(A, B)
  <2>1. \A p \in A : b[p] \in B
    BY <1>1
  <2>2. \A p, r \in A : b[p] = b[r] => p = r
    BY <1>1
  <2> HIDE DEF b
  <2>3. DOMAIN b = A /\ b = [p \in A |-> b[p]]
    BY DEF b
  <2> QED BY <2>1, <2>2, <2>3 DEF Injection, IsInjective
<1>4. b \in Surjection(A, B)
  <2>1. ASSUME NEW r \in B
        PROVE  \E p \in A : b[p] = r
    <3>1. PICK i \in S : \E j \in 1..f[i] : r = <<i + k, j>>
      BY <1>1
    <3>2. PICK j \in 1..f[i] : r = <<i + k, j>>
      BY <3>1
    <3>3. <<i, j>> \in A
      BY <1>1
    <3> QED BY <3>2, <3>3
  <2>2. b \in [A -> B]
    BY <1>3 DEF Injection
  <2> HIDE DEF b
  <2> QED BY <2>1, <2>2 DEF Surjection
<1>5. ExistsBijection(A, B)
  BY <1>3, <1>4 DEF ExistsBijection, Bijection
<1>6. Cardinality(B) = Cardinality(A)
  BY <1>2, <1>5, FS_Bijection
<1> QED BY <1>6 DEF Total, A, B, Shift

(* A set of natural numbers has a least one. *)
LEMMA LeastNumber ==
  ASSUME NEW S, S \subseteq Nat, S # {}
  PROVE  \E m \in S : \A i \in S : m <= i
<1>1. \E m \in S : \A i \in S : <<i, m>> \notin OpToRel(<, Nat)
  BY NatLessThanWellFounded, WFMin, Zenon
<1>2. \E m \in S : \A i \in S : ~(i < m)
  BY <1>1, Zenon DEF OpToRel
<1> QED BY <1>2

(* A set of numbers that has all those below each of its own is an         *)
(* interval, and its size is its last number.                              *)
LEMMA Prefix ==
  ASSUME NEW n \in Nat, NEW D, D \subseteq 1..n,
         \A i \in D : \A j \in 1..i : j \in D
  PROVE  Cardinality(D) \in 0..n /\ D = 1..Cardinality(D)
<1> DEFINE C == (1..(n + 1)) \ D
<1>1. C \subseteq Nat /\ C # {}
  <2>1. n + 1 \in C
    OBVIOUS
  <2> QED BY <2>1
<1>2. PICK m \in C : \A i \in C : m <= i
  <2> HIDE DEF C
  <2> QED BY <1>1, LeastNumber
<1>3. m \in 1..(n + 1) /\ m \notin D
  OBVIOUS
<1>4. D = 1..(m - 1)
  <2>1. ASSUME NEW i \in 1..(m - 1) PROVE i \in D
    BY <1>2, <1>3
  <2>2. ASSUME NEW i \in D PROVE i \in 1..(m - 1)
    <3>1. i \in 1..n
      OBVIOUS
    <3>2. ~(m <= i)
      BY <1>3, <3>1
    <3> QED BY <1>3, <3>1, <3>2
  <2> QED BY <2>1, <2>2
<1>5. Cardinality(1..(m - 1)) = m - 1
  <2>1. ASSUME NEW k \in Nat PROVE Cardinality(1..k) = k
    <3>1. Cardinality(1..k) = IF 1 > k THEN 0 ELSE k - 1 + 1
      BY FS_Interval
    <3> QED BY <3>1
  <2>2. m - 1 \in Nat
    BY <1>3
  <2> QED BY <2>1, <2>2
<1> QED BY <1>3, <1>4, <1>5

(* Those that CHOOSE picks. *)
LEMMA MinMember ==
  ASSUME NEW S, S \subseteq Nat, S # {}, NEW x, x = CHOOSE i \in S : \A j \in S : i <= j
  PROVE  x \in S
<1>1. \E m \in S : \A i \in S : m <= i
  BY LeastNumber
<1> QED BY <1>1, Zenon

LEMMA LastMember ==
  ASSUME NEW n \in Nat, NEW S, S \subseteq 0..n, S # {},
         NEW x, x = CHOOSE i \in S : \A j \in S : j <= i
  PROVE  x \in S
<1> DEFINE T == {n - i : i \in S}
<1>1. T \subseteq Nat /\ T # {}
  <2>1. \A i \in S : n - i \in Nat
    OBVIOUS
  <2> QED BY <2>1
<1>2. PICK m \in T : \A i \in T : m <= i
  <2> HIDE DEF T
  <2> QED BY <1>1, LeastNumber
<1>3. PICK y \in S : m = n - y
  OBVIOUS
<1>4. \A z \in S : z <= y
  <2> SUFFICES ASSUME NEW z \in S PROVE z <= y
    OBVIOUS
  <2>1. n - z \in T
    OBVIOUS
  <2>2. n - y <= n - z
    <3> HIDE DEF T
    <3> QED BY <1>2, <1>3, <2>1
  <2>3. y \in 0..n /\ z \in 0..n
    OBVIOUS
  <2> QED BY <2>2, <2>3
<1> QED BY <1>4, Zenon

(* Among finitely many positions one has the least value, one the greatest. *)
LEMMA Extremes ==
  ASSUME NEW n \in Nat, NEW S, S \subseteq 1..n, S # {}, NEW f, \A i \in S : f[i] \in Nat
  PROVE  /\ \E i \in S : \A j \in S : f[i] <= f[j]
         /\ \E i \in S : \A j \in S : f[j] <= f[i]
<1> DEFINE T == {f[i] : i \in S}
<1>1. T \subseteq Nat /\ T # {}
  OBVIOUS
<1>2. \E m \in T : \A i \in T : m <= i
  <2> HIDE DEF T
  <2> QED BY <1>1, LeastNumber
<1>3. \E i \in S : \A j \in S : f[i] <= f[j]
  BY <1>2
<1>4. \E i \in S : \A j \in S : f[j] <= f[i]
  <2> DEFINE U == {b \in Nat : \A i \in S : f[i] <= b}
  <2>1. U \subseteq Nat
    OBVIOUS
  <2>2. U # {}
    <3> DEFINE bound(m) == \E b \in Nat : \A i \in S : i <= m => f[i] <= b
               bad == {m \in 0..n : ~bound(m)}
    <3>1. bound(0)
      <4>1. \A i \in S : i <= 0 => f[i] <= 0
        OBVIOUS
      <4> QED BY <4>1
    <3>2. ASSUME NEW m \in 1..n, bound(m - 1) PROVE bound(m)
      <4>1. PICK b \in Nat : \A i \in S : i <= m - 1 => f[i] <= b
        BY <3>2
      <4>2. CASE m \in S
        <5>1. b + f[m] \in Nat /\ b <= b + f[m] /\ f[m] <= b + f[m]
          BY <4>2
        <5>2. ASSUME NEW i \in S, i <= m PROVE f[i] <= b + f[m]
          <6>1. i <= m - 1 \/ i = m
            BY <5>2
          <6>2. CASE i <= m - 1
            BY <4>1, <4>2, <6>2
          <6> QED BY <5>1, <6>1, <6>2
        <5> QED BY <5>1, <5>2
      <4>3. CASE m \notin S
        <5>1. \A i \in S : i <= m => i <= m - 1
          BY <4>3
        <5> QED BY <4>1, <5>1
      <4> QED BY <4>2, <4>3
    <3> HIDE DEF bound
    <3>3. bad = {}
      <4> SUFFICES ASSUME bad # {} PROVE FALSE
        OBVIOUS
      <4>1. bad \subseteq Nat
        OBVIOUS
      <4>2. PICK m \in bad : \A i \in bad : m <= i
        <5> HIDE DEF bad
        <5> QED BY <4>1, LeastNumber
      <4>3. m \in 1..n /\ m - 1 \in 0..n
        BY <3>1
      <4>4. m - 1 \notin bad
        <5> HIDE DEF bad
        <5> QED BY <4>2, <4>3
      <4> QED BY <3>2, <4>3, <4>4
    <3>4. bound(n)
      <4>1. n \in 0..n
        OBVIOUS
      <4> QED BY <3>3, <4>1
    <3>5. PICK b \in Nat : \A i \in S : i <= n => f[i] <= b
      BY <3>4 DEF bound
    <3>6. \A i \in S : f[i] <= b
      BY <3>5
    <3> QED BY <3>6
  <2>3. PICK b \in U : \A c \in U : b <= c
    <3> HIDE DEF U
    <3> QED BY <2>1, <2>2, LeastNumber
  <2>4. PICK i \in S : f[i] = b
    <3>1. b \in Nat /\ \A i \in S : f[i] <= b
      OBVIOUS
    <3>2. CASE b = 0
      <4>1. PICK i \in S : TRUE
        OBVIOUS
      <4>2. f[i] \in Nat /\ f[i] <= 0
        BY <3>1, <3>2
      <4> QED BY <3>2, <4>2
    <3>3. CASE b # 0
      <4>1. b - 1 \in Nat /\ ~(b <= b - 1)
        BY <3>1, <3>3
      <4>2. b - 1 \notin U
        <5> HIDE DEF U
        <5> QED BY <2>3, <4>1
      <4>3. PICK i \in S : ~(f[i] <= b - 1)
        BY <4>1, <4>2
      <4> QED BY <3>1, <4>3
    <3> QED BY <3>2, <3>3
  <2> QED BY <2>4
<1> QED BY <1>3, <1>4

-----------------------------------------------------------------------------
(* Sequences. *)

(* What is in a sequence, by position. *)
LEMMA Members ==
  ASSUME NEW A, NEW s \in Seq(A), NEW x
  PROVE  /\ x \in ToSet(s) <=> \E i \in 1..Len(s) : x = s[i]
         /\ x \in ToSet(s) => x \in A
<1>1. DOMAIN s = 1..Len(s)
  OBVIOUS
<1> QED BY <1>1 DEF ToSet

LEMMA Distinct ==
  ASSUME NEW A, NEW s \in Seq(A)
  PROVE  IsInjective(s) <=> \A i, j \in 1..Len(s) : s[i] = s[j] => i = j
<1>1. DOMAIN s = 1..Len(s)
  OBVIOUS
<1> QED BY <1>1, Zenon DEF IsInjective

(* Appending. *)
LEMMA Appended ==
  ASSUME NEW A, NEW s \in Seq(A), NEW e \in A
  PROVE  /\ Append(s, e) \in Seq(A)
         /\ Len(Append(s, e)) = Len(s) + 1
         /\ ToSet(Append(s, e)) = ToSet(s) \cup {e}
         /\ IsInjective(s) /\ e \notin ToSet(s) => IsInjective(Append(s, e))
<1> DEFINE a == Append(s, e)
<1>1. a \in Seq(A) /\ Len(a) = Len(s) + 1 /\ Len(s) \in Nat
  OBVIOUS
<1>2. \A i \in 1..Len(s) : a[i] = s[i]
  OBVIOUS
<1>3. a[Len(s) + 1] = e
  OBVIOUS
<1> HIDE DEF a
<1>4. ASSUME NEW x PROVE x \in ToSet(a) <=> x \in ToSet(s) \cup {e}
  <2>1. x \in ToSet(a) <=> \E i \in 1..Len(a) : x = a[i]
    BY <1>1, Members
  <2>2. x \in ToSet(s) <=> \E i \in 1..Len(s) : x = s[i]
    BY Members
  <2> QED BY <1>1, <1>2, <1>3, <2>1, <2>2
<1>5. ASSUME IsInjective(s), e \notin ToSet(s) PROVE IsInjective(a)
  <2>1. \A i, j \in 1..Len(s) : s[i] = s[j] => i = j
    BY <1>5, Distinct
  <2>2. \A i \in 1..Len(s) : s[i] # e
    BY <1>5, Members
  <2>3. \A i, j \in 1..Len(a) : a[i] = a[j] => i = j
    BY <1>1, <1>2, <1>3, <2>1, <2>2
  <2> QED BY <1>1, <2>3, Distinct
<1> QED BY <1>1, <1>4, <1>5 DEF a

(* Filtered follows its recursion: a function that does exists, built up from  *)
(* the shorter ones.                                                       *)
Filters(s, S, g, n) ==
  /\ g = [i \in 0..n |-> g[i]]
  /\ g[0] = <<>>
  /\ \A i \in 1..n : g[i] = IF s[i] \in S THEN Append(g[i - 1], s[i]) ELSE g[i - 1]

LEMMA FilteredExists ==
  ASSUME NEW A, NEW s \in Seq(A), NEW S, NEW n \in 0..Len(s)
  PROVE  \E g : Filters(s, S, g, n)
<1> DEFINE bad == {m \in 0..Len(s) : ~\E g : Filters(s, S, g, m)}
<1>1. SUFFICES ASSUME bad # {} PROVE FALSE
  OBVIOUS
<1>2. bad \subseteq Nat
  OBVIOUS
<1>3. PICK m \in bad : \A i \in bad : m <= i
  <2> HIDE DEF bad
  <2> QED BY <1>1, <1>2, LeastNumber
<1>4. m \in 0..Len(s) /\ ~\E g : Filters(s, S, g, m)
  OBVIOUS
<1>5. CASE m = 0
  <2> DEFINE g == [i \in 0..0 |-> <<>>]
  <2>1. Filters(s, S, g, 0)
    BY DEF Filters
  <2> QED BY <1>4, <1>5, <2>1
<1>6. CASE m # 0
  <2>1. m - 1 \in 0..Len(s) /\ m - 1 \notin bad
    <3> HIDE DEF bad
    <3> QED BY <1>3, <1>4, <1>6
  <2>2. PICK g : Filters(s, S, g, m - 1)
    BY <2>1
  <2> DEFINE h == [i \in 0..m |-> IF i < m THEN g[i]
                                  ELSE IF s[m] \in S THEN Append(g[m - 1], s[m]) ELSE g[m - 1]]
  <2>3. h = [i \in 0..m |-> h[i]] /\ h[0] = <<>>
    BY <1>4, <1>6, <2>2 DEF Filters
  <2>4. ASSUME NEW i \in 1..m
        PROVE  h[i] = IF s[i] \in S THEN Append(h[i - 1], s[i]) ELSE h[i - 1]
    <3>1. h[i - 1] = g[i - 1]
      BY <1>4, <1>6
    <3>2. CASE i < m
      <4>1. h[i] = g[i] /\ i \in 1..(m - 1)
        BY <1>4, <3>2
      <4>2. g[i] = IF s[i] \in S THEN Append(g[i - 1], s[i]) ELSE g[i - 1]
        BY <2>2, <4>1 DEF Filters
      <4> HIDE DEF h
      <4> QED BY <3>1, <4>1, <4>2
    <3>3. CASE i = m
      BY <1>4, <3>1, <3>3
    <3> QED BY <1>4, <3>2, <3>3
  <2>5. Filters(s, S, h, m)
    <3> HIDE DEF h
    <3> QED BY <2>3, <2>4 DEF Filters
  <2> QED BY <1>4, <2>5
<1> QED BY <1>5, <1>6

LEMMA FilteredKeeps ==
  ASSUME NEW A, NEW s \in Seq(A), NEW S
  PROVE  Filters(s, S, Filtered(s, S), Len(s))
<1> DEFINE F(f) == [n \in 0..Len(s) |->
                      IF n = 0 THEN <<>>
                      ELSE IF s[n] \in S THEN Append(f[n - 1], s[n]) ELSE f[n - 1]]
<1>1. Len(s) \in 0..Len(s)
  OBVIOUS
<1>2. PICK g : Filters(s, S, g, Len(s))
  BY <1>1, FilteredExists
<1>3. g = F(g)
  <2>1. g = [n \in 0..Len(s) |-> g[n]]
    BY <1>2 DEF Filters
  <2>2. \A n \in 0..Len(s) : g[n] = F(g)[n]
    BY <1>2 DEF Filters
  <2>3. F(g) = [n \in 0..Len(s) |-> F(g)[n]]
    OBVIOUS
  <2> HIDE DEF F
  <2> QED BY <2>1, <2>2, <2>3
<1>4. Filtered(s, S) = CHOOSE f : f = F(f)
  BY DEF Filtered
<1>5. Filtered(s, S) = F(Filtered(s, S))
  <2> HIDE DEF F
  <2> QED BY <1>3, <1>4
<1> DEFINE k == Filtered(s, S)
<1>6. k = F(k)
  BY <1>5
<1> HIDE DEF k
<1>7. k = [i \in 0..Len(s) |-> k[i]] /\ k[0] = <<>>
  BY <1>1, <1>6
<1>8. ASSUME NEW i \in 1..Len(s)
      PROVE  k[i] = IF s[i] \in S THEN Append(k[i - 1], s[i]) ELSE k[i - 1]
  <2>1. F(k)[i] = IF s[i] \in S THEN Append(k[i - 1], s[i]) ELSE k[i - 1]
    OBVIOUS
  <2> HIDE DEF F
  <2> QED BY <1>6, <2>1
<1>9. Filters(s, S, k, Len(s))
  BY <1>7, <1>8 DEF Filters
<1> QED BY <1>9 DEF k


(* What the filter is after n elements. *)
FiltersUpTo(A, s, S, k, n) ==
  /\ k \in Seq(A)
  /\ Len(k) <= n
  /\ (\E i \in 1..n : s[i] \notin S) => Len(k) < n
  /\ ToSet(k) = {s[i] : i \in {i \in 1..n : s[i] \in S}}
  /\ IsInjective(s) => IsInjective(k)

LEMMA FilteredStep ==
  ASSUME NEW A, NEW s \in Seq(A), NEW S, NEW k, NEW n \in 1..Len(s),
         FiltersUpTo(A, s, S, k, n - 1)
  PROVE  FiltersUpTo(A, s, S, IF s[n] \in S THEN Append(k, s[n]) ELSE k, n)
<1>1. k \in Seq(A) /\ Len(k) <= n - 1 /\ Len(k) \in Nat /\ s[n] \in A /\ n \in Nat
  BY DEF FiltersUpTo
<1>2. (\E i \in 1..(n - 1) : s[i] \notin S) => Len(k) < n - 1
  BY DEF FiltersUpTo
<1>3. ToSet(k) = {s[i] : i \in {i \in 1..(n - 1) : s[i] \in S}}
  BY DEF FiltersUpTo
<1>4. IsInjective(s) => IsInjective(k)
  BY DEF FiltersUpTo
<1>5. CASE s[n] \in S
  <2> DEFINE a == Append(k, s[n])
  <2>1. /\ a \in Seq(A) /\ Len(a) = Len(k) + 1 /\ ToSet(a) = ToSet(k) \cup {s[n]}
        /\ IsInjective(k) /\ s[n] \notin ToSet(k) => IsInjective(a)
    BY <1>1, Appended
  <2> HIDE DEF a
  <2>2. Len(a) <= n
    BY <1>1, <2>1
  <2>3. ASSUME \E i \in 1..n : s[i] \notin S PROVE Len(a) < n
    <3>1. \E i \in 1..(n - 1) : s[i] \notin S
      BY <1>1, <1>5, <2>3
    <3> QED BY <1>1, <1>2, <2>1, <3>1
  <2>4. ToSet(a) = {s[i] : i \in {i \in 1..n : s[i] \in S}}
    <3>1. {i \in 1..n : s[i] \in S} = {i \in 1..(n - 1) : s[i] \in S} \cup {n}
      BY <1>1, <1>5
    <3> QED BY <1>3, <2>1, <3>1
  <2>5. ASSUME IsInjective(s) PROVE IsInjective(a)
    <3>1. \A i, j \in 1..Len(s) : s[i] = s[j] => i = j
      BY <2>5, Distinct
    <3>2. s[n] \notin ToSet(k)
      BY <1>1, <1>3, <3>1
    <3> QED BY <1>4, <2>1, <2>5, <3>2
  <2> QED BY <1>5, <2>1, <2>2, <2>3, <2>4, <2>5 DEF FiltersUpTo, a
<1>6. CASE s[n] \notin S
  <2>1. {i \in 1..n : s[i] \in S} = {i \in 1..(n - 1) : s[i] \in S}
    BY <1>1, <1>6
  <2> QED BY <1>1, <1>2, <1>3, <1>4, <1>6, <2>1 DEF FiltersUpTo
<1> QED BY <1>5, <1>6

(* What Keep returns. *)
LEMMA KeepFacts ==
  ASSUME NEW A, NEW s \in Seq(A), NEW S
  PROVE  /\ Keep(s, S) \in Seq(A)
         /\ Len(Keep(s, S)) <= Len(s)
         /\ (\E x \in ToSet(s) : x \notin S) => Len(Keep(s, S)) < Len(s)
         /\ ToSet(Keep(s, S)) = ToSet(s) \cap S
         /\ IsInjective(s) => IsInjective(Keep(s, S))
<1> DEFINE k == Filtered(s, S)
           good(n) == FiltersUpTo(A, s, S, k[n], n)
           bad == {m \in 0..Len(s) : ~good(m)}
<1>1. Filters(s, S, k, Len(s))
  BY FilteredKeeps
<1> HIDE DEF k
<1>2. good(0)
  <2>1. k[0] = <<>>
    BY <1>1 DEF Filters
  <2>2. <<>> \in Seq(A) /\ Len(<<>>) = 0 /\ ToSet(<<>>) = {} /\ IsInjective(<<>>)
    BY DEF ToSet, IsInjective
  <2>3. {i \in 1..0 : s[i] \in S} = {} /\ 1..0 = {}
    OBVIOUS
  <2> QED BY <2>1, <2>2, <2>3 DEF FiltersUpTo
<1>3. ASSUME NEW n \in 1..Len(s), good(n - 1) PROVE good(n)
  <2>1. k[n] = IF s[n] \in S THEN Append(k[n - 1], s[n]) ELSE k[n - 1]
    BY <1>1 DEF Filters
  <2> QED BY <1>3, <2>1, FilteredStep
<1> HIDE DEF good
<1>4. bad \subseteq Nat
  OBVIOUS
<1>5. bad = {}
  <2> SUFFICES ASSUME bad # {} PROVE FALSE
    OBVIOUS
  <2>1. PICK m \in bad : \A i \in bad : m <= i
    <3> HIDE DEF bad
    <3> QED BY <1>4, LeastNumber
  <2>2. m \in 1..Len(s) /\ m - 1 \in 0..Len(s)
    BY <1>2
  <2>3. m - 1 \notin bad
    <3> HIDE DEF bad
    <3> QED BY <2>1, <2>2
  <2> QED BY <1>3, <2>2, <2>3
<1>6. good(Len(s))
  BY <1>5
<1>7. k[Len(s)] = Keep(s, S)
  BY DEF Keep, k
<1> DEFINE e == Keep(s, S)
<1>8. FiltersUpTo(A, s, S, e, Len(s))
  BY <1>6, <1>7 DEF good
<1> HIDE DEF e
<1>9. ToSet(s) = {s[i] : i \in 1..Len(s)}
  BY DEF ToSet
<1>10. {s[i] : i \in {i \in 1..Len(s) : s[i] \in S}} = ToSet(s) \cap S
  BY <1>9
<1>11. (\E x \in ToSet(s) : x \notin S) => \E i \in 1..Len(s) : s[i] \notin S
  BY <1>9
<1> QED BY <1>8, <1>10, <1>11 DEF FiltersUpTo, e

(* What Without returns. *)
LEMMA WithoutFacts ==
  ASSUME NEW A, NEW s \in Seq(A), NEW x
  PROVE  /\ Without(s, x) \in Seq(A)
         /\ Len(Without(s, x)) <= Len(s)
         /\ x \in ToSet(s) => Len(Without(s, x)) < Len(s)
         /\ ToSet(Without(s, x)) = ToSet(s) \ {x}
         /\ IsInjective(s) => IsInjective(Without(s, x))
<1> DEFINE S == ToSet(s) \ {x}
<1>1. /\ Keep(s, S) \in Seq(A)
      /\ Len(Keep(s, S)) <= Len(s)
      /\ (\E y \in ToSet(s) : y \notin S) => Len(Keep(s, S)) < Len(s)
      /\ ToSet(Keep(s, S)) = ToSet(s) \cap S
      /\ IsInjective(s) => IsInjective(Keep(s, S))
  <2> HIDE DEF S
  <2> QED BY KeepFacts
<1>2. x \in ToSet(s) => \E y \in ToSet(s) : y \notin S
  OBVIOUS
<1>3. ToSet(s) \cap S = ToSet(s) \ {x}
  OBVIOUS
<1> QED BY <1>1, <1>2, <1>3 DEF Without


(* Two sequences in a row. *)
LEMMA Joined ==
  ASSUME NEW A, NEW s \in Seq(A), NEW t \in Seq(A)
  PROVE  /\ s \o t \in Seq(A)
         /\ ToSet(s \o t) = ToSet(s) \cup ToSet(t)
         /\ IsInjective(s \o t) <=>
              IsInjective(s) /\ IsInjective(t) /\ ToSet(s) \cap ToSet(t) = {}
<1> DEFINE j == s \o t
<1>1. /\ j \in Seq(A) /\ Len(j) = Len(s) + Len(t)
      /\ \A i \in 1..(Len(s) + Len(t)) : j[i] = IF i <= Len(s) THEN s[i] ELSE t[i - Len(s)]
  BY ConcatProperties
<1>2. Len(s) \in Nat /\ Len(t) \in Nat
  OBVIOUS
<1> HIDE DEF j
<1>3. /\ \A i \in 1..Len(s) : i \in 1..Len(j) /\ j[i] = s[i]
      /\ \A i \in 1..Len(t) : i + Len(s) \in 1..Len(j) /\ j[i + Len(s)] = t[i]
      /\ \A i \in 1..Len(j) : i \notin 1..Len(s) => i - Len(s) \in 1..Len(t)
  <2>1. ASSUME NEW i \in 1..Len(s) PROVE i \in 1..Len(j) /\ j[i] = s[i]
    BY <1>1, <1>2
  <2>2. ASSUME NEW i \in 1..Len(t) PROVE i + Len(s) \in 1..Len(j) /\ j[i + Len(s)] = t[i]
    <3>1. i + Len(s) \in 1..(Len(s) + Len(t)) /\ ~(i + Len(s) <= Len(s))
      BY <1>2
    <3>2. (i + Len(s)) - Len(s) = i
      BY <1>2
    <3> QED BY <1>1, <3>1, <3>2
  <2>3. ASSUME NEW i \in 1..Len(j), i \notin 1..Len(s) PROVE i - Len(s) \in 1..Len(t)
    BY <1>1, <1>2, <2>3
  <2> QED BY <2>1, <2>2, <2>3
<1>4. /\ ToSet(s) = {s[i] : i \in 1..Len(s)}
      /\ ToSet(t) = {t[i] : i \in 1..Len(t)}
      /\ ToSet(j) = {j[i] : i \in 1..Len(j)}
  <2>1. DOMAIN s = 1..Len(s) /\ DOMAIN t = 1..Len(t)
    OBVIOUS
  <2>2. DOMAIN j = 1..Len(j)
    BY <1>1
  <2> QED BY <2>1, <2>2 DEF ToSet
<1>5. \A i \in 1..Len(j) : i \notin 1..Len(s) => j[i] = t[i - Len(s)]
  BY <1>1, <1>2
<1>6. ToSet(j) = ToSet(s) \cup ToSet(t)
  <2>1. ASSUME NEW x \in ToSet(j) PROVE x \in ToSet(s) \cup ToSet(t)
    <3>1. PICK i \in 1..Len(j) : x = j[i]
      BY <1>4
    <3> QED BY <1>3, <1>4, <1>5, <3>1
  <2>2. ASSUME NEW x \in ToSet(s) PROVE x \in ToSet(j)
    BY <1>3, <1>4
  <2>3. ASSUME NEW x \in ToSet(t) PROVE x \in ToSet(j)
    <3>1. PICK i \in 1..Len(t) : x = t[i]
      BY <1>4
    <3> QED BY <1>3, <1>4, <3>1
  <2> QED BY <2>1, <2>2, <2>3
<1>7. ASSUME IsInjective(j)
      PROVE  IsInjective(s) /\ IsInjective(t) /\ ToSet(s) \cap ToSet(t) = {}
  <2>1. \A i, k \in 1..Len(j) : j[i] = j[k] => i = k
    BY <1>1, <1>7, Distinct
  <2>2. \A i, k \in 1..Len(s) : s[i] = s[k] => i = k
    BY <1>3, <2>1
  <2>3. \A i, k \in 1..Len(t) : t[i] = t[k] => i = k
    <3> SUFFICES ASSUME NEW i \in 1..Len(t), NEW k \in 1..Len(t), t[i] = t[k] PROVE i = k
      OBVIOUS
    <3>1. i + Len(s) = k + Len(s)
      BY <1>3, <2>1
    <3> QED BY <1>2, <3>1
  <2>4. ASSUME NEW x \in ToSet(s), x \in ToSet(t) PROVE FALSE
    <3>1. PICK i \in 1..Len(s) : x = s[i]
      BY <1>4
    <3>2. PICK k \in 1..Len(t) : x = t[k]
      BY <1>4, <2>4
    <3>3. i = k + Len(s)
      BY <1>3, <2>1, <3>1, <3>2
    <3> QED BY <1>2, <3>3
  <2> QED BY <2>2, <2>3, <2>4, Distinct
<1>8. ASSUME IsInjective(s), IsInjective(t), ToSet(s) \cap ToSet(t) = {}
      PROVE  IsInjective(j)
  <2>1. \A i, k \in 1..Len(s) : s[i] = s[k] => i = k
    BY <1>8, Distinct
  <2>2. \A i, k \in 1..Len(t) : t[i] = t[k] => i = k
    BY <1>8, Distinct
  <2>3. \A i \in 1..Len(s), k \in 1..Len(t) : s[i] # t[k]
    BY <1>4, <1>8
  <2>4. ASSUME NEW i \in 1..Len(j), NEW k \in 1..Len(j), j[i] = j[k] PROVE i = k
    <3>1. CASE i \in 1..Len(s) /\ k \in 1..Len(s)
      BY <1>3, <2>1, <2>4, <3>1
    <3>2. CASE i \notin 1..Len(s) /\ k \notin 1..Len(s)
      <4>1. i - Len(s) \in 1..Len(t) /\ k - Len(s) \in 1..Len(t)
        BY <1>3, <3>2
      <4>2. t[i - Len(s)] = t[k - Len(s)]
        BY <1>5, <2>4, <3>2
      <4>3. i - Len(s) = k - Len(s)
        BY <2>2, <4>1, <4>2
      <4> QED BY <1>1, <1>2, <4>3
    <3>3. CASE i \in 1..Len(s) /\ k \notin 1..Len(s)
      BY <1>3, <1>5, <2>3, <2>4, <3>3
    <3>4. CASE i \notin 1..Len(s) /\ k \in 1..Len(s)
      BY <1>3, <1>5, <2>3, <2>4, <3>4
    <3> QED BY <3>1, <3>2, <3>3, <3>4
  <2>5. \A i, k \in 1..Len(j) : j[i] = j[k] => i = k
    BY <2>4
  <2> QED BY <1>1, <2>5, Distinct
<1> QED BY <1>1, <1>6, <1>7, <1>8 DEF j

(* A sequence cut in two. *)
LEMMA CutInTwo ==
  ASSUME NEW A, NEW s \in Seq(A), NEW n \in 0..Len(s)
  PROVE  LET a == SubSeq(s, 1, n)
             b == SubSeq(s, n + 1, Len(s))
         IN  /\ a \in Seq(A) /\ b \in Seq(A)
             /\ ToSet(s) = ToSet(a) \cup ToSet(b)
             /\ IsInjective(s) =>
                  IsInjective(a) /\ IsInjective(b) /\ ToSet(a) \cap ToSet(b) = {}
<1> DEFINE a == SubSeq(s, 1, n)
           b == SubSeq(s, n + 1, Len(s))
<1>1. Len(s) \in Nat /\ 1 \in 1..(Len(s) + 1) /\ n \in (1 - 1)..Len(s) /\ Len(s) \in n..Len(s)
  OBVIOUS
<1>2. a \o b = SubSeq(s, 1, Len(s))
  BY <1>1, ConcatAdjacentSubSeq
<1>3. SubSeq(s, 1, Len(s)) = s
  BY SubSeqFull
<1>4. a \in Seq(A) /\ b \in Seq(A)
  <2>1. \A i \in 1..n : s[i] \in A
    OBVIOUS
  <2>2. \A i \in (n + 1)..Len(s) : s[i] \in A
    OBVIOUS
  <2> QED BY <1>1, <2>1, <2>2, SubSeqProperties
<1> HIDE DEF a, b
<1>5. /\ ToSet(a \o b) = ToSet(a) \cup ToSet(b)
      /\ IsInjective(a \o b) <=>
           IsInjective(a) /\ IsInjective(b) /\ ToSet(a) \cap ToSet(b) = {}
  BY <1>4, Joined
<1>6. a \o b = s
  BY <1>2, <1>3
<1> QED BY <1>4, <1>5, <1>6 DEF a, b

(* Max is a member. *)
LEMMA MaxMember ==
  ASSUME NEW n \in Nat, NEW S, S \subseteq 0..n, S # {}
  PROVE  Max(S) \in S
<1> DEFINE T == {n - i : i \in S}
<1>1. T \subseteq Nat /\ T # {}
  <2>1. \A i \in S : n - i \in Nat
    OBVIOUS
  <2> QED BY <2>1
<1>2. PICK m \in T : \A i \in T : m <= i
  <2> HIDE DEF T
  <2> QED BY <1>1, LeastNumber
<1>3. PICK x \in S : m = n - x
  OBVIOUS
<1>4. \A y \in S : x >= y
  <2> SUFFICES ASSUME NEW y \in S PROVE x >= y
    OBVIOUS
  <2>1. n - y \in T
    OBVIOUS
  <2>2. n - x <= n - y
    <3> HIDE DEF T
    <3> QED BY <1>2, <1>3, <2>1
  <2>3. x \in 0..n /\ y \in 0..n
    OBVIOUS
  <2> QED BY <2>2, <2>3
<1> QED BY <1>4, Zenon DEF Max
=============================================================================
