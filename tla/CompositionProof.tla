-------------------------- MODULE CompositionProof --------------------------
(***************************************************************************)
(* Proofs about what is made of other parts: the tower layers, the         *)
(* resilience stack and its backoff (Tower, Stack, Backoff), for every     *)
(* finite set of handles and of calls, every configuration and every year  *)
(* of the calendar; and the limiters made of limiters (Composite), for     *)
(* every finite set of callers, every number of constituents of every      *)
(* capacity, every script of administrative calls and every table of       *)
(* dimensions.                                                             *)
(***************************************************************************)
EXTENDS Stack, Composite, Counting

(***************************************************************************)
(* The layers.  NothingLeaks is inductive beside the types: no step of a   *)
(* service but a drop touches more than one handle, and a drop gives back  *)
(* what the dropped services and responses held.                           *)
(***************************************************************************)
TowerInv == TowerTypeOK /\ NothingLeaks

(* A step of one handle. *)
Only(h) ==
  /\ svc \in [Handles -> Services] /\ svc' \in [Handles -> Services]
  /\ \A g \in Handles : g # h => svc'[g] = svc[g]

(* How many services hold something, when one of them changes. *)
LEMMA HandleMoved ==
  ASSUME NEW h \in Handles, Only(h)
  PROVE  /\ Cardinality(OuterHeld) \in Nat /\ Cardinality(OuterHeld)' \in Nat
         /\ Cardinality(InnerHeld) \in Nat /\ Cardinality(InnerHeld)' \in Nat
         /\ Cardinality(InFlight) \in Nat /\ Cardinality(InFlight)' \in Nat
         /\ Cardinality(OuterHeld)' = Cardinality(OuterHeld)
              + Bit(svc'[h].outer = "held") - Bit(svc[h].outer = "held")
         /\ Cardinality(InnerHeld)' = Cardinality(InnerHeld)
              + Bit(svc'[h].inner = "held") - Bit(svc[h].inner = "held")
         /\ Cardinality(InFlight)' = Cardinality(InFlight)
              + Bit(svc'[h].response # "none") - Bit(svc[h].response # "none")
<1> DEFINE r == svc'[h]
<1>2. svc' \in [Handles -> Services] /\ \A g \in Handles \ {h} : svc'[g] = svc[g]
  BY DEF Only
<1>3. IsFiniteSet(OuterHeld) /\ IsFiniteSet(InnerHeld) /\ IsFiniteSet(InFlight)
  BY TowerAssumption, FS_Subset DEF OuterHeld, InnerHeld, InFlight
<1>4. /\ OuterHeld \ {h} = OuterHeld' \ {h}
      /\ InnerHeld \ {h} = InnerHeld' \ {h}
      /\ InFlight \ {h} = InFlight' \ {h}
  BY <1>2 DEF OuterHeld, InnerHeld, InFlight
<1>5. /\ (h \in OuterHeld) = (svc[h].outer = "held") /\ (h \in OuterHeld') = (r.outer = "held")
      /\ (h \in InnerHeld) = (svc[h].inner = "held") /\ (h \in InnerHeld') = (r.inner = "held")
      /\ (h \in InFlight) = (svc[h].response # "none")
      /\ (h \in InFlight') = (r.response # "none")
  BY <1>2 DEF OuterHeld, InnerHeld, InFlight
<1>6. /\ Cardinality(OuterHeld) \in Nat /\ Cardinality(OuterHeld') \in Nat
      /\ Cardinality(OuterHeld') = Cardinality(OuterHeld)
           + Bit(h \in OuterHeld') - Bit(h \in OuterHeld)
  BY <1>3, <1>4, OneChanged
<1>7. /\ Cardinality(InnerHeld) \in Nat /\ Cardinality(InnerHeld') \in Nat
      /\ Cardinality(InnerHeld') = Cardinality(InnerHeld)
           + Bit(h \in InnerHeld') - Bit(h \in InnerHeld)
  BY <1>3, <1>4, OneChanged
<1>8. /\ Cardinality(InFlight) \in Nat /\ Cardinality(InFlight') \in Nat
      /\ Cardinality(InFlight') = Cardinality(InFlight)
           + Bit(h \in InFlight') - Bit(h \in InFlight)
  BY <1>3, <1>4, OneChanged
<1> QED BY <1>5, <1>6, <1>7, <1>8 DEF Bit

(* What a step must do to the counters to keep the books: the units are    *)
(* those of k more holders and calls.                                      *)
Claims == Cardinality(OuterHeld) + tally.sent + tally.unready

LEMMA BooksKept ==
  ASSUME TowerInv, svc' \in [Handles -> Services], level' \in 0..Capacity, slots' \in Nat,
         tally' \in [charged : Int, sent : Nat, unready : Nat, outcomes : Nat],
         Cardinality(OuterHeld) \in Nat, Cardinality(OuterHeld)' \in Nat,
         Cardinality(InnerHeld)' \in Nat, Cardinality(InFlight)' \in Nat,
         NEW k \in Int, Claims' = Claims + k, tally'.charged = tally.charged + Cost * k,
         slots' + Cardinality(InnerHeld)' + Cardinality(InFlight)' = Permits,
         tally'.outcomes + Cardinality(InFlight)' = tally'.sent
  PROVE  TowerInv'
<1>1. Claims \in Nat /\ Claims' \in Nat /\ tally.charged = Cost * Claims
  BY DEF TowerInv, TowerTypeOK, NothingLeaks, Claims
<1>2. tally'.charged = Cost * Claims' /\ tally'.charged \in Nat
  <2>1. tally'.charged = Cost * Claims + Cost * k
    BY <1>1
  <2>2. Claims' = Claims + k
    OBVIOUS
  <2>3. tally'.charged = Cost * Claims'
    BY <1>1, <2>1, <2>2, TowerAssumption
  <2>4. Cost * Claims' \in Nat
    BY <1>1, TowerAssumption
  <2> QED BY <2>3, <2>4
<1>3. slots' \in 0..Permits
  <2> DEFINE a == Cardinality(InnerHeld)'
             b == Cardinality(InFlight)'
  <2>1. a \in Nat /\ b \in Nat /\ slots' \in Nat /\ slots' + a + b = Permits
    OBVIOUS
  <2> HIDE DEF a, b
  <2> QED BY <2>1, TowerAssumption
<1>4. tally' \in [charged : Nat, sent : Nat, unready : Nat, outcomes : Nat]
  BY <1>2
<1> QED BY <1>2, <1>3, <1>4 DEF TowerInv, TowerTypeOK, NothingLeaks, Claims

(* A step of one handle that is not its drop. *)
LEMMA HandleStep ==
  ASSUME TowerInv, NEW h \in Handles,
         \/ StartOuter(h) \/ GrantOuter(h) \/ RefuseOuter(h)
         \/ StartInner(h) \/ GrantInner(h) \/ RefuseInner(h)
         \/ Call(h) \/ CallUnready(h) \/ Answer(h) \/ Layer(h)
         \/ \E g \in Handles : Clone(g, h)
  PROVE  TowerInv'
<1> DEFINE s == svc[h]
           o == Cardinality(OuterHeld)
           i == Cardinality(InnerHeld)
           f == Cardinality(InFlight)
<1>0. /\ svc \in [Handles -> Services] /\ s \in Services
      /\ level \in 0..Capacity /\ slots \in 0..Permits
      /\ tally \in [charged : Nat, sent : Nat, unready : Nat, outcomes : Nat]
      /\ slots + i + f = Permits /\ tally.outcomes + f = tally.sent
      /\ Capacity \in Nat /\ Cost \in Nat /\ Permits \in Nat
  BY TowerAssumption DEF TowerInv, TowerTypeOK, NothingLeaks
<1>1. CASE StartOuter(h)
  <2>1. /\ Only(h) /\ s.outer # "held"
        /\ s'.outer = "acquiring" /\ s'.inner = s.inner /\ s'.response = s.response
    BY <1>0, <1>1 DEF StartOuter, Only, Services, Admission
  <2>2. /\ o \in Nat /\ i \in Nat /\ f \in Nat /\ o' \in Nat /\ i' \in Nat /\ f' \in Nat
        /\ o' = o /\ i' = i /\ f' = f
    BY <2>1, HandleMoved DEF Bit
  <2> HIDE DEF s, o, i, f
  <2>3. Claims' = Claims + 0 /\ tally'.charged = tally.charged + Cost * 0
    BY <1>0, <1>1, <2>2 DEF StartOuter, Claims, o
  <2> QED BY <1>0, <1>1, <2>1, <2>2, <2>3, BooksKept DEF StartOuter, Only, o, i, f
<1>2. CASE GrantOuter(h)
  <2>1. /\ Only(h) /\ s.outer # "held"
        /\ s'.outer = "held" /\ s'.inner = s.inner /\ s'.response = s.response
    BY <1>0, <1>2 DEF GrantOuter, Only, Services, Admission
  <2>2. /\ o \in Nat /\ i \in Nat /\ f \in Nat /\ o' \in Nat /\ i' \in Nat /\ f' \in Nat
        /\ o' = o + 1 /\ i' = i /\ f' = f
    BY <2>1, HandleMoved DEF Bit
  <2> HIDE DEF s, o, i, f
  <2>3. Claims' = Claims + 1 /\ tally'.charged = tally.charged + Cost * 1
    BY <1>0, <1>2, <2>2 DEF GrantOuter, Claims, o
  <2> QED BY <1>0, <1>2, <2>1, <2>2, <2>3, BooksKept DEF GrantOuter, Only, o, i, f
<1>3. CASE RefuseOuter(h)
  <2>1. /\ Only(h) /\ s.outer # "held"
        /\ s'.outer = "idle" /\ s'.inner = s.inner /\ s'.response = s.response
    BY <1>0, <1>3 DEF RefuseOuter, Only, Services, Admission
  <2>2. /\ o \in Nat /\ i \in Nat /\ f \in Nat /\ o' \in Nat /\ i' \in Nat /\ f' \in Nat
        /\ o' = o /\ i' = i /\ f' = f
    BY <2>1, HandleMoved DEF Bit
  <2> HIDE DEF s, o, i, f
  <2>3. Claims' = Claims + 0 /\ tally'.charged = tally.charged + Cost * 0
    BY <1>0, <1>3, <2>2 DEF RefuseOuter, Claims, o
  <2> QED BY <1>0, <1>3, <2>1, <2>2, <2>3, BooksKept DEF RefuseOuter, Only, o, i, f
<1>4. CASE StartInner(h)
  <2>1. /\ Only(h) /\ s.inner # "held"
        /\ s'.outer = s.outer /\ s'.inner = "acquiring" /\ s'.response = s.response
    BY <1>0, <1>4 DEF StartInner, Only, Services, Admission
  <2>2. /\ o \in Nat /\ i \in Nat /\ f \in Nat /\ o' \in Nat /\ i' \in Nat /\ f' \in Nat
        /\ o' = o /\ i' = i /\ f' = f
    BY <2>1, HandleMoved DEF Bit
  <2> HIDE DEF s, o, i, f
  <2>3. Claims' = Claims + 0 /\ tally'.charged = tally.charged + Cost * 0
    BY <1>0, <1>4, <2>2 DEF StartInner, Claims, o
  <2> QED BY <1>0, <1>4, <2>1, <2>2, <2>3, BooksKept DEF StartInner, Only, o, i, f
<1>5. CASE GrantInner(h)
  <2>1. /\ Only(h) /\ s.inner # "held"
        /\ s'.outer = s.outer /\ s'.inner = "held" /\ s'.response = s.response
    BY <1>0, <1>5 DEF GrantInner, Only, Services, Admission
  <2>2. /\ o \in Nat /\ i \in Nat /\ f \in Nat /\ o' \in Nat /\ i' \in Nat /\ f' \in Nat
        /\ o' = o /\ i' = i + 1 /\ f' = f
    BY <2>1, HandleMoved DEF Bit
  <2> HIDE DEF s, o, i, f
  <2>3. Claims' = Claims + 0 /\ tally'.charged = tally.charged + Cost * 0
    BY <1>0, <1>5, <2>2 DEF GrantInner, Claims, o
  <2> QED BY <1>0, <1>5, <2>1, <2>2, <2>3, BooksKept DEF GrantInner, Only, o, i, f
<1>6. CASE RefuseInner(h)
  <2>1. /\ Only(h) /\ s.inner # "held"
        /\ s'.outer = s.outer /\ s'.inner = "idle" /\ s'.response = s.response
    BY <1>0, <1>6 DEF RefuseInner, Only, Services, Admission
  <2>2. /\ o \in Nat /\ i \in Nat /\ f \in Nat /\ o' \in Nat /\ i' \in Nat /\ f' \in Nat
        /\ o' = o /\ i' = i /\ f' = f
    BY <2>1, HandleMoved DEF Bit
  <2> HIDE DEF s, o, i, f
  <2>3. Claims' = Claims + 0 /\ tally'.charged = tally.charged + Cost * 0
    BY <1>0, <1>6, <2>2 DEF RefuseInner, Claims, o
  <2> QED BY <1>0, <1>6, <2>1, <2>2, <2>3, BooksKept DEF RefuseInner, Only, o, i, f
<1>7. CASE Call(h)
  <2>1. /\ Only(h) /\ s.outer = "held" /\ s.inner = "held" /\ s.response = "none"
        /\ s'.outer = "idle" /\ s'.inner = "idle" /\ s'.response = "pending"
    BY <1>0, <1>7 DEF Call, Only, Services, Admission
  <2>2. /\ o \in Nat /\ i \in Nat /\ f \in Nat /\ o' \in Nat /\ i' \in Nat /\ f' \in Nat
        /\ o' = o - 1 /\ i' = i - 1 /\ f' = f + 1
    BY <2>1, HandleMoved DEF Bit
  <2> HIDE DEF s, o, i, f
  <2>3. Claims' = Claims + 0 /\ tally'.charged = tally.charged + Cost * 0
    BY <1>0, <1>7, <2>2 DEF Call, Claims, o
  <2> QED BY <1>0, <1>7, <2>1, <2>2, <2>3, BooksKept DEF Call, Only, o, i, f
<1>8. CASE CallUnready(h)
  <2>1. /\ Only(h) /\ s.outer = "held"
        /\ s'.outer = "idle" /\ s'.inner = s.inner /\ s'.response = s.response
    BY <1>0, <1>8 DEF CallUnready, Only, Services, Admission
  <2>2. /\ o \in Nat /\ i \in Nat /\ f \in Nat /\ o' \in Nat /\ i' \in Nat /\ f' \in Nat
        /\ o' = o - 1 /\ i' = i /\ f' = f
    BY <2>1, HandleMoved DEF Bit
  <2> HIDE DEF s, o, i, f
  <2>3. Claims' = Claims + 0 /\ tally'.charged = tally.charged + Cost * 0
    BY <1>0, <1>8, <2>2 DEF CallUnready, Claims, o
  <2> QED BY <1>0, <1>8, <2>1, <2>2, <2>3, BooksKept DEF CallUnready, Only, o, i, f
<1>9. CASE Answer(h)
  <2>1. /\ Only(h) /\ s.response # "none"
        /\ s'.outer = s.outer /\ s'.inner = s.inner /\ s'.response # "none"
    BY <1>0, <1>9 DEF Answer, Only, Services, Admission
  <2>2. /\ o \in Nat /\ i \in Nat /\ f \in Nat /\ o' \in Nat /\ i' \in Nat /\ f' \in Nat
        /\ o' = o /\ i' = i /\ f' = f
    BY <2>1, HandleMoved DEF Bit
  <2> HIDE DEF s, o, i, f
  <2>3. Claims' = Claims + 0 /\ tally'.charged = tally.charged + Cost * 0
    BY <1>0, <1>9, <2>2 DEF Answer, Claims, o
  <2> QED BY <1>0, <1>9, <2>1, <2>2, <2>3, BooksKept DEF Answer, Only, o, i, f
<1>10. CASE Layer(h) \/ \E g \in Handles : Clone(g, h)
  <2>1. /\ svc' = [svc EXCEPT ![h] = Fresh] /\ s = Gone
        /\ UNCHANGED <<level, slots, tally>>
    BY <1>10 DEF Layer, Clone
  <2>2. /\ Only(h)
        /\ s.outer = "idle" /\ s.inner = "idle" /\ s.response = "none"
        /\ s'.outer = "idle" /\ s'.inner = "idle" /\ s'.response = "none"
    BY <1>0, <2>1 DEF Only, Fresh, Gone, Services, Admission
  <2>3. /\ o \in Nat /\ i \in Nat /\ f \in Nat /\ o' \in Nat /\ i' \in Nat /\ f' \in Nat
        /\ o' = o /\ i' = i /\ f' = f
    BY <2>2, HandleMoved DEF Bit
  <2> HIDE DEF s, o, i, f
  <2>4. Claims' = Claims + 0 /\ tally'.charged = tally.charged + Cost * 0
    BY <1>0, <2>1, <2>3 DEF Claims, o
  <2> QED BY <1>0, <2>1, <2>2, <2>3, <2>4, BooksKept DEF Only, o, i, f
<1> QED BY <1>1, <1>2, <1>3, <1>4, <1>5, <1>6, <1>7, <1>8, <1>9, <1>10

(* A drop gives back what the services and the responses held. *)
LEMMA DropStep ==
  ASSUME TowerInv, NEW hs \in SUBSET Handles, NEW rs \in SUBSET Handles, Drop(hs, rs)
  PROVE  TowerInv'
<1> DEFINE o == Cardinality(OuterHeld)
           i == Cardinality(InnerHeld)
           f == Cardinality(InFlight)
           a == Cardinality(OuterHeld \cap hs)
           b == Cardinality(InnerHeld \cap hs)
           c == Cardinality(InFlight \cap rs)
<1>1. /\ svc \in [Handles -> Services]
      /\ level \in 0..Capacity /\ slots \in 0..Permits
      /\ tally \in [charged : Nat, sent : Nat, unready : Nat, outcomes : Nat]
      /\ slots + i + f = Permits /\ tally.outcomes + f = tally.sent
      /\ Capacity \in Nat /\ Cost \in Nat /\ Permits \in Nat
  BY TowerAssumption DEF TowerInv, TowerTypeOK, NothingLeaks
<1>2. /\ svc' \in [Handles -> Services]
      /\ \A h \in Handles : svc'[h].response = IF h \in rs THEN "none" ELSE svc[h].response
      /\ \A h \in Handles : h \notin hs => svc'[h].outer = svc[h].outer /\ svc'[h].inner = svc[h].inner
      /\ \A h \in hs : svc'[h].outer = "idle" /\ svc'[h].inner = "idle"
  <2>1. Gone \in Services /\ Gone.outer = "idle" /\ Gone.inner = "idle"
    BY DEF Services, Gone, Fresh, Admission
  <2>2. svc' = [h \in Handles |-> [(IF h \in hs THEN Gone ELSE svc[h]) EXCEPT
                   !.response = IF h \in rs THEN "none" ELSE svc[h].response]]
    BY DEF Drop
  <2>3. ASSUME NEW h \in Handles
        PROVE  /\ svc'[h] \in Services
               /\ svc'[h].response = IF h \in rs THEN "none" ELSE svc[h].response
               /\ h \notin hs => svc'[h].outer = svc[h].outer /\ svc'[h].inner = svc[h].inner
               /\ h \in hs => svc'[h].outer = "idle" /\ svc'[h].inner = "idle"
    <3> DEFINE r == IF h \in rs THEN "none" ELSE svc[h].response
               x == IF h \in hs THEN Gone ELSE svc[h]
    <3>1. svc[h] \in Services
      BY <1>1
    <3>2. x \in Services /\ r \in {"none", "pending", "ok", "err"}
      BY <2>1, <3>1 DEF Services
    <3>3. svc'[h] = [x EXCEPT !.response = r]
      BY <2>2
    <3>4. /\ svc'[h] \in Services /\ svc'[h].response = r
          /\ svc'[h].outer = x.outer /\ svc'[h].inner = x.inner
      <4> HIDE DEF x, r
      <4> QED BY <3>2, <3>3 DEF Services
    <3> QED BY <2>1, <3>4
  <2>4. svc' \in [Handles -> Services]
    BY <2>2, <2>3
  <2> QED BY <2>3, <2>4
<1>3. OuterHeld' = OuterHeld \ hs /\ InnerHeld' = InnerHeld \ hs /\ InFlight' = InFlight \ rs
  BY <1>2 DEF OuterHeld, InnerHeld, InFlight
<1>4. IsFiniteSet(OuterHeld) /\ IsFiniteSet(InnerHeld) /\ IsFiniteSet(InFlight)
  BY TowerAssumption, FS_Subset DEF OuterHeld, InnerHeld, InFlight
<1>5. /\ IsFiniteSet(OuterHeld \cap hs) /\ IsFiniteSet(InnerHeld \cap hs)
      /\ IsFiniteSet(InFlight \cap rs)
  BY <1>4, FS_Intersection
<1>6. a \in Nat /\ b \in Nat /\ c \in Nat /\ o \in Nat /\ i \in Nat /\ f \in Nat
  BY <1>4, <1>5, FS_CardinalityType
<1>7. /\ IsFiniteSet(OuterHeld \ hs) /\ IsFiniteSet(InnerHeld \ hs) /\ IsFiniteSet(InFlight \ rs)
      /\ Cardinality(OuterHeld \ hs) = o - a
      /\ Cardinality(InnerHeld \ hs) = i - b
      /\ Cardinality(InFlight \ rs) = f - c
  BY <1>4, FS_Difference
<1>8. /\ o' \in Nat /\ i' \in Nat /\ f' \in Nat
      /\ o' = o - a /\ i' = i - b /\ f' = f - c
  BY <1>3, <1>7, FS_CardinalityType
<1>9. /\ level' = Lesser(Capacity, level + Cost * a)
      /\ slots' = slots + c + b
      /\ tally' = [tally EXCEPT !.charged = @ - Cost * a, !.outcomes = @ + c]
  BY DEF Drop
<1> HIDE DEF o, i, f, a, b, c
<1>10. Cost * a \in Nat /\ Cost * (-a) = -(Cost * a) /\ -a \in Int
  BY <1>1, <1>6
<1>11. level' \in 0..Capacity /\ slots' \in Nat
  BY <1>1, <1>6, <1>9, <1>10 DEF Lesser
<1>12. /\ tally' \in [charged : Int, sent : Nat, unready : Nat, outcomes : Nat]
       /\ tally'.charged = tally.charged + Cost * (-a)
       /\ tally'.sent = tally.sent /\ tally'.unready = tally.unready
       /\ tally'.outcomes = tally.outcomes + c
  <2> DEFINE u == Cost * a
  <2>1. u \in Nat /\ tally' = [tally EXCEPT !.charged = @ - u, !.outcomes = @ + c]
    BY <1>9, <1>10
  <2>2. Cost * (-a) = -u
    BY <1>10
  <2> HIDE DEF u
  <2>3. /\ tally' \in [charged : Int, sent : Nat, unready : Nat, outcomes : Nat]
        /\ tally'.charged = tally.charged - u
        /\ tally'.sent = tally.sent /\ tally'.unready = tally.unready
        /\ tally'.outcomes = tally.outcomes + c
    <3>1. tally \in [charged : Nat, sent : Nat, unready : Nat, outcomes : Nat]
      BY <1>1
    <3>2. /\ tally'.charged = tally.charged - u
          /\ tally'.sent = tally.sent /\ tally'.unready = tally.unready
          /\ tally'.outcomes = tally.outcomes + c
      BY <2>1, <3>1
    <3>3. tally' \in [charged : Int, sent : Nat, unready : Nat, outcomes : Nat]
      <4>1. tally.charged - u \in Int /\ tally.outcomes + c \in Nat
        BY <1>6, <2>1, <3>1
      <4>2. tally' = [charged |-> tally.charged - u, sent |-> tally.sent,
                      unready |-> tally.unready, outcomes |-> tally.outcomes + c]
        BY <2>1, <3>1
      <4> QED BY <3>1, <4>1, <4>2
    <3> QED BY <3>2, <3>3
  <2> QED BY <1>1, <2>1, <2>2, <2>3
<1>13. Claims' = Claims + (-a)
  BY <1>1, <1>6, <1>8, <1>12 DEF Claims, o
<1>14. slots' + i' + f' = Permits /\ tally'.outcomes + f' = tally'.sent
  BY <1>1, <1>6, <1>8, <1>9, <1>12
<1> QED BY <1>2, <1>6, <1>8, <1>10, <1>11, <1>12, <1>13, <1>14, BooksKept DEF o, i, f

LEMMA RefillStep ==
  ASSUME TowerInv, Refill
  PROVE  TowerInv'
BY TowerAssumption DEF TowerInv, TowerTypeOK, NothingLeaks, Refill, OuterHeld, InnerHeld, InFlight

LEMMA TowerSame ==
  ASSUME TowerInv, UNCHANGED towerVars
  PROVE  TowerInv'
BY DEF TowerInv, TowerTypeOK, NothingLeaks, towerVars, OuterHeld, InnerHeld, InFlight

LEMMA TowerStart ==
  ASSUME TowerInit
  PROVE  TowerInv
<1>1. OuterHeld = {} /\ InnerHeld = {} /\ InFlight = {}
  BY DEF TowerInit, OuterHeld, InnerHeld, InFlight, Gone, Fresh
<1>2. Cardinality({}) = 0
  BY FS_EmptySet
<1>3. svc \in [Handles -> Services]
  BY DEF TowerInit, Gone, Fresh, Services, Admission
<1>4. Cost * 0 = 0
  BY TowerAssumption
<1> QED BY <1>1, <1>2, <1>3, <1>4, TowerAssumption DEF TowerInv, TowerTypeOK, NothingLeaks, TowerInit

(***************************************************************************)
(* The delays.                                                             *)
(***************************************************************************)
LEMMA RawNanosType ==
  ASSUME NEW policy, policy.base \in Nat, policy.increment \in Nat, NEW attempt \in Nat
  PROVE  RawNanos(policy, attempt) \in Nat
<1>1. SatMul(policy.increment, attempt) \in Nat
  BY StackAssumption DEF SatMul, LesserOf
<1>2. SatAdd(policy.base, SatMul(policy.increment, attempt)) \in Nat
  BY <1>1, StackAssumption DEF SatAdd, LesserOf
<1> QED BY <1>2, StackAssumption DEF RawNanos

(* Whatever the curve, the factor, the jitter and the attempt, a delay is  *)
(* a delay and not beyond the policy's ceiling.                            *)
THEOREM DelayWithinCeiling ==
  ASSUME NEW policy, policy.base \in Nat, policy.increment \in Nat, policy.max \in Nat,
         NEW attempt \in Nat, NEW previous \in Nat,
         NEW next \in NextDelay(policy, attempt, previous)
  PROVE  next \in [delay : 0..policy.max, previous : Nat]
<1> DEFINE raw == RawNanos(policy, attempt)
           capped == LesserOf(raw, policy.max)
           half == capped \div 2
<1>1. raw \in Nat
  BY RawNanosType
<1> HIDE DEF raw
<1>2. capped \in 0..policy.max
  BY <1>1 DEF LesserOf
<1> HIDE DEF capped
<1>3. half \in Nat /\ half <= capped
  BY <1>2
<1>4. CASE policy.jitter = "decorrelated"
  <2> DEFINE far == GreaterOf(SatMul(previous, 3), policy.base)
             hi == LesserOf(far, policy.max)
             lo == LesserOf(policy.base, hi)
  <2>1. SatMul(previous, 3) \in Nat
    BY StackAssumption DEF SatMul, LesserOf
  <2>2. far \in Nat
    BY <2>1 DEF GreaterOf
  <2> HIDE DEF far
  <2>3. hi \in 0..policy.max
    BY <2>2 DEF LesserOf
  <2> HIDE DEF hi
  <2>4. lo \in 0..hi
    BY <2>3 DEF LesserOf
  <2> HIDE DEF lo
  <2>5. PICK d \in RngRange(lo, hi) : next = [delay |-> d, previous |-> GreaterOf(d, policy.base)]
    BY <1>4 DEF NextDelay, Decorrelated, far, hi, lo
  <2>6. d \in 0..policy.max
    BY <2>3, <2>4, <2>5 DEF RngRange
  <2> QED BY <2>5, <2>6 DEF GreaterOf
<1>5. CASE policy.jitter # "decorrelated"
  <2> DEFINE delays == CASE policy.jitter = "full"  -> RngRange(0, capped)
                         [] policy.jitter = "equal" -> {half + r : r \in RngRange(0, capped - half)}
                         [] OTHER                   -> {capped}
  <2>1. PICK d \in delays : next = [delay |-> d, previous |-> previous]
    BY <1>5 DEF NextDelay, capped, raw
  <2>2. d \in 0..policy.max
    <3>1. CASE policy.jitter = "full"
      BY <1>2, <2>1, <3>1 DEF RngRange
    <3>2. CASE policy.jitter = "equal"
      <4>1. PICK r \in RngRange(0, capped - half) : d = half + r
        BY <2>1, <3>2
      <4>2. r \in 0..(capped - half)
        <5> HIDE DEF half
        <5> QED BY <1>2, <1>3, <4>1 DEF RngRange
      <4> HIDE DEF half
      <4> QED BY <1>2, <1>3, <4>1, <4>2
    <3>3. CASE policy.jitter \notin {"full", "equal"}
      BY <1>2, <2>1, <3>3
    <3> QED BY <3>1, <3>2, <3>3
  <2> QED BY <2>1, <2>2
<1> QED BY <1>4, <1>5

(***************************************************************************)
(* The calendar.  Days are numbered so that the epoch is 0 and the day     *)
(* after a day has the next number, in every year: so the number of a day  *)
(* is the number of days since the epoch.                                  *)
(***************************************************************************)
IsDate(d) == d \in Dates /\ d.month \in 1..12 /\ d.day \in 1..LastDay(d)

DayNumber(d) == DaysFromCivil(d.year, d.month, d.day)

THEOREM Epoch == DaysFromCivil(1970, 1, 1) = 0
BY DEF DaysFromCivil

LEMMA WithinMonth ==
  ASSUME NEW y \in Nat, NEW m \in 1..12, NEW d \in Nat
  PROVE  DaysFromCivil(y, m, d + 1) = DaysFromCivil(y, m, d) + 1
BY DEF DaysFromCivil

LEMMA MonthEnds ==
  ASSUME NEW y \in Nat
  PROVE  /\ DaysFromCivil(y, 2, 1) = DaysFromCivil(y, 1, 31) + 1
         /\ DaysFromCivil(y, 3, 1) = DaysFromCivil(y, 2, IF Leap(y) THEN 29 ELSE 28) + 1
         /\ DaysFromCivil(y, 4, 1) = DaysFromCivil(y, 3, 31) + 1
         /\ DaysFromCivil(y, 5, 1) = DaysFromCivil(y, 4, 30) + 1
         /\ DaysFromCivil(y, 6, 1) = DaysFromCivil(y, 5, 31) + 1
         /\ DaysFromCivil(y, 7, 1) = DaysFromCivil(y, 6, 30) + 1
         /\ DaysFromCivil(y, 8, 1) = DaysFromCivil(y, 7, 31) + 1
         /\ DaysFromCivil(y, 9, 1) = DaysFromCivil(y, 8, 31) + 1
         /\ DaysFromCivil(y, 10, 1) = DaysFromCivil(y, 9, 30) + 1
         /\ DaysFromCivil(y, 11, 1) = DaysFromCivil(y, 10, 31) + 1
         /\ DaysFromCivil(y, 12, 1) = DaysFromCivil(y, 11, 30) + 1
         /\ DaysFromCivil(y + 1, 1, 1) = DaysFromCivil(y, 12, 31) + 1
BY DEF DaysFromCivil, Leap

THEOREM DaysAreCounted ==
  ASSUME NEW d, IsDate(d)
  PROVE  IsDate(Tomorrow(d)) /\ DayNumber(Tomorrow(d)) = DayNumber(d) + 1
<1> DEFINE n == Tomorrow(d)
           y == d.year
<1> SUFFICES IsDate(n) /\ DayNumber(n) = DayNumber(d) + 1
  OBVIOUS
<1>1. d \in Dates /\ d.month \in 1..12 /\ d.day \in Nat /\ d.day >= 1 /\ d.day <= LastDay(d)
      /\ y \in Nat /\ LastDay(d) \in {28, 29, 30, 31}
  BY DEF IsDate, Dates, LastDay
<1>2. CASE d.day < LastDay(d)
  <2>1. n \in Dates /\ n.year = y /\ n.month = d.month /\ n.day = d.day + 1
    BY <1>1, <1>2 DEF Tomorrow, Dates
  <2>2. LastDay(n) = LastDay(d)
    BY <2>1 DEF LastDay
  <2>3. DaysFromCivil(y, d.month, d.day + 1) = DaysFromCivil(y, d.month, d.day) + 1
    BY <1>1, WithinMonth
  <2> HIDE DEF n
  <2> QED BY <1>1, <1>2, <2>1, <2>2, <2>3 DEF IsDate, DayNumber
<1>3. CASE ~(d.day < LastDay(d)) /\ d.month < 12
  <2>1. n \in Dates /\ n.year = y /\ n.month = d.month + 1 /\ n.day = 1
    <3>1. n = [d EXCEPT !.day = 1, !.month = d.month + 1]
      BY <1>3 DEF Tomorrow
    <3> DEFINE k == d.month + 1
    <3>2. d \in Dates /\ k \in Nat
      BY <1>1
    <3> HIDE DEF n, k
    <3>3. n \in Dates
      BY <3>1, <3>2 DEF Dates, k
    <3>4. n.year = y /\ n.month = k /\ n.day = 1
      BY <3>1, <3>2 DEF Dates, k
    <3> QED BY <3>3, <3>4 DEF k
  <2>2. d.day = LastDay(d)
    BY <1>1, <1>3
  <2>3. DaysFromCivil(y, d.month + 1, 1) = DaysFromCivil(y, d.month, LastDay(d)) + 1
    <3>1. CASE d.month = 2
      BY <1>1, <3>1, MonthEnds DEF LastDay
    <3>2. CASE d.month \in {4, 6, 9, 11}
      BY <1>1, <3>2, MonthEnds DEF LastDay
    <3>3. CASE d.month \in {1, 3, 5, 7, 8, 10}
      BY <1>1, <3>3, MonthEnds DEF LastDay
    <3> QED BY <1>1, <1>3, <3>1, <3>2, <3>3
  <2>4. LastDay(n) \in {28, 29, 30, 31}
    BY <2>1 DEF LastDay
  <2> HIDE DEF n
  <2> QED BY <1>1, <1>3, <2>1, <2>2, <2>3, <2>4 DEF IsDate, DayNumber
<1>4. CASE ~(d.day < LastDay(d)) /\ ~(d.month < 12)
  <2>1. n \in Dates /\ n.year = y + 1 /\ n.month = 1 /\ n.day = 1
    <3>1. n = [d EXCEPT !.day = 1, !.month = 1, !.year = y + 1]
      BY <1>4 DEF Tomorrow
    <3> DEFINE k == y + 1
    <3>2. d \in Dates /\ k \in Nat
      BY <1>1
    <3> HIDE DEF n, k
    <3>3. n \in Dates
      BY <3>1, <3>2 DEF Dates, k
    <3>4. n.year = k /\ n.month = 1 /\ n.day = 1
      BY <3>1, <3>2 DEF Dates, k
    <3> QED BY <3>3, <3>4 DEF k
  <2>2. d.month = 12 /\ d.day = 31
    BY <1>1, <1>4 DEF LastDay
  <2>3. DaysFromCivil(y + 1, 1, 1) = DaysFromCivil(y, 12, 31) + 1
    BY <1>1, MonthEnds
  <2>4. LastDay(n) = 31
    BY <2>1 DEF LastDay
  <2> HIDE DEF n
  <2> QED BY <2>1, <2>2, <2>3, <2>4 DEF IsDate, DayNumber
<1> HIDE DEF n
<1> QED BY <1>2, <1>3, <1>4

LEMMA CivilToUnixType ==
  ASSUME NEW d \in Dates
  PROVE  /\ CivilToUnix(d).ok \in BOOLEAN /\ CivilToUnix(d).days \in Int
         /\ CivilToUnix(d).secs \in Nat
<1>1. ASSUME NEW y \in Nat, NEW m \in Nat, NEW n \in Nat
      PROVE  DaysFromCivil(y, m, n) \in Int
  BY DEF DaysFromCivil
<1>2. d.year \in Nat /\ d.month \in Nat /\ d.day \in Nat /\ d.h \in Nat /\ d.m \in Nat /\ d.s \in Nat
  BY DEF Dates
<1>3. DaysFromCivil(d.year, d.month, d.day) \in Int
  BY <1>1, <1>2
<1> QED BY <1>2, <1>3 DEF CivilToUnix

(* A Retry-After that names tomorrow's date, at this time of day, asks for *)
(* exactly a day, at the ends of months, years and centuries too.          *)
THEOREM TomorrowIsADay ==
  ASSUME NEW today, IsDate(today), today.year < 9999, today.h <= 23, today.m <= 59, today.s <= 60,
         NEW header \in Headers, header.form = "imf", header.date = Tomorrow(today)
  PROVE  ParseRetryAfterAt(header, CivilToUnix(today)) = SecsPerDay
<1> DEFINE n == Tomorrow(today)
           a == CivilToUnix(today)
           b == CivilToUnix(n)
<1>1. /\ today.year \in Nat /\ today.month \in 1..12 /\ today.day \in 1..31
      /\ today.h \in Nat /\ today.m \in Nat /\ today.s \in Nat /\ today \in Dates
  BY DEF IsDate, Dates, LastDay
<1>2. IsDate(n) /\ DayNumber(n) = DayNumber(today) + 1
  BY DaysAreCounted
<1>3. n.h = today.h /\ n.m = today.m /\ n.s = today.s /\ n.year <= today.year + 1
  BY <1>1 DEF Tomorrow, Dates
<1>4. n.month \in 1..12 /\ n.day \in 1..31 /\ n.year \in Nat /\ n \in Dates
  BY <1>2 DEF IsDate, Dates, LastDay
<1> HIDE DEF n
<1>5. a = [ok |-> TRUE, days |-> DayNumber(today), secs |-> today.h * 3600 + today.m * 60 + today.s]
  <2>1. /\ 0 <= today.year /\ today.year <= 9999 /\ today.month \in 1..12 /\ today.day \in 1..31
        /\ today.h <= 23 /\ today.m <= 59 /\ today.s <= 60
    BY <1>1
  <2> QED BY <2>1 DEF CivilToUnix, DayNumber
<1>6. b = [ok |-> TRUE, days |-> DayNumber(today) + 1, secs |-> today.h * 3600 + today.m * 60 + today.s]
  <2>1. /\ 0 <= n.year /\ n.year <= 9999 /\ n.month \in 1..12 /\ n.day \in 1..31
        /\ n.h <= 23 /\ n.m <= 59 /\ n.s <= 60
    BY <1>1, <1>3, <1>4
  <2>2. b = [ok |-> TRUE, days |-> DayNumber(n), secs |-> n.h * 3600 + n.m * 60 + n.s]
    BY <2>1 DEF CivilToUnix, DayNumber
  <2> QED BY <1>2, <1>3, <2>2
<1>7. DayNumber(today) \in Int
  BY <1>1, <1>5, CivilToUnixType
<1> HIDE DEF a, b
<1>8. ParseHttpDate(header) = b
  BY DEF ParseHttpDate, b, n
<1>9. ParseRetryAfterAt(header, a) = GreaterOf((b.days - a.days) * SecsPerDay + b.secs - a.secs, 0)
  BY <1>6, <1>8 DEF ParseRetryAfterAt
<1>10. (b.days - a.days) * SecsPerDay + b.secs - a.secs = SecsPerDay
  BY <1>1, <1>5, <1>6, <1>7 DEF SecsPerDay
<1> QED BY <1>9, <1>10 DEF GreaterOf, SecsPerDay, a

LEMMA RetryAfterType ==
  ASSUME NEW header \in Headers, NEW today \in Dates
  PROVE  ParseRetryAfterAt(header, CivilToUnix(today)) \in {None} \cup Nat
<1> DEFINE target == ParseHttpDate(header)
           a == CivilToUnix(today)
           delta == (target.days - a.days) * SecsPerDay + target.secs - a.secs
<1>1. header.secs \in Nat /\ header.date \in Dates
  BY DEF Headers
<1>2. target.days \in Int /\ target.secs \in Nat
  <2> DEFINE d == IF header.form = "rfc850"
                  THEN [header.date EXCEPT !.year = Windowed(header.date.year)]
                  ELSE header.date
  <2>1. d \in Dates
    BY <1>1 DEF Dates, Windowed
  <2> HIDE DEF d
  <2>2. CivilToUnix(d).days \in Int /\ CivilToUnix(d).secs \in Nat
    BY <2>1, CivilToUnixType
  <2>3. target = CivilToUnix(d)
    BY DEF ParseHttpDate, d
  <2> QED BY <2>2, <2>3
<1>3. a.days \in Int /\ a.secs \in Nat
  BY CivilToUnixType
<1> HIDE DEF target, a
<1>4. delta \in Int
  BY <1>2, <1>3 DEF SecsPerDay
<1>5. GreaterOf(delta, 0) \in Nat
  <2> HIDE DEF delta
  <2> QED BY <1>4 DEF GreaterOf
<1>6. ParseRetryAfterAt(header, a) \in {header.secs, None, GreaterOf(delta, 0)}
  BY DEF ParseRetryAfterAt, target
<1> QED BY <1>1, <1>5, <1>6 DEF a

(***************************************************************************)
(* The calls.  That attempts stay within maxAttempts and that none starts  *)
(* late is decided one step earlier, when drive goes to sleep: a sleeper   *)
(* has an attempt left, and its wait ends in time.                         *)
(***************************************************************************)
LEMMA ConfTypes ==
  ASSUME conf \in Configs
  PROVE  /\ conf.users \subseteq Handles /\ conf.maxAttempts \in Nat \ {0}
         /\ conf.policy.base \in Nat /\ conf.policy.increment \in Nat
         /\ conf.policy.max \in 0..U64Max
         /\ conf.maxRetryAfter \in 0..U64Max /\ conf.maxElapsed \in {None} \cup Nat
         /\ conf.hints \subseteq Headers /\ conf.now \in Dates /\ conf.runTimes \subseteq Nat
         /\ conf.deposit \in Nat /\ conf.floor \in Nat /\ conf.maxRetries \in Nat
BY ConfigsAssumption

(* What is known of a call while it is in flight. *)
Prudent(t) ==
  /\ task[t].attempt <= conf.maxAttempts
  /\ task[t].pc = "idle" => task[t].attempt = 1
  /\ task[t].pc = "sleeping" =>
       /\ task[t].attempt < conf.maxAttempts
       /\ conf.maxElapsed # None => SatAdd(task[t].elapsed, task[t].wait) <= conf.maxElapsed
  /\ task[t].pc = "attempt" /\ task[t].attempt > 1 /\ conf.maxElapsed # None =>
       task[t].elapsed <= conf.maxElapsed

TasksInv ==
  /\ conf \in Configs
  /\ task \in [Tasks -> TaskStates]
  /\ \A t \in Tasks : Prudent(t)

(* A step of one call. *)
OnlyTask(t) ==
  /\ task' \in [Tasks -> TaskStates] /\ conf' = conf
  /\ \A u \in Tasks : u # t => task'[u] = task[u]

LEMMA OneTask ==
  ASSUME TasksInv, NEW t \in Tasks, OnlyTask(t), Prudent(t)'
  PROVE  TasksInv'
<1>1. ASSUME NEW u \in Tasks, u # t
      PROVE  Prudent(u)'
  BY <1>1 DEF TasksInv, OnlyTask, Prudent
<1> QED BY <1>1 DEF TasksInv, OnlyTask

LEMMA SatAddType ==
  ASSUME NEW a \in Nat, NEW b \in Nat
  PROVE  SatAdd(a, b) \in 0..U64Max
BY StackAssumption DEF SatAdd, LesserOf

LEMMA TasksSame ==
  ASSUME TasksInv, UNCHANGED <<conf, task>>
  PROVE  TasksInv'
BY DEF TasksInv, Prudent

(* What a retry decides. *)
LEMMA RetryDecides ==
  ASSUME TasksInv, NEW t \in Tasks, Retry(t)
  PROVE  \E hint \in conf.hints :
           LET after == ParseRetryAfterAt(hint, CivilToUnix(conf.now))
               x == task'[t]
           IN  /\ after \in {None} \cup Nat
               /\ Honored(after)
               /\ OnlyTask(t)
               /\ x.pc = "sleeping" /\ x.attempt = task[t].attempt /\ x.elapsed = task[t].elapsed
               /\ InTime(t, x.wait)
               /\ x.asked = hint.asked
               /\ IF conf.respect /\ after # None THEN x.wait = after
                  ELSE x.wait <= conf.policy.max
<1>0. /\ conf \in Configs /\ task \in [Tasks -> TaskStates] /\ task[t] \in TaskStates
      /\ conf' = conf
  BY DEF TasksInv, Retry
<1>1. PICK hint \in conf.hints :
        LET after == ParseRetryAfterAt(hint, CivilToUnix(conf.now))
        IN  /\ Honored(after)
            /\ \E w \in Waits(t, after) :
                 /\ InTime(t, w.delay)
                 /\ task' = [task EXCEPT ![t].pc = "sleeping", ![t].wait = w.delay,
                                         ![t].previous = w.previous, ![t].asked = hint.asked]
  BY DEF Retry
<1> DEFINE after == ParseRetryAfterAt(hint, CivilToUnix(conf.now))
<1>2. hint \in Headers /\ hint.asked \in {None} \cup Nat /\ after \in {None} \cup Nat
  <2>1. hint \in Headers /\ conf.now \in Dates
    BY <1>0, <1>1, ConfTypes
  <2> QED BY <2>1, RetryAfterType DEF Headers
<1> HIDE DEF after
<1>3. PICK w \in Waits(t, after) :
        /\ InTime(t, w.delay)
        /\ task' = [task EXCEPT ![t].pc = "sleeping", ![t].wait = w.delay,
                                ![t].previous = w.previous, ![t].asked = hint.asked]
  BY <1>1 DEF after
<1>4. Honored(after)
  BY <1>1 DEF after
<1>5. PICK next \in NextDelay(conf.policy, task[t].attempt - 1, task[t].previous) :
        w = [next EXCEPT !.delay = IF conf.respect /\ after # None THEN after ELSE @]
  BY <1>3 DEF Waits
<1>6. next \in [delay : 0..conf.policy.max, previous : Nat]
  <2>1. task[t].attempt - 1 \in Nat /\ task[t].previous \in Nat
    BY <1>0 DEF TaskStates
  <2>2. /\ conf.policy.base \in Nat /\ conf.policy.increment \in Nat /\ conf.policy.max \in Nat
    BY <1>0, ConfTypes, StackAssumption
  <2> QED BY <1>5, <2>1, <2>2, DelayWithinCeiling
<1>7. /\ w.previous \in Nat
      /\ IF conf.respect /\ after # None THEN w.delay = after ELSE w.delay \in 0..conf.policy.max
  <2>1. /\ w.previous = next.previous
        /\ w.delay = IF conf.respect /\ after # None THEN after ELSE next.delay
    BY <1>5, <1>6
  <2>2. next.previous \in Nat /\ next.delay \in 0..conf.policy.max
    BY <1>6
  <2> QED BY <2>1, <2>2
<1>8. w.delay \in 0..U64Max
  <2>1. conf.policy.max \in 0..U64Max /\ conf.maxRetryAfter \in 0..U64Max
    BY <1>0, ConfTypes
  <2>2. CASE conf.respect /\ after # None
    BY <1>2, <1>4, <1>7, <2>1, <2>2, StackAssumption DEF Honored
  <2>3. CASE ~(conf.respect /\ after # None)
    BY <1>7, <2>1, <2>3, StackAssumption
  <2> QED BY <2>2, <2>3
<1> DEFINE x == [task[t] EXCEPT !.pc = "sleeping", !.wait = w.delay,
                                !.previous = w.previous, !.asked = hint.asked]
<1>9. task' = [task EXCEPT ![t] = x]
  BY <1>0, <1>3
<1>10. /\ x.pc = "sleeping" /\ x.attempt = task[t].attempt /\ x.elapsed = task[t].elapsed
       /\ x.wait = w.delay /\ x.previous = w.previous /\ x.asked = hint.asked
  BY <1>0 DEF TaskStates
<1>11. x \in TaskStates
  BY <1>0, <1>2, <1>7, <1>8 DEF TaskStates
<1>12. task'[t] = x /\ OnlyTask(t)
  <2> HIDE DEF x
  <2> QED BY <1>0, <1>9, <1>11 DEF OnlyTask
<1> HIDE DEF x
<1>13. IF conf.respect /\ after # None THEN x.wait = after ELSE x.wait <= conf.policy.max
  BY <1>7, <1>10
<1> QED BY <1>1, <1>2, <1>3, <1>4, <1>10, <1>12, <1>13 DEF after

(* Every step of a call keeps its promises. *)
LEMMA TasksStep ==
  ASSUME TasksInv, [Next]_vars
  PROVE  TasksInv'
<1>0. conf \in Configs /\ task \in [Tasks -> TaskStates] /\ \A t \in Tasks : task[t] \in TaskStates
  BY DEF TasksInv
<1>1. ASSUME NEW t \in Tasks, Begin(t)
      PROVE  TasksInv'
  <2>1. OnlyTask(t) /\ Prudent(t)'
    BY <1>0, <1>1, ConfTypes DEF TasksInv, Begin, OnlyTask, Prudent, TaskStates
  <2> QED BY <2>1, OneTask
<1>2. ASSUME NEW t \in Tasks, HedgeReturns(t)
      PROVE  TasksInv'
  <2>1. PICK d \in conf.runTimes, q \in {"done", "failed"} :
          task' = [task EXCEPT ![t].pc = q, ![t].elapsed = SatAdd(@, d)]
    <3>1. (IF HedgeResult(t) = "ok" THEN "done" ELSE "failed") \in {"done", "failed"}
      OBVIOUS
    <3> QED BY <1>2, <3>1 DEF HedgeReturns
  <2>2. SatAdd(task[t].elapsed, d) \in 0..U64Max
    <3>1. task[t].elapsed \in Nat /\ d \in Nat
      BY <1>0, <2>1, ConfTypes, StackAssumption DEF TaskStates
    <3> QED BY <3>1, SatAddType
  <2>3. /\ OnlyTask(t) /\ task'[t].attempt = task[t].attempt
        /\ task'[t].pc \in {"done", "failed"}
    <3> DEFINE e == SatAdd(task[t].elapsed, d)
               x == [task[t] EXCEPT !.pc = q, !.elapsed = e]
    <3>1. task' = [task EXCEPT ![t] = x] /\ conf' = conf
      BY <1>0, <1>2, <2>1 DEF HedgeReturns
    <3> HIDE DEF e
    <3>2. x \in TaskStates /\ x.attempt = task[t].attempt /\ x.pc = q
      BY <1>0, <2>1, <2>2 DEF TaskStates, e
    <3> HIDE DEF x
    <3> QED BY <1>0, <2>1, <3>1, <3>2 DEF OnlyTask
  <2>4. Prudent(t)'
    BY <2>3 DEF TasksInv, Prudent, OnlyTask
  <2> QED BY <2>3, <2>4, OneTask
<1>3. ASSUME NEW t \in Tasks, Retry(t)
      PROVE  TasksInv'
  <2>1. /\ OnlyTask(t) /\ task'[t].pc = "sleeping" /\ task'[t].attempt = task[t].attempt
        /\ task'[t].elapsed = task[t].elapsed /\ InTime(t, task'[t].wait)
    BY <1>3, RetryDecides
  <2>2. task[t].attempt < conf.maxAttempts
    BY <1>3 DEF Retry
  <2>3. Prudent(t)'
    <3>1. /\ task[t].attempt \in Nat /\ task[t].attempt < conf.maxAttempts
          /\ conf.maxAttempts \in Nat /\ conf' = conf
          /\ conf.maxElapsed # None
               => SatAdd(task[t].elapsed, task'[t].wait) <= conf.maxElapsed
      BY <1>0, <2>1, <2>2, ConfTypes DEF InTime, OnlyTask, TaskStates
    <3> QED BY <2>1, <3>1 DEF Prudent
  <2> QED BY <2>1, <2>3, OneTask
<1>4. ASSUME NEW t \in Tasks, Stop(t) \/ FallBack(t) \/ TimeOut(t)
      PROVE  TasksInv'
  <2>1. PICK q \in {"fallback", "done"} : task' = [task EXCEPT ![t].pc = q]
    BY <1>4 DEF Stop, FallBack, TimeOut
  <2>2. OnlyTask(t) /\ task'[t].attempt = task[t].attempt /\ task'[t].pc \in {"fallback", "done"}
    BY <1>0, <1>4, <2>1 DEF Stop, FallBack, TimeOut, OnlyTask, TaskStates
  <2>3. Prudent(t)'
    BY <2>2 DEF TasksInv, Prudent, OnlyTask
  <2> QED BY <2>2, <2>3, OneTask
<1>5. ASSUME NEW t \in Tasks, Wake(t)
      PROVE  TasksInv'
  <2>1. SatAdd(task[t].elapsed, task[t].wait) \in 0..U64Max
    <3>1. task[t].elapsed \in Nat /\ task[t].wait \in Nat
      BY <1>0, StackAssumption DEF TaskStates
    <3> QED BY <3>1, SatAddType
  <2>2. /\ OnlyTask(t) /\ task[t].pc = "sleeping" /\ task'[t].pc = "attempt"
        /\ task'[t].attempt = task[t].attempt + 1
        /\ task'[t].elapsed = SatAdd(task[t].elapsed, task[t].wait)
    <3> DEFINE e == SatAdd(task[t].elapsed, task[t].wait)
               a == task[t].attempt + 1
               x == [task[t] EXCEPT !.pc = "attempt", !.elapsed = e, !.attempt = a,
                                    !.wait = 0, !.asked = None]
    <3>1. task' = [task EXCEPT ![t] = x] /\ conf' = conf /\ task[t].pc = "sleeping"
      BY <1>0, <1>5 DEF Wake
    <3>0. e \in 0..U64Max /\ 0 \in 0..U64Max /\ a \in Nat \ {0}
      BY <1>0, <2>1, StackAssumption DEF TaskStates
    <3> HIDE DEF e, a
    <3>2. /\ x \in TaskStates /\ x.attempt = a /\ x.pc = "attempt"
          /\ x.elapsed = e
      <4>1. task[t] \in TaskStates
        BY <1>0
      <4>2. x \in TaskStates
        BY <3>0, <4>1 DEF TaskStates
      <4> QED BY <4>1, <4>2 DEF TaskStates
    <3> HIDE DEF x
    <3> QED BY <1>0, <3>1, <3>2 DEF OnlyTask, e, a
  <2>3. Prudent(t)'
    <3>1. /\ task[t].attempt \in Nat /\ task[t].attempt < conf.maxAttempts
          /\ conf.maxAttempts \in Nat /\ conf' = conf
          /\ conf.maxElapsed # None
               => SatAdd(task[t].elapsed, task[t].wait) <= conf.maxElapsed
      BY <1>0, <2>2, ConfTypes DEF TasksInv, Prudent, OnlyTask, TaskStates
    <3> QED BY <2>2, <3>1 DEF Prudent
  <2> QED BY <2>2, <2>3, OneTask
<1>6. CASE UNCHANGED <<conf, task>>
  BY <1>6, TasksSame
<1>7. ASSUME NEW t \in Tasks, HedgeNotes(t) \/ HedgeStarts(t)
      PROVE  UNCHANGED <<conf, task>>
  BY <1>7 DEF HedgeNotes, HedgeStarts
<1>8. ASSUME NEW h \in Handles, LegStep(h) \/ LegRefused(h) \/ LegAnswered(h)
      PROVE  UNCHANGED <<conf, task>>
  BY <1>8 DEF LegStep, LegRefused, LegAnswered, stackVars
<1>9. CASE UNCHANGED stackVars \/ Accrue
  BY <1>6, <1>9 DEF Accrue, stackVars
<1>10. CASE UNCHANGED vars
  BY <1>6, <1>10 DEF vars, stackVars
<1> QED BY <1>1, <1>2, <1>3, <1>4, <1>5, <1>6, <1>7, <1>8, <1>9, <1>10 DEF Next, Turn

(***************************************************************************)
(* The budget.                                                             *)
(***************************************************************************)
Started == {t \in Tasks : task[t].pc # "idle"}

BudgetInv ==
  /\ conf \in Configs
  /\ budget \in 0..BudgetCap
  /\ spent \in [retries : Nat, accrued : 0..MaxAccruals]
  /\ conf.budgeted =>
       spent.retries * Milli + budget
         <= Floor * (1 + spent.accrued) + conf.deposit * Cardinality(Started)

LEMMA BudgetTypes ==
  ASSUME conf \in Configs
  PROVE  BudgetCap \in Nat /\ Floor \in Nat /\ conf.deposit \in Nat /\ Milli \in Nat \ {0}
<1>1. conf.maxRetries \in Nat /\ conf.floor \in Nat /\ conf.deposit \in Nat
  BY ConfTypes
<1>2. GreaterOf(conf.maxRetries, 1) * Milli \in Nat /\ conf.floor * Milli \in Nat
  <2>1. GreaterOf(conf.maxRetries, 1) \in Nat
    BY <1>1 DEF GreaterOf
  <2> QED BY <1>1, <2>1, StackAssumption
<1>3. BudgetCap \in Nat
  BY <1>2 DEF BudgetCap
<1> QED BY <1>1, <1>2, <1>3, StackAssumption DEF Floor, LesserOf

(* Neither the balance nor who has started changes. *)
LEMMA BudgetSame ==
  ASSUME BudgetInv, UNCHANGED <<conf, budget, spent>>,
         \A t \in Tasks : (task'[t].pc = "idle") <=> (task[t].pc = "idle")
  PROVE  BudgetInv'
<1>1. Started' = Started
  BY DEF Started
<1>2. BudgetCap' = BudgetCap /\ Floor' = Floor
  BY DEF BudgetCap, Floor
<1> QED BY <1>1, <1>2 DEF BudgetInv

LEMMA BudgetStep ==
  ASSUME TasksInv, BudgetInv, [Next]_vars
  PROVE  BudgetInv'
<1> DEFINE n == Cardinality(Started)
<1>0. /\ conf \in Configs /\ task \in [Tasks -> TaskStates]
      /\ budget \in 0..BudgetCap /\ spent \in [retries : Nat, accrued : 0..MaxAccruals]
      /\ BudgetCap \in Nat /\ Floor \in Nat /\ conf.deposit \in Nat /\ Milli \in Nat \ {0}
      /\ MaxAccruals \in Nat
  BY BudgetTypes, StackAssumption DEF BudgetInv, TasksInv
<1>1. IsFiniteSet(Started) /\ n \in Nat
  <2>1. IsFiniteSet(Started)
    BY StackAssumption, FS_Subset DEF Started
  <2> QED BY <2>1, FS_CardinalityType
<1>2. ASSUME conf' = conf
      PROVE  BudgetCap' = BudgetCap /\ Floor' = Floor
  BY <1>2 DEF BudgetCap, Floor
<1>3. ASSUME NEW t \in Tasks, Begin(t)
      PROVE  BudgetInv'
  <2>1. conf' = conf /\ spent' = spent /\ Deposit
    BY <1>3 DEF Begin
  <2>2. Started \ {t} = Started' \ {t} /\ t \in Started' /\ t \notin Started
    BY <1>0, <1>3 DEF Begin, Started, TaskStates
  <2>3. n' = n + 1
    BY <1>1, <2>2, OneChanged DEF Bit
  <2> HIDE DEF n
  <2>4. budget' \in 0..BudgetCap /\ (conf.budgeted => budget' <= budget + conf.deposit)
    BY <1>0, <2>1 DEF Deposit, LesserOf
  <2>5. conf.deposit * (n + 1) = conf.deposit * n + conf.deposit
    <3>1. conf.deposit \in Nat /\ n \in Nat
      BY <1>0, <1>1
    <3> QED BY <3>1, Products
  <2>6. /\ spent.retries * Milli \in Nat /\ Floor * (1 + spent.accrued) \in Nat
        /\ conf.deposit * n \in Nat
    <3>1. /\ spent.retries \in Nat /\ Milli \in Nat /\ Floor \in Nat /\ 1 + spent.accrued \in Nat
          /\ conf.deposit \in Nat /\ n \in Nat
      BY <1>0, <1>1
    <3> QED BY <3>1, Products
  <2>7. conf.budgeted => spent.retries * Milli + budget
                           <= Floor * (1 + spent.accrued) + conf.deposit * n
    BY DEF BudgetInv, n
  <2>8. conf.budgeted => spent.retries * Milli + budget'
                           <= Floor * (1 + spent.accrued) + conf.deposit * (n + 1)
    <3> DEFINE a == spent.retries * Milli
               b == Floor * (1 + spent.accrued)
               c == conf.deposit * n
               e == conf.deposit * (n + 1)
    <3>1. /\ a \in Nat /\ b \in Nat /\ c \in Nat /\ e = c + conf.deposit
          /\ conf.budgeted => a + budget <= b + c
      BY <2>5, <2>6, <2>7
    <3> HIDE DEF a, b, c, e
    <3>2. conf.budgeted => a + budget' <= b + e
      BY <1>0, <2>4, <3>1
    <3> QED BY <3>2 DEF a, b, e
  <2> QED BY <1>0, <1>2, <2>1, <2>3, <2>4, <2>8 DEF BudgetInv, n
<1>4. ASSUME NEW t \in Tasks, Retry(t)
      PROVE  BudgetInv'
  <2>1. /\ conf' = conf /\ Withdraw /\ spent' = [spent EXCEPT !.retries = @ + 1]
        /\ task[t].pc = "failed"
    BY <1>4 DEF Retry
  <2>2. /\ spent' \in [retries : Nat, accrued : 0..MaxAccruals]
        /\ spent'.retries = spent.retries + 1 /\ spent'.accrued = spent.accrued
    BY <1>0, <2>1
  <2>3. Started' = Started
    <3>1. OnlyTask(t) /\ task'[t].pc = "sleeping"
      BY <1>4, RetryDecides
    <3> QED BY <2>1, <3>1 DEF Started, OnlyTask
  <2>4. CASE conf.budgeted
    <3>1. budget >= Milli /\ budget' = budget - Milli
      BY <2>1, <2>4 DEF Withdraw
    <3>2. spent.retries \in Nat /\ Milli \in Nat
      BY <1>0
    <3>3. /\ (spent.retries + 1) * Milli = spent.retries * Milli + Milli
          /\ spent.retries * Milli \in Nat
      BY <3>2, Products
    <3>4. (spent.retries + 1) * Milli + budget' = spent.retries * Milli + budget
      <4> DEFINE a == spent.retries * Milli
      <4>1. a \in Nat /\ (spent.retries + 1) * Milli = a + Milli
        BY <3>3
      <4> HIDE DEF a
      <4>2. a + Milli + budget' = a + budget
        BY <1>0, <3>1, <4>1
      <4> QED BY <4>1, <4>2 DEF a
    <3>5. budget' \in 0..BudgetCap
      BY <1>0, <3>1
    <3> QED BY <1>2, <2>1, <2>2, <2>3, <2>4, <3>4, <3>5 DEF BudgetInv
  <2>5. CASE ~conf.budgeted
    BY <1>2, <2>1, <2>2, <2>3, <2>5 DEF BudgetInv, Withdraw
  <2> QED BY <2>4, <2>5
<1>5. CASE Accrue
  <2>1. /\ conf' = conf /\ task' = task /\ budget' = LesserOf(BudgetCap, budget + Floor)
        /\ spent' = [spent EXCEPT !.accrued = @ + 1] /\ spent.accrued < MaxAccruals
    BY <1>5 DEF Accrue
  <2>2. /\ spent' \in [retries : Nat, accrued : 0..MaxAccruals]
        /\ spent'.retries = spent.retries /\ spent'.accrued = spent.accrued + 1
    BY <1>0, <2>1
  <2>3. budget' \in 0..BudgetCap /\ budget' <= budget + Floor
    BY <1>0, <2>1 DEF LesserOf
  <2>4. Started' = Started
    BY <2>1 DEF Started
  <2>5. conf.budgeted => spent.retries * Milli + budget'
                           <= Floor * (1 + (spent.accrued + 1)) + conf.deposit * n
    <3> DEFINE a == spent.retries * Milli
               b == Floor * (1 + spent.accrued)
               c == conf.deposit * n
               e == Floor * (1 + (spent.accrued + 1))
    <3>1. a \in Nat /\ b \in Nat /\ c \in Nat /\ e \in Nat /\ e = b + Floor
      <4> DEFINE k == 1 + spent.accrued
      <4>1. /\ spent.retries \in Nat /\ Milli \in Nat /\ Floor \in Nat /\ k \in Nat
            /\ conf.deposit \in Nat /\ n \in Nat /\ 1 + (spent.accrued + 1) = k + 1
        BY <1>0, <1>1
      <4>2. e = Floor * (k + 1)
        BY <4>1
      <4> HIDE DEF k, n, e
      <4>3. a \in Nat /\ c \in Nat /\ Floor * k \in Nat /\ Floor * (k + 1) = Floor * k + Floor
        BY <4>1, Products
      <4> QED BY <4>1, <4>2, <4>3 DEF k
    <3>2. conf.budgeted => a + budget <= b + c
      BY DEF BudgetInv
    <3> HIDE DEF a, b, c, e
    <3>3. /\ budget \in Nat /\ budget' \in Nat /\ Floor \in Nat
          /\ budget' <= budget + Floor
      BY <1>0, <2>3
    <3>4. ASSUME NEW f \in Nat, NEW u \in Nat, NEW v \in Nat, v <= u + f, a + u <= b + c, e = b + f
          PROVE  a + v <= e + c
      BY <3>1, <3>4
    <3> QED BY <3>1, <3>2, <3>3, <3>4 DEF a, c, e
  <2> QED BY <1>2, <2>1, <2>2, <2>3, <2>4, <2>5 DEF BudgetInv
<1>6. ASSUME NEW t \in Tasks, HedgeReturns(t) \/ Stop(t) \/ Wake(t) \/ FallBack(t) \/ TimeOut(t)
      PROVE  BudgetInv'
  <2>1. /\ UNCHANGED <<conf, budget, spent>> /\ task[t].pc # "idle"
    BY <1>6 DEF HedgeReturns, Stop, Wake, FallBack, TimeOut
  <2>2. /\ task'[t].pc # "idle"
        /\ \A u \in Tasks : u # t => task'[u] = task[u]
    BY <1>0, <1>6 DEF HedgeReturns, Stop, Wake, FallBack, TimeOut, TaskStates
  <2> QED BY <2>1, <2>2, BudgetSame
<1>7. CASE UNCHANGED <<conf, task, budget, spent>>
  BY <1>7, BudgetSame
<1>8. ASSUME NEW t \in Tasks, HedgeNotes(t) \/ HedgeStarts(t)
      PROVE  BudgetInv'
  BY <1>7, <1>8 DEF HedgeNotes, HedgeStarts
<1>9. ASSUME NEW h \in Handles, LegStep(h) \/ LegRefused(h) \/ LegAnswered(h)
      PROVE  BudgetInv'
  BY <1>7, <1>9 DEF LegStep, LegRefused, LegAnswered, stackVars
<1>10. CASE UNCHANGED stackVars \/ UNCHANGED vars
  BY <1>7, <1>10 DEF stackVars, vars
<1> QED BY <1>3, <1>4, <1>5, <1>6, <1>8, <1>9, <1>10 DEF Next, Turn

(***************************************************************************)
(* The whole.                                                              *)
(***************************************************************************)
LegsTyped == leg \in [Handles -> {"none", "run", "refused", "done"}]

Inv == TowerInv /\ TasksInv /\ BudgetInv /\ LegsTyped

LEMMA InvStart == Init => Inv
<1> SUFFICES ASSUME Init
             PROVE  Inv
  OBVIOUS
<1>1. TowerInv
  BY TowerStart DEF Init
<1>2. conf \in Configs
  BY DEF Init
<1>3. /\ \A t \in Tasks : task[t].pc = "idle" /\ task[t].attempt = 1
      /\ task \in [Tasks -> TaskStates]
  BY <1>2, ConfTypes, StackAssumption DEF Init, TaskStates
<1>4. TasksInv
  BY <1>2, <1>3, ConfTypes DEF TasksInv, Prudent
<1>5. Started = {} /\ Cardinality(Started) = 0
  BY <1>3, FS_EmptySet DEF Started
<1>6. BudgetInv
  <2>1. /\ BudgetCap \in Nat /\ Floor \in Nat /\ conf.deposit \in Nat /\ Milli \in Nat \ {0}
        /\ Floor <= BudgetCap
    <3>1. conf.floor * Milli \in Nat
      BY <1>2, ConfTypes, StackAssumption
    <3> QED BY <1>2, <3>1, BudgetTypes DEF Floor, LesserOf
  <2>2. /\ budget = Floor /\ spent = [retries |-> 0, accrued |-> 0] /\ MaxAccruals \in Nat
    BY StackAssumption DEF Init
  <2> QED BY <1>2, <1>5, <2>1, <2>2 DEF BudgetInv
<1>7. LegsTyped
  BY DEF Init, LegsTyped
<1> QED BY <1>1, <1>4, <1>6, <1>7 DEF Inv

LEMMA TowerStep ==
  ASSUME TowerInv, TasksInv, [Next]_vars
  PROVE  TowerInv'
<1>1. ASSUME NEW t \in Tasks
      PROVE  Primary[t] \in Handles /\ Secondary[t] \in Handles /\ Legs(t) \subseteq Handles
  BY StackAssumption DEF Legs
<1>2. ASSUME NEW t \in Tasks, Begin(t) \/ Wake(t)
      PROVE  TowerInv'
  <2>1. Layer(Primary[t])
    BY <1>2 DEF Begin, Wake, StartAttempt
  <2> QED BY <1>1, <2>1, HandleStep
<1>3. ASSUME NEW t \in Tasks, HedgeStarts(t)
      PROVE  TowerInv'
  <2>1. Layer(Secondary[t])
    BY <1>3 DEF HedgeStarts
  <2> QED BY <1>1, <2>1, HandleStep
<1>4. ASSUME NEW t \in Tasks, HedgeNotes(t)
      PROVE  TowerInv'
  <2> DEFINE failed == {h \in Legs(t) : Out(h) = "err"}
  <2>1. failed \in SUBSET Handles /\ {} \in SUBSET Handles /\ Drop({}, failed)
    BY <1>1, <1>4 DEF HedgeNotes
  <2> HIDE DEF failed
  <2> QED BY <2>1, DropStep
<1>5. ASSUME NEW t \in Tasks, HedgeReturns(t) \/ TimeOut(t)
      PROVE  TowerInv'
  <2>1. Drop(Legs(t), Legs(t)) /\ Legs(t) \in SUBSET Handles
    BY <1>1, <1>5 DEF HedgeReturns, TimeOut, DropLegs
  <2> QED BY <2>1, DropStep
<1>6. ASSUME NEW t \in Tasks, Retry(t) \/ Stop(t) \/ FallBack(t)
      PROVE  TowerInv'
  BY <1>6, TowerSame DEF Retry, Stop, FallBack
<1>7. ASSUME NEW h \in Handles, LegStep(h)
      PROVE  TowerInv'
  BY <1>7, HandleStep DEF LegStep
<1>8. ASSUME NEW h \in Handles, LegRefused(h)
      PROVE  TowerInv'
  BY <1>8, HandleStep, TowerSame DEF LegRefused
<1>9. ASSUME NEW h \in Handles, LegAnswered(h)
      PROVE  TowerInv'
  BY <1>9, HandleStep DEF LegAnswered
<1>10. ASSUME NEW h \in conf.users, Use(h)
       PROVE  TowerInv'
  <2>1. h \in Handles
    BY ConfTypes DEF TasksInv
  <2>2. CASE \E g \in Handles : Clone(h, g)
    <3>1. PICK g \in Handles : Clone(h, g)
      BY <2>2
    <3> QED BY <2>1, <3>1, HandleStep
  <2>3. CASE Layer(h) \/ Poll(h) \/ Call(h) \/ CallUnready(h) \/ Answer(h)
    BY <2>1, <2>3, HandleStep DEF Poll
  <2>4. CASE Drop({}, {h}) \/ Drop({h}, {})
    <3>1. {} \in SUBSET Handles /\ {h} \in SUBSET Handles
      BY <2>1
    <3> QED BY <2>4, <3>1, DropStep
  <2> QED BY <1>10, <2>2, <2>3, <2>4 DEF Use
<1>11. CASE Refill
  BY <1>11, RefillStep
<1>12. CASE Accrue \/ UNCHANGED vars
  BY <1>12, TowerSame DEF Accrue, vars
<1> QED BY <1>2, <1>3, <1>4, <1>5, <1>6, <1>7, <1>8, <1>9, <1>10, <1>11, <1>12 DEF Next, Turn

LEMMA LegsStep ==
  ASSUME LegsTyped, [Next]_vars
  PROVE  LegsTyped'
<1>1. ASSUME NEW t \in Tasks, Begin(t) \/ Wake(t) \/ HedgeStarts(t)
      PROVE  LegsTyped'
  BY <1>1 DEF Begin, Wake, HedgeStarts, StartAttempt, LegsTyped
<1>2. ASSUME NEW t \in Tasks, HedgeNotes(t) \/ HedgeReturns(t) \/ TimeOut(t)
      PROVE  LegsTyped'
  BY <1>2 DEF HedgeNotes, HedgeReturns, TimeOut, DropLegs, LegsTyped
<1>3. ASSUME NEW t \in Tasks, Retry(t) \/ Stop(t) \/ FallBack(t)
      PROVE  LegsTyped'
  BY <1>3 DEF Retry, Stop, FallBack, LegsTyped
<1>4. ASSUME NEW h \in Handles, LegStep(h) \/ LegRefused(h) \/ LegAnswered(h)
      PROVE  LegsTyped'
  BY <1>4 DEF LegStep, LegRefused, LegAnswered, LegsTyped, stackVars
<1>5. CASE UNCHANGED stackVars \/ Accrue \/ UNCHANGED vars
  BY <1>5 DEF stackVars, vars, Accrue, LegsTyped
<1> QED BY <1>1, <1>2, <1>3, <1>4, <1>5 DEF Next, Turn

LEMMA Invariance == Spec => []Inv
<1>1. Inv /\ [Next]_vars => Inv'
  BY TowerStep, TasksStep, BudgetStep, LegsStep DEF Inv
<1> QED BY <1>1, InvStart, PTL DEF Spec

(* Nothing leaks: units, permits and outcomes balance, whatever is cloned, *)
(* dropped, called early, hedged, retried or timed out.                    *)
THEOREM NothingEverLeaks == Spec => []NothingLeaks
<1>1. Inv => NothingLeaks
  BY DEF Inv, TowerInv
<1> QED BY <1>1, Invariance, PTL

(* The types hold, and the retries of all calls together cost no more than *)
(* the budget was given.                                                   *)
THEOREM RetriesWithinBudget == Spec => []BudgetBound
<1>1. Inv => BudgetBound
  <2> SUFFICES ASSUME Inv
               PROVE  BudgetBound
    OBVIOUS
  <2>1. TypeOK
    BY DEF Inv, TowerInv, TasksInv, BudgetInv, LegsTyped, Prudent, TypeOK
  <2> QED BY <2>1 DEF Inv, BudgetInv, BudgetBound, Started
<1> QED BY <1>1, Invariance, PTL

(* What a header asks for is what the server meant by it. *)
HintsAgree ==
  \A c \in Configs : \A hint \in c.hints :
    ParseRetryAfterAt(hint, CivilToUnix(c.now)) = hint.asked

(* What is known of a sleeper's wait. *)
WaitsAsAsked ==
  \A t \in Tasks : task[t].pc = "sleeping" =>
    IF conf.respect /\ task[t].asked # None
    THEN task[t].wait = task[t].asked /\ task[t].wait <= conf.maxRetryAfter
    ELSE task[t].wait <= conf.policy.max

LEMMA WaitsStep ==
  ASSUME HintsAgree, TasksInv, WaitsAsAsked, [Next]_vars
  PROVE  WaitsAsAsked'
<1>0. conf \in Configs /\ task \in [Tasks -> TaskStates] /\ \A t \in Tasks : task[t] \in TaskStates
  BY DEF TasksInv
<1>1. ASSUME NEW t \in Tasks, conf' = conf, task'[t].pc # "sleeping",
             \A u \in Tasks : u # t => task'[u] = task[u]
      PROVE  WaitsAsAsked'
  BY <1>1 DEF WaitsAsAsked
<1>2. ASSUME NEW t \in Tasks,
             Begin(t) \/ HedgeReturns(t) \/ Stop(t) \/ Wake(t) \/ FallBack(t) \/ TimeOut(t)
      PROVE  WaitsAsAsked'
  <2>1. /\ conf' = conf /\ task'[t].pc # "sleeping"
        /\ \A u \in Tasks : u # t => task'[u] = task[u]
    BY <1>0, <1>2 DEF Begin, HedgeReturns, Stop, Wake, FallBack, TimeOut, TaskStates
  <2> QED BY <1>1, <2>1
<1>3. ASSUME NEW t \in Tasks, Retry(t)
      PROVE  WaitsAsAsked'
  <2> DEFINE x == task'[t]
  <2>1. PICK hint \in conf.hints :
          /\ Honored(ParseRetryAfterAt(hint, CivilToUnix(conf.now)))
          /\ OnlyTask(t)
          /\ x.asked = hint.asked
          /\ IF conf.respect /\ ParseRetryAfterAt(hint, CivilToUnix(conf.now)) # None
             THEN x.wait = ParseRetryAfterAt(hint, CivilToUnix(conf.now))
             ELSE x.wait <= conf.policy.max
    BY <1>3, RetryDecides
  <2>2. ParseRetryAfterAt(hint, CivilToUnix(conf.now)) = hint.asked
    BY <1>0, <2>1 DEF HintsAgree
  <2>3. IF conf.respect /\ x.asked # None
        THEN x.wait = x.asked /\ x.wait <= conf.maxRetryAfter
        ELSE x.wait <= conf.policy.max
    BY <2>1, <2>2 DEF Honored
  <2> QED BY <2>1, <2>3 DEF WaitsAsAsked, OnlyTask
<1>4. CASE UNCHANGED <<conf, task>>
  BY <1>4 DEF WaitsAsAsked
<1>5. ASSUME NEW t \in Tasks, HedgeNotes(t) \/ HedgeStarts(t)
      PROVE  WaitsAsAsked'
  BY <1>4, <1>5 DEF HedgeNotes, HedgeStarts
<1>6. ASSUME NEW h \in Handles, LegStep(h) \/ LegRefused(h) \/ LegAnswered(h)
      PROVE  WaitsAsAsked'
  BY <1>4, <1>6 DEF LegStep, LegRefused, LegAnswered, stackVars
<1>7. CASE UNCHANGED stackVars \/ Accrue \/ UNCHANGED vars
  BY <1>4, <1>7 DEF stackVars, vars, Accrue
<1> QED BY <1>2, <1>3, <1>5, <1>6, <1>7 DEF Next, Turn

(* If headers are read as they were meant, a retry waits exactly as long   *)
(* as the server asked for, up to the longest wait honored, or else no     *)
(* longer than the policy's ceiling; and no attempt but the first starts   *)
(* beyond max_elapsed.  The hypothesis is about the calendar alone; see    *)
(* DaysAreCounted.                                                         *)
THEOREM RetriesWaitAsAsked ==
  ASSUME HintsAgree
  PROVE  Spec => []WaitsKept
<1>1. Init => WaitsAsAsked
  BY DEF Init, WaitsAsAsked
<1>2. Inv /\ WaitsAsAsked /\ [Next]_vars => WaitsAsAsked'
  BY WaitsStep DEF Inv
<1>3. Inv /\ WaitsAsAsked => WaitsKept
  BY DEF Inv, TasksInv, Prudent, WaitsAsAsked, WaitsKept
<1> QED BY <1>1, <1>2, <1>3, Invariance, PTL DEF Spec

(* The error of one attempt never hides what the other may still bring. *)
THEOREM FailuresAreHonest == Spec => HonestFailure
<1> DEFINE Honest == \A t \in Tasks : task[t].pc = "attempt" /\ task'[t].pc = "failed"
                       => \A h \in Legs(t) : Out(h) \in {"none", "err", "done"}
<1>1. Inv /\ [Next]_vars => [Honest]_vars
  <2> SUFFICES ASSUME Inv, Next, NEW t \in Tasks, task[t].pc = "attempt", task'[t].pc = "failed"
               PROVE  \A h \in Legs(t) : Out(h) \in {"none", "err", "done"}
    OBVIOUS
  <2>0. task \in [Tasks -> TaskStates] /\ \A u \in Tasks : task[u] \in TaskStates
    BY DEF Inv, TasksInv
  <2>1. CASE HedgeReturns(t)
    <3>1. HedgeResult(t) \notin {"ok", "pending"}
      BY <2>0, <2>1 DEF HedgeReturns, TaskStates
    <3>2. /\ Out(Primary[t]) \in {"err", "done"}
          /\ Out(Secondary[t]) \in {"none", "err", "done"}
      BY <3>1 DEF HedgeResult
    <3> QED BY <3>2 DEF Legs
  <2>2. ASSUME NEW u \in Tasks, u # t, Begin(u) \/ HedgeReturns(u) \/ Stop(u) \/ Wake(u)
                                         \/ FallBack(u) \/ TimeOut(u) \/ Retry(u)
        PROVE  task'[t] = task[t]
    BY <2>0, <2>2, RetryDecides DEF Inv, OnlyTask, Begin, HedgeReturns, Stop, Wake, FallBack, TimeOut
  <2>3. ASSUME Begin(t) \/ Stop(t) \/ Wake(t) \/ FallBack(t) \/ TimeOut(t) \/ Retry(t)
        PROVE  FALSE
    BY <2>0, <2>3 DEF Begin, Stop, Wake, FallBack, TimeOut, Retry, TaskStates
  <2>4. ASSUME UNCHANGED task
        PROVE  FALSE
    BY <2>4
  <2>5. ASSUME NEW u \in Tasks, HedgeNotes(u) \/ HedgeStarts(u)
        PROVE  FALSE
    BY <2>4, <2>5 DEF HedgeNotes, HedgeStarts
  <2>6. ASSUME NEW h \in Handles, LegStep(h) \/ LegRefused(h) \/ LegAnswered(h)
        PROVE  FALSE
    BY <2>4, <2>6 DEF LegStep, LegRefused, LegAnswered, stackVars
  <2>7. CASE UNCHANGED stackVars \/ Accrue
    BY <2>4, <2>7 DEF stackVars, Accrue
  <2> QED BY <2>1, <2>2, <2>3, <2>5, <2>6, <2>7 DEF Next, Turn
<1>2. Spec => [][Honest]_vars
  BY <1>1, Invariance, PTL DEF Spec
<1> QED BY <1>2 DEF HonestFailure

-----------------------------------------------------------------------------
(***************************************************************************)
(* The composites.  What a caller has of its constituents is tied to where *)
(* it is: it has what it holds, and, in a loop that takes, what the loop   *)
(* has walked past (Place).  Every step then is one of a few moves of      *)
(* units (see Stepped, Worked and Ticked), and each leaves the account of  *)
(* every constituent as it was.                                            *)
(***************************************************************************)

Entries(f) == [c : DOMAIN f.cap, n : Nat]
Ops == {"none", "try", "wait", "reserve"}
Rets == {"none", "try", "reserve", "all", "rest", "slack", "move", "end"}

CallSet(f) ==
  [pc : Pcs, op : Ops, ret : Rets, items : Seq(Entries(f)), ix : Seq(Nat), i : Nat,
   stop : Nat, never : BOOLEAN, long : Nat, short : Nat, best : Nat, held : SUBSET Nat,
   due : Nat, sw : Nat, zw : 0..RaceYields, bud : Nat, dl : Nat, until : Nat, naps : BOOLEAN,
   got : Seq(Nat \cup {Nothing})]

(* The loop goes over everything that is not held, each once. *)
Walks(me) ==
  /\ \A j \in 1..Len(me.ix) : me.ix[j] \in DOMAIN me.items \ me.held
  /\ \A k \in DOMAIN me.items \ me.held : \E j \in 1..Len(me.ix) : me.ix[j] = k
  /\ \A a, b \in 1..Len(me.ix) : me.ix[a] = me.ix[b] => a = b
  /\ me.i \in 1..Len(me.ix)

(* It has what it holds and what the loop took from position a to b. *)
HasWalked(me, a, b) ==
  \A k \in DOMAIN me.items :
    me.got[k] # Nothing <=> k \in me.held \/ \E j \in a..b : me.ix[j] = k

HasHeld(me) == \A k \in DOMAIN me.items : me.got[k] # Nothing <=> k \in me.held
Matured(me, t) == me.held # {} => me.due <= t
HeldDue(me) == \A k \in me.held : me.got[k] = me.due

(* A sleeper wakes no later than what it holds matures, or soon. *)
Light(t, me) == me.held # {} => me.until <= me.due \/ me.until <= t + RaceBackoff

Place(t, me) ==
  /\ me.pc \in {"idle", "done"} <=> me.items = <<>>
  /\ me.pc \in {"ok", "grant"} =>
       me.held = DOMAIN me.items /\ \A k \in DOMAIN me.items : me.got[k] # Nothing
  /\ me.pc = "ok" => \A k \in DOMAIN me.items : me.got[k] <= t
  /\ me.pc = "grant" => \A k \in DOMAIN me.items :
       me.got[k] <= t \/ (~me.naps /\ (me.got[k] <= me.until \/ me.until >= Forever))
  /\ me.pc \in {"ask", "free", "one", "look", "fits", "peek", "rest"} => HasHeld(me)
  /\ me.pc = "free" => me.held # {} /\ me.ret \in {"move", "end"}
  /\ me.pc \in {"ask"} \cup Loops => HeldDue(me)
  /\ me.pc = "ask" => Light(t, me)
  /\ me.pc \in Loops => Walks(me) /\ Matured(me, t)
  /\ me.pc \in {"one", "look", "fits"} => me.held = {}
  /\ me.pc = "one" => me.best \in DOMAIN me.items
  /\ me.pc = "look" => me.best \in {0} \cup DOMAIN me.items
  /\ me.pc = "peek" => me.ret \in {"try", "all", "rest"}
  /\ me.pc = "commit" =>
       /\ me.ret \in {"try", "all", "rest"}
       /\ HasWalked(me, 1, me.i - 1)
       /\ \A j \in 1..(me.i - 1) : me.got[me.ix[j]] <= t
  /\ me.pc = "reserve" =>
       /\ me.ret \in {"reserve", "slack"}
       /\ HasWalked(me, 1, me.i - 1)
       /\ \A j \in 1..(me.i - 1) : me.got[me.ix[j]] <= t + me.long
  /\ me.pc = "undo" =>
       /\ me.ret \in {"try", "reserve", "all", "rest", "slack"}
       /\ HasWalked(me, me.i, me.stop) /\ me.i <= me.stop /\ me.stop <= Len(me.ix)
  /\ me.pc \in Loops /\ me.ret \in {"try", "reserve", "all"} => me.held = {}

Calm(f) == (\A call \in f.calls : call.op = "resume") /\ \A c \in DOMAIN f.cap : f.native[c]
Fits(f, e) == e.n <= f.cap[e.c]

Patient(f, me) ==
  Calm(f) /\ me.dl >= Forever =>
    /\ me.sw <= MaxSwitches
    /\ me.pc = "free" /\ me.ret = "move" => me.sw < MaxSwitches
    /\ me.pc = "undo" => me.ret # "slack"
    /\ me.pc = "rest" =>
         me.bud >= Forever /\ ~me.never /\ \A j \in 1..(me.i - 1) : Fits(f, me.items[me.ix[j]])
    /\ me.pc = "reserve" /\ me.ret = "slack" =>
         me.bud >= Forever /\ \A j \in 1..Len(me.ix) : Fits(f, me.items[me.ix[j]])

Fine(f, t, me) ==
  /\ me \in CallSet(f) /\ Len(me.got) = Len(me.items) /\ me.held \subseteq DOMAIN me.items
  /\ Place(t, me)
  /\ Patient(f, me)

AdOps == {"pause", "resume", "drain", "excess", "take", "charge", "refund"}
Jobs(f) == [op : AdOps, c : DOMAIN f.cap, n : Nat, left : 0..Attempts, saw : Nat]

(* What is left of an administrative call. *)
Work(f) == {e \in Jobs(f) : /\ e.op = "excess" => e.left > 0
                            /\ Calm(f) => e.op # "pause"}

Ledger ==
  /\ comp \in Composites /\ now \in 0..comp.until
  /\ bal \in [Constituents -> Int] /\ \A c \in Constituents : bal[c] <= comp.cap[c]
  /\ gone \in [Constituents -> Nat] /\ hold \in [Constituents -> Nat]
  /\ Calm(comp) => \A c \in Constituents : hold[c] = 0

CompositeInv ==
  /\ Ledger
  /\ ad \in Seq(Work(comp))
  /\ cl = [x \in Callers |-> cl[x]]
  /\ \A x \in Callers : Fine(comp, now, cl[x])

-----------------------------------------------------------------------------
(* The fields of what becomes of a caller. *)

LEMMA Constants ==
  /\ HoldSlack \in Nat /\ MaxSwitches \in Nat /\ Attempts \in Nat /\ U32Max \in Nat
  /\ Forever \in Nat /\ IsFiniteSet(Callers)
  /\ RaceYields \in Nat /\ RaceBackoff \in Nat /\ 0 \in 0..RaceYields
BY CompositeAssumption

(* The fields no loop touches. *)
SameCall(m, me) ==
  /\ m.op = me.op /\ m.items = me.items /\ m.got = me.got /\ m.dl = me.dl

Unlooped(me) == [me EXCEPT !.ret = "none", !.ix = <<>>, !.i = 0, !.stop = 0, !.never = FALSE]
Unread(me) == [me EXCEPT !.long = 0, !.short = 0, !.best = 0, !.bud = 0, !.naps = FALSE, !.zw = 0]

Rested(f, m, me) ==
  /\ m \in CallSet(f) /\ SameCall(m, me)
  /\ m.pc = me.pc /\ m.held = me.held /\ m.due = me.due /\ m.sw = me.sw /\ m.until = me.until

LEMMA UnloopedFields ==
  ASSUME NEW f, NEW me \in CallSet(f)
  PROVE  Rested(f, Unlooped(me), me) /\ Unlooped(me).ret = "none"
<1> DEFINE e == <<>>
           m == Unlooped(me)
<1>1. e \in Seq(Nat) /\ "none" \in Rets
  BY DEF Rets
<1>2. m = [me EXCEPT !.ret = "none", !.ix = e, !.i = 0, !.stop = 0, !.never = FALSE]
  BY DEF Unlooped
<1> HIDE DEF e, m
<1>3. Rested(f, m, me) /\ m.ret = "none"
  BY <1>1, <1>2 DEF CallSet, SameCall, Rested
<1> QED BY <1>3 DEF m

LEMMA UnreadFields ==
  ASSUME NEW f, NEW me \in CallSet(f)
  PROVE  Rested(f, Unread(me), me) /\ Unread(me).ret = me.ret /\ Unread(me).naps = FALSE
BY Constants DEF CallSet, SameCall, Rested, Unread

LEMMA ClearFields ==
  ASSUME NEW f, NEW me \in CallSet(f)
  PROVE  Rested(f, Clear(me), me) /\ Clear(me).naps = FALSE /\ Clear(me).ret = "none"
<1> DEFINE a == Unlooped(me)
<1>1. Clear(me) = Unread(a)
  BY DEF Clear, Unlooped, Unread
<1>2. Rested(f, a, me) /\ a.ret = "none" /\ a \in CallSet(f)
  BY UnloopedFields DEF Rested
<1> HIDE DEF a
<1>3. Rested(f, Unread(a), a) /\ Unread(a).ret = a.ret /\ Unread(a).naps = FALSE
  BY <1>2, UnreadFields
<1> QED BY <1>1, <1>2, <1>3 DEF Rested, SameCall

Looped(f, m, me, pc, ret, ix) ==
  /\ m \in CallSet(f) /\ SameCall(m, me)
  /\ m.pc = pc /\ m.ret = ret /\ m.ix = ix /\ m.i = 1 /\ m.stop = 0
  /\ m.never = FALSE /\ m.long = 0 /\ m.best = 0
  /\ m.held = me.held /\ m.due = me.due /\ m.sw = me.sw /\ m.bud = me.bud

LEMMA LoopFields ==
  ASSUME NEW f, NEW me \in CallSet(f), NEW pc \in Pcs, NEW ret \in Rets, NEW ix \in Seq(Nat)
  PROVE  Looped(f, Loop(me, pc, ret, ix), me, pc, ret, ix)
BY Constants DEF CallSet, Loop, SameCall, Looped

Asks(f, m, me, u) ==
  /\ m \in CallSet(f) /\ SameCall(m, me)
  /\ m.pc = "ask" /\ m.until = u
  /\ m.held = me.held /\ m.due = me.due /\ m.sw = me.sw

LEMMA StepFields ==
  ASSUME NEW f, NEW me \in CallSet(f), NEW u \in Nat, NEW z \in 0..RaceYields
  PROVE  Asks(f, StepAt(me, u, z), me, u)
<1> DEFINE a == Clear(me)
           m == StepAt(me, u, z)
<1>1. Rested(f, a, me)
  BY ClearFields
<1>2. m = [a EXCEPT !.pc = "ask", !.until = u, !.zw = z]
  BY DEF StepAt
<1>3. "ask" \in Pcs
  BY DEF Pcs, Loops
<1> HIDE DEF a, m
<1>4. a \in CallSet(f)
  BY <1>1 DEF Rested
<1>5. /\ m \in CallSet(f) /\ SameCall(m, a)
      /\ m.pc = "ask" /\ m.until = u
      /\ m.held = a.held /\ m.due = a.due /\ m.sw = a.sw
  BY <1>2, <1>3, <1>4 DEF CallSet, SameCall
<1>6. Asks(f, m, me, u)
  BY <1>1, <1>5 DEF Rested, SameCall, Asks
<1> QED BY <1>6 DEF m

Granted(f, m, me, u) ==
  /\ m \in CallSet(f) /\ SameCall(m, me)
  /\ m.pc = "grant" /\ m.until = u /\ m.naps = FALSE
  /\ m.held = DOMAIN me.items /\ m.sw = me.sw

LEMMA GrantFields ==
  ASSUME NEW f, NEW me \in CallSet(f), NEW u \in Nat, me.items \in Seq(Entries(f))
  PROVE  Granted(f, Grant(me, u), me, u)
<1> DEFINE a == Clear(me)
           m == Grant(me, u)
           D == DOMAIN me.items
<1>1. Rested(f, a, me) /\ a.naps = FALSE
  BY ClearFields
<1>2. m = [a EXCEPT !.pc = "grant", !.until = u, !.held = D]
  BY DEF Grant
<1>3. "grant" \in Pcs
  BY DEF Pcs, Loops
<1>4. D \in SUBSET Nat
  OBVIOUS
<1> HIDE DEF a, m, D
<1>5. a \in CallSet(f)
  BY <1>1 DEF Rested
<1>6. /\ m \in CallSet(f) /\ SameCall(m, a)
      /\ m.pc = "grant" /\ m.until = u /\ m.naps = a.naps
      /\ m.held = D /\ m.sw = a.sw
  BY <1>2, <1>3, <1>4, <1>5 DEF CallSet, SameCall
<1>7. /\ m \in CallSet(f) /\ SameCall(m, me)
      /\ m.pc = "grant" /\ m.until = u /\ m.naps = FALSE
      /\ m.held = D /\ m.sw = me.sw
  BY <1>1, <1>6 DEF Rested, SameCall
<1> QED BY <1>7 DEF m, D, Granted

(* A grant without a wait, and the return from one. *)
Passed(f, m, me, H) ==
  /\ m \in CallSet(f) /\ m.items = me.items /\ m.got = me.got
  /\ m.pc = "ok" /\ m.held = H /\ (m.sw = 0 \/ (m.sw = me.sw /\ m.dl = me.dl))

LEMMA OkFields ==
  ASSUME NEW f, NEW me \in CallSet(f), NEW H \in SUBSET Nat
  PROVE  /\ Passed(f, [Clear(me) EXCEPT !.pc = "ok", !.held = H], me, H)
         /\ Passed(f, [Clear(me) EXCEPT !.pc = "ok", !.until = 0, !.due = 0, !.sw = 0, !.dl = 0],
                   me, me.held)
<1> DEFINE a == Clear(me)
           m == [a EXCEPT !.pc = "ok", !.held = H]
           r == [a EXCEPT !.pc = "ok", !.until = 0, !.due = 0, !.sw = 0, !.dl = 0]
<1>1. Rested(f, a, me)
  BY ClearFields
<1>2. "ok" \in Pcs
  BY DEF Pcs, Loops
<1> HIDE DEF a
<1>3. a \in CallSet(f)
  BY <1>1 DEF Rested
<1>4. /\ m \in CallSet(f) /\ SameCall(m, a)
      /\ m.pc = "ok" /\ m.held = H /\ m.sw = a.sw
  BY <1>2, <1>3 DEF CallSet, SameCall
<1>5. /\ r \in CallSet(f) /\ r.items = a.items /\ r.got = a.got
      /\ r.pc = "ok" /\ r.held = a.held /\ r.sw = 0
  BY <1>2, <1>3 DEF CallSet
<1> HIDE DEF m, r
<1>6. /\ SameCall(m, me) /\ m.sw = me.sw
      /\ r.items = me.items /\ r.got = me.got /\ r.held = me.held
  BY <1>1, <1>4, <1>5 DEF Rested, SameCall
<1>7. m.items = me.items /\ m.got = me.got /\ m.dl = me.dl
  BY <1>6 DEF SameCall
<1>8. Passed(f, m, me, H)
  BY <1>4, <1>6, <1>7 DEF Passed
<1>9. Passed(f, r, me, me.held)
  BY <1>5, <1>6 DEF Passed
<1> QED BY <1>8, <1>9 DEF m, r, a

Frees(f, m, me, ret) ==
  /\ m \in CallSet(f) /\ SameCall(m, me)
  /\ m.pc = "free" /\ m.ret = ret /\ m.held = me.held /\ m.sw = me.sw

LEMMA FreeFields ==
  ASSUME NEW f, NEW me \in CallSet(f), NEW ret \in Rets
  PROVE  Frees(f, [Loop(me, "free", ret, <<>>) EXCEPT !.naps = FALSE], me, ret)
<1> DEFINE e == <<>>
           a == Loop(me, "free", ret, e)
           m == [a EXCEPT !.naps = FALSE]
<1>1. "free" \in Pcs /\ e \in Seq(Nat)
  BY DEF Pcs, Loops
<1> HIDE DEF e
<1>2. Looped(f, a, me, "free", ret, e)
  BY <1>1, LoopFields
<1> HIDE DEF a
<1>3. /\ m \in CallSet(f) /\ SameCall(m, a) /\ m.pc = a.pc /\ m.ret = a.ret
      /\ m.held = a.held /\ m.due = a.due /\ m.sw = a.sw
  BY <1>2 DEF CallSet, SameCall, Looped
<1> HIDE DEF m
<1>4. Frees(f, m, me, ret)
  BY <1>2, <1>3 DEF SameCall, Looped, Frees
<1> QED BY <1>4 DEF m, a, e

LEMMA Ended ==
  ASSUME NEW f, NEW t \in Nat
  PROVE  Fine(f, t, Idle) /\ Fine(f, t, Done)
<1> DEFINE none == <<>>
<1>1. none \in Seq(Entries(f)) /\ none \in Seq(Nat) /\ none \in Seq(Nat \cup {Nothing})
      /\ Len(none) = 0 /\ DOMAIN none = {}
  OBVIOUS
<1>2. {} \in SUBSET Nat /\ "none" \in Ops /\ "none" \in Rets /\ "idle" \in Pcs /\ "done" \in Pcs
  BY DEF Ops, Rets, Pcs
<1>3. MaxSwitches \in Nat
  BY Constants
<1> HIDE DEF none
<1>4. ASSUME NEW m \in CallSet(f), m.pc \in {"idle", "done"}, m.held = {}, m.items = none,
             m.got = none, m.sw = 0
      PROVE  Fine(f, t, m)
  <2>1. Place(t, m)
    BY <1>4 DEF Place, Loops, none
  <2>2. Patient(f, m)
    BY <1>3, <1>4 DEF Patient
  <2> QED BY <1>1, <1>4, <2>1, <2>2 DEF Fine
<1>5. Idle = [pc |-> "idle", op |-> "none", ret |-> "none", items |-> none, ix |-> none, i |-> 0,
              stop |-> 0, never |-> FALSE, long |-> 0, short |-> 0, best |-> 0, held |-> {},
              due |-> 0, sw |-> 0, zw |-> 0, bud |-> 0, dl |-> 0, until |-> 0, naps |-> FALSE,
              got |-> none]
  BY DEF Idle, none
<1>6. /\ Idle \in CallSet(f) /\ Idle.pc = "idle" /\ Idle.held = {} /\ Idle.items = none
      /\ Idle.got = none /\ Idle.sw = 0
  BY <1>1, <1>2, <1>5, Constants DEF CallSet
<1>7. /\ Done \in CallSet(f) /\ Done.pc = "done" /\ Done.held = {} /\ Done.items = none
      /\ Done.got = none /\ Done.sw = 0
  BY <1>2, <1>6 DEF CallSet, Done
<1> QED BY <1>4, <1>6, <1>7

-----------------------------------------------------------------------------
(* Where a caller may go from where it is. *)

(* A call is going on. *)
Core(f, me) ==
  /\ me \in CallSet(f) /\ Len(me.got) = Len(me.items) /\ me.held \subseteq DOMAIN me.items
  /\ me.items # <<>>

Steady(f, me) == Calm(f) /\ me.dl >= Forever => me.sw <= MaxSwitches
Eager(f, me) == Calm(f) /\ me.dl >= Forever => me.sw < MaxSwitches

(* What it has is what it holds. *)
Settled(f, me) == Core(f, me) /\ HasHeld(me) /\ HeldDue(me) /\ Steady(f, me)

(* A caller that goes on has what it had; one that ends had nothing. *)
Keeps(m, me) ==
  \/ m.items = me.items /\ m.got = me.got
  \/ m.items = <<>> /\ m.got = <<>> /\ \A k \in DOMAIN me.items : me.got[k] = Nothing
Follows(f, t, m, me) == Fine(f, t, m) /\ Keeps(m, me)

LEMMA DoneFollows ==
  ASSUME NEW f, NEW t \in Nat, NEW me, HasHeld(me), me.held = {}
  PROVE  Follows(f, t, Done, me)
<1>1. Done.items = <<>> /\ Done.got = <<>>
  BY DEF Done, Idle
<1>2. Keeps(Done, me)
  BY <1>1 DEF Keeps, HasHeld
<1> QED BY <1>2, Ended DEF Follows

LEMMA CoreParts ==
  ASSUME NEW f, NEW me, Core(f, me)
  PROVE  /\ me \in CallSet(f) /\ me.items \in Seq(Entries(f)) /\ me.got \in Seq(Nat \cup {Nothing})
         /\ Len(me.items) \in Nat \ {0} /\ DOMAIN me.items = 1..Len(me.items)
         /\ DOMAIN me.got = DOMAIN me.items /\ me.held \in SUBSET Nat
         /\ me.ix \in Seq(Nat) /\ me.i \in Nat /\ me.stop \in Nat /\ me.long \in Nat /\ me.best \in Nat
         /\ me.due \in Nat /\ me.sw \in Nat /\ me.bud \in Nat /\ me.dl \in Nat /\ me.until \in Nat
         /\ \A k \in DOMAIN me.items : /\ me.got[k] \in Nat \cup {Nothing}
                                       /\ me.items[k] \in Entries(f)
<1>1. /\ me \in CallSet(f) /\ me.items \in Seq(Entries(f)) /\ me.got \in Seq(Nat \cup {Nothing})
      /\ me.held \in SUBSET Nat
      /\ me.ix \in Seq(Nat) /\ me.i \in Nat /\ me.stop \in Nat /\ me.long \in Nat /\ me.best \in Nat
      /\ me.due \in Nat /\ me.sw \in Nat /\ me.bud \in Nat /\ me.dl \in Nat /\ me.until \in Nat
  BY DEF Core, CallSet
<1> DEFINE s == me.items
           g == me.got
<1>2. s \in Seq(Entries(f)) /\ g \in Seq(Nat \cup {Nothing}) /\ Len(g) = Len(s) /\ s # <<>>
  BY <1>1 DEF Core
<1> HIDE DEF s, g
<1>3. /\ Len(s) \in Nat \ {0} /\ DOMAIN s = 1..Len(s) /\ DOMAIN g = DOMAIN s
      /\ \A k \in DOMAIN s : g[k] \in Nat \cup {Nothing} /\ s[k] \in Entries(f)
  BY <1>2
<1> QED BY <1>1, <1>3 DEF s, g

LEMMA CoreSame ==
  ASSUME NEW f, NEW me, Core(f, me), NEW m \in CallSet(f), m.items = me.items,
         Len(m.got) = Len(me.got), m.held \subseteq DOMAIN me.items
  PROVE  Core(f, m)
BY DEF Core

LEMMA StepFine ==
  ASSUME NEW f, NEW t \in Nat, NEW me, Settled(f, me), NEW u \in Nat, NEW z \in 0..RaceYields,
         me.held # {} => u <= me.due \/ u <= t + RaceBackoff
  PROVE  Follows(f, t, StepAt(me, u, z), me)
<1> DEFINE m == StepAt(me, u, z)
<1>1. Core(f, me) /\ me \in CallSet(f)
  BY CoreParts DEF Settled
<1>2. Asks(f, m, me, u)
  BY <1>1, StepFields
<1> HIDE DEF m
<1>3. /\ m \in CallSet(f) /\ m.items = me.items /\ m.got = me.got /\ m.dl = me.dl
      /\ m.pc = "ask" /\ m.until = u /\ m.held = me.held /\ m.due = me.due /\ m.sw = me.sw
  BY <1>2 DEF Asks, SameCall
<1>4. HasHeld(m) /\ HeldDue(m) /\ m.items # <<>> /\ Light(t, m)
  BY <1>1, <1>3 DEF Settled, HasHeld, HeldDue, Core, Light
<1>5. Place(t, m)
  BY <1>3, <1>4 DEF Place, Loops
<1>6. Patient(f, m)
  BY <1>3 DEF Patient, Settled, Steady
<1>7. Fine(f, t, m)
  BY <1>1, <1>3, <1>5, <1>6 DEF Fine, Core
<1> QED BY <1>3, <1>7 DEF m, Follows, Keeps

(* Everything was promised, by u at the latest. *)
Ripe(t, me, u) ==
  \A k \in DOMAIN me.items :
    me.got[k] # Nothing /\ (me.got[k] <= t \/ me.got[k] <= u \/ u >= Forever)

LEMMA GrantFine ==
  ASSUME NEW f, NEW t \in Nat, NEW me, Core(f, me), Steady(f, me), NEW u \in Nat, Ripe(t, me, u)
  PROVE  Follows(f, t, Grant(me, u), me)
<1> DEFINE m == Grant(me, u)
<1>1. me \in CallSet(f) /\ me.items \in Seq(Entries(f))
  BY CoreParts
<1>2. Granted(f, m, me, u)
  BY <1>1, GrantFields
<1> HIDE DEF m
<1>3. /\ m \in CallSet(f) /\ m.items = me.items /\ m.got = me.got /\ m.dl = me.dl
      /\ m.pc = "grant" /\ m.until = u /\ m.held = DOMAIN me.items /\ m.naps = FALSE /\ m.sw = me.sw
  BY <1>2 DEF Granted, SameCall
<1>4. m.items # <<>>
  BY <1>3 DEF Core
<1>5. \A k \in DOMAIN m.items : /\ m.got[k] # Nothing
                                /\ m.got[k] <= t \/ m.got[k] <= m.until \/ m.until >= Forever
  BY <1>3 DEF Ripe
<1>6. Place(t, m)
  BY <1>3, <1>4, <1>5 DEF Place, Loops
<1>7. Patient(f, m)
  BY <1>3 DEF Patient, Steady
<1>8. Fine(f, t, m)
  BY <1>3, <1>6, <1>7 DEF Fine, Core
<1> QED BY <1>3, <1>8 DEF m, Follows, Keeps

LEMMA OkFine ==
  ASSUME NEW f, NEW t \in Nat, NEW me, Core(f, me), Steady(f, me),
         NEW m, Passed(f, m, me, DOMAIN me.items),
         \A k \in DOMAIN me.items : me.got[k] # Nothing /\ me.got[k] <= t
  PROVE  Follows(f, t, m, me)
<1>1. /\ m \in CallSet(f) /\ m.items = me.items /\ m.got = me.got /\ m.pc = "ok"
      /\ m.held = DOMAIN me.items
  BY DEF Passed
<1>2. m.items # <<>>
  BY <1>1 DEF Core
<1>3. Place(t, m)
  BY <1>1, <1>2 DEF Place, Loops
<1>4. m.sw = 0 \/ (m.sw = me.sw /\ m.dl = me.dl)
  BY DEF Passed
<1>5. Patient(f, m)
  BY <1>1, <1>4, Constants DEF Patient, Steady
<1> QED BY <1>1, <1>3, <1>5 DEF Fine, Core, Follows, Keeps

LEMMA ReleaseFine ==
  ASSUME NEW f, NEW t \in Nat, NEW me, Core(f, me), HasHeld(me), Steady(f, me),
         NEW ret \in {"move", "end"}, ret = "move" => Eager(f, me)
  PROVE  Follows(f, t, Release(me, ret), me)
<1>1. CASE me.held = {}
  <2>1. Release(me, ret) = Done
    BY <1>1 DEF Release
  <2> QED BY <1>1, <2>1, DoneFollows
<1>2. CASE me.held # {}
  <2> DEFINE m == [Loop(me, "free", ret, <<>>) EXCEPT !.naps = FALSE]
  <2>1. Release(me, ret) = m
    BY <1>2 DEF Release
  <2>2. me \in CallSet(f) /\ ret \in Rets
    BY CoreParts DEF Rets
  <2>3. Frees(f, m, me, ret)
    BY <2>2, FreeFields
  <2> HIDE DEF m
  <2>4. /\ m \in CallSet(f) /\ m.items = me.items /\ m.got = me.got /\ m.dl = me.dl
        /\ m.pc = "free" /\ m.ret = ret /\ m.held = me.held /\ m.sw = me.sw
    BY <2>3 DEF Frees, SameCall
  <2>5. m.items # <<>> /\ HasHeld(m)
    BY <2>4 DEF Core, HasHeld
  <2>6. Place(t, m)
    BY <1>2, <2>4, <2>5 DEF Place, Loops
  <2>7. Patient(f, m)
    BY <2>4 DEF Patient, Steady, Eager
  <2>8. Fine(f, t, m) /\ Keeps(m, me)
    BY <2>4, <2>6, <2>7 DEF Fine, Core, Keeps
  <2> QED BY <2>1, <2>8 DEF Follows
<1> QED BY <1>1, <1>2

(* The engine goes on after a step: it sleeps for what is held at the      *)
(* longest, or it lost a race, and yields, naps or gives up.               *)
LEMMA AgainFine ==
  ASSUME NEW f, NEW me, now \in Nat, Settled(f, me), NEW wait \in Nat,
         me.held # {} => wait = 0 \/ now + wait <= me.due
  PROVE  Follows(f, now, Again(me, wait), me)
<1>1. Core(f, me) /\ HasHeld(me) /\ Steady(f, me)
  BY DEF Settled
<1>2. me.due \in Nat /\ me.dl \in Nat /\ me.zw \in 0..RaceYields
  BY <1>1, CoreParts DEF CallSet
<1>3. \A d \in Nat : Until(d) \in Nat /\ Until(d) <= now + d
  BY Constants DEF Until, MinOf
<1>4. CASE wait > 0
  <2>1. Again(me, wait) = StepAt(me, Until(wait), 0)
    BY <1>4 DEF Again
  <2> DEFINE u == Until(wait)
  <2>2. u \in Nat /\ u <= now + wait
    BY <1>3
  <2> HIDE DEF u
  <2>3. me.held # {} => u <= me.due
    BY <1>2, <1>4, <2>2
  <2>4. Follows(f, now, StepAt(me, u, 0), me)
    BY <2>2, <2>3, StepFine, Constants
  <2> QED BY <2>1, <2>4 DEF u
<1>5. CASE wait = 0 /\ me.zw < RaceYields
  <2>1. Again(me, wait) = StepAt(me, now, me.zw + 1)
    BY <1>5 DEF Again
  <2>2. me.zw + 1 \in 0..RaceYields /\ now <= now + RaceBackoff
    BY <1>2, <1>5, Constants
  <2> QED BY <2>1, <2>2, StepFine
<1>6. CASE wait = 0 /\ ~(me.zw < RaceYields) /\ Left(me) = 0
  <2>1. Again(me, wait) = Release(me, "end")
    BY <1>6 DEF Again
  <2> QED BY <1>1, <2>1, ReleaseFine
<1>7. CASE wait = 0 /\ ~(me.zw < RaceYields) /\ Left(me) # 0
  <2> DEFINE d == MinOf(RaceBackoff, Left(me))
             u == Until(d)
  <2>1. Again(me, wait) = StepAt(me, u, me.zw)
    BY <1>7 DEF Again
  <2>2. Left(me) \in Nat
    BY <1>2, Constants DEF Left, MaxOf
  <2>3. d \in Nat /\ d <= RaceBackoff
    BY <2>2, Constants DEF MinOf
  <2> HIDE DEF d
  <2>4. u \in Nat /\ u <= now + RaceBackoff
    <3>1. u \in Nat /\ u <= now + d
      BY <1>3, <2>3
    <3> HIDE DEF u
    <3> QED BY <2>3, <3>1, Constants
  <2> HIDE DEF u
  <2>5. Follows(f, now, StepAt(me, u, me.zw), me)
    BY <1>2, <2>4, StepFine
  <2> QED BY <2>1, <2>5
<1> QED BY <1>4, <1>5, <1>6, <1>7

(* A way round everything that is not held. *)
Course(me, ix) ==
  /\ ix \in Seq(Nat) /\ Len(ix) > 0
  /\ \A j \in 1..Len(ix) : ix[j] \in DOMAIN me.items \ me.held
  /\ \A k \in DOMAIN me.items \ me.held : \E j \in 1..Len(ix) : ix[j] = k
  /\ \A a, b \in 1..Len(ix) : ix[a] = ix[b] => a = b

(* The loops a caller enters, and what they ask for. *)
Enters(f, me, pc, ret, ix) ==
  \/ pc \in {"look", "fits"} /\ ret \in {"none", "reserve"} /\ me.held = {}
  \/ pc = "peek" /\ ret \in {"try", "all"} /\ me.held = {}
  \/ pc = "peek" /\ ret = "rest"
  \/ pc = "rest" /\ ret = "none" /\ (Calm(f) /\ me.dl >= Forever => me.bud >= Forever)
  \/ pc = "reserve" /\ ret = "reserve" /\ me.held = {}
  \/ /\ pc = "reserve" /\ ret = "slack"
     /\ Calm(f) /\ me.dl >= Forever =>
          me.bud >= Forever /\ \A j \in 1..Len(ix) : Fits(f, me.items[ix[j]])

LEMMA LoopFollows ==
  ASSUME NEW f, NEW t \in Nat, NEW me, Settled(f, me), Matured(me, t), NEW pc, NEW ret, NEW ix,
         Course(me, ix), Enters(f, me, pc, ret, ix)
  PROVE  Follows(f, t, Loop(me, pc, ret, ix), me)
<1> DEFINE m == Loop(me, pc, ret, ix)
<1>1. me \in CallSet(f) /\ Core(f, me) /\ ix \in Seq(Nat) /\ pc \in Pcs /\ ret \in Rets
  BY CoreParts DEF Settled, Course, Enters, Pcs, Loops, Rets
<1>2. Looped(f, m, me, pc, ret, ix)
  BY <1>1, LoopFields
<1> HIDE DEF m
<1>3. /\ m \in CallSet(f) /\ m.items = me.items /\ m.got = me.got /\ m.dl = me.dl
      /\ m.pc = pc /\ m.ret = ret /\ m.ix = ix /\ m.i = 1 /\ m.never = FALSE /\ m.long = 0
      /\ m.best = 0 /\ m.held = me.held /\ m.due = me.due /\ m.sw = me.sw /\ m.bud = me.bud
  BY <1>2 DEF Looped, SameCall
<1>4. m.items # <<>> /\ HasHeld(m) /\ HeldDue(m) /\ Matured(m, t)
  BY <1>1, <1>3 DEF Core, Settled, HasHeld, HeldDue, Matured
<1>5. Len(ix) \in Nat /\ 1 \in 1..Len(ix)
  BY <1>1 DEF Course
<1>6. Walks(m)
  <2>1. m.items = me.items /\ m.held = me.held /\ m.ix = ix /\ m.i \in 1..Len(m.ix)
    BY <1>3, <1>5
  <2> QED BY <2>1, Zenon DEF Course, Walks
<1>7. HasWalked(m, 1, m.i - 1)
  <2>1. 1..(m.i - 1) = {}
    BY <1>3
  <2> QED BY <1>4, <2>1 DEF HasWalked, HasHeld
<1>8. Place(t, m)
  <2>1. CASE pc \in {"look", "fits"}
    <3>1. m.held = {} /\ m.best = 0 /\ m.pc \in {"look", "fits"}
      BY <1>3, <2>1 DEF Enters
    <3> QED BY <1>4, <1>6, <3>1 DEF Place, Loops
  <2>2. CASE pc = "peek"
    <3>1. m.pc = "peek" /\ m.ret \in {"try", "all", "rest"} /\ (m.ret # "rest" => m.held = {})
      BY <1>3, <2>2 DEF Enters
    <3> QED BY <1>4, <1>6, <3>1 DEF Place, Loops
  <2>3. CASE pc = "rest"
    <3>1. m.pc = "rest" /\ m.ret = "none"
      BY <1>3, <2>3 DEF Enters
    <3> QED BY <1>4, <1>6, <3>1 DEF Place, Loops
  <2>4. CASE pc = "reserve"
    <3>1. m.pc = "reserve" /\ m.ret \in {"reserve", "slack"} /\ (m.ret = "reserve" => m.held = {})
      BY <1>3, <2>4 DEF Enters
    <3>2. \A j \in 1..(m.i - 1) : m.got[m.ix[j]] <= t + m.long
      BY <1>3
    <3> QED BY <1>4, <1>6, <1>7, <3>1, <3>2 DEF Place, Loops
  <2> QED BY <2>1, <2>2, <2>3, <2>4 DEF Enters
<1>9. Patient(f, m)
  <2>1. m.pc # "free" /\ m.pc # "undo"
    BY <1>3 DEF Enters
  <2>2. Calm(f) /\ m.dl >= Forever => m.sw <= MaxSwitches
    BY <1>3 DEF Settled, Steady
  <2>3. m.pc = "rest" /\ Calm(f) /\ m.dl >= Forever =>
          m.bud >= Forever /\ ~m.never /\ \A j \in 1..(m.i - 1) : Fits(f, m.items[m.ix[j]])
    BY <1>3 DEF Enters
  <2>4. m.pc = "reserve" /\ m.ret = "slack" /\ Calm(f) /\ m.dl >= Forever =>
          m.bud >= Forever /\ \A j \in 1..Len(m.ix) : Fits(f, m.items[m.ix[j]])
    BY <1>3 DEF Enters
  <2> QED BY <2>1, <2>2, <2>3, <2>4 DEF Patient
<1>10. Fine(f, t, m) /\ Keeps(m, me)
  BY <1>1, <1>3, <1>8, <1>9 DEF Fine, Core, Keeps
<1> QED BY <1>10 DEF m, Follows

(* The whole of a request, and what of it is not held. *)
LEMMA AllCourse ==
  ASSUME NEW f, NEW me, Core(f, me), me.held = {}
  PROVE  Course(me, All(me))
<1> DEFINE s == me.items
           ix == All(me)
<1>1. s \in Seq(Entries(f)) /\ Len(s) \in Nat \ {0} /\ DOMAIN s = 1..Len(s)
  BY CoreParts
<1>2. ix = [k \in 1..Len(s) |-> k]
  BY <1>1 DEF All
<1> HIDE DEF s, ix
<1>3. ix \in Seq(Nat) /\ Len(ix) = Len(s)
  BY <1>1, <1>2
<1>4. Len(ix) > 0 /\ \A j \in 1..Len(ix) : ix[j] = j
  BY <1>1, <1>2, <1>3
<1> QED BY <1>1, <1>3, <1>4 DEF Course, s, ix

LEMMA RestCourse ==
  ASSUME NEW f, NEW me, Core(f, me)
  PROVE  /\ Rest(me) # <<>> => Course(me, Rest(me))
         /\ Rest(me) = <<>> => me.held = DOMAIN me.items
<1> DEFINE s == me.items
           a == All(me)
           D == DOMAIN me.items \ me.held
           r == Keep(a, D)
<1>1. s \in Seq(Entries(f)) /\ Len(s) \in Nat \ {0} /\ DOMAIN s = 1..Len(s) /\ me.held \subseteq DOMAIN s
  BY CoreParts DEF Core
<1>2. a = [k \in 1..Len(s) |-> k]
  BY <1>1 DEF All
<1>3. Rest(me) = r
  BY DEF Rest
<1>4. D = (1..Len(s)) \ me.held
  BY <1>1
<1> HIDE DEF s, a, D
<1>5. a \in Seq(Nat) /\ Len(a) = Len(s) /\ \A j \in 1..Len(a) : a[j] = j
  BY <1>1, <1>2
<1>6. IsInjective(a)
  BY <1>5, Distinct
<1>7. r \in Seq(Nat) /\ ToSet(r) = ToSet(a) \cap D /\ IsInjective(r)
  BY <1>5, <1>6, KeepFacts
<1> HIDE DEF r
<1>8. \A k : k \in ToSet(a) <=> k \in 1..Len(s)
  BY <1>5, Members
<1>9. \A k : k \in ToSet(r) <=> k \in D
  BY <1>4, <1>7, <1>8
<1>10. \A k : k \in D <=> \E j \in 1..Len(r) : k = r[j]
  BY <1>7, <1>9, Members
<1>11. \A b, c \in 1..Len(r) : r[b] = r[c] => b = c
  BY <1>7, Distinct
<1>12. r # <<>> => Len(r) > 0
  BY <1>7
<1>13. r = <<>> => D = {}
  BY <1>10
<1>14. r # <<>> => Course(me, r)
  BY <1>7, <1>10, <1>11, <1>12 DEF Course, D
<1>15. r = <<>> => me.held = DOMAIN me.items
  BY <1>1, <1>13 DEF D, s
<1> QED BY <1>3, <1>14, <1>15

-----------------------------------------------------------------------------
(* The constituents. *)

LEMMA Shape ==
  ASSUME Ledger
  PROVE  /\ Valid(comp)
         /\ now \in Nat /\ comp.until \in Nat /\ comp.until < Forever /\ now <= comp.until
         /\ comp.timeouts \subseteq Nat /\ comp.depth \in Nat
         /\ comp.who \subseteq Callers /\ comp.rivals \subseteq Constituents
         /\ comp.ops \subseteq {"try", "wait", "reserve"}
         /\ Constituents = DOMAIN comp.cap
<1>1. Valid(comp) /\ Forever \in Nat
  BY CompositeAssumption DEF Ledger
<1>2. comp.until \in 0..(Forever - 1) /\ comp.depth \in Nat
  BY <1>1 DEF Valid
<1>3. now \in 0..comp.until
  BY DEF Ledger
<1>4. now \in Nat /\ comp.until \in Nat /\ comp.until < Forever /\ now <= comp.until
  BY <1>1, <1>2, <1>3
<1> QED BY <1>1, <1>2, <1>4 DEF Valid, Constituents

LEMMA Part ==
  ASSUME Ledger, NEW c \in Constituents
  PROVE  /\ comp.cap[c] \in Nat /\ comp.rate[c] \in Nat \ {0} /\ comp.native[c] \in BOOLEAN
         /\ bal[c] \in Int /\ bal[c] <= comp.cap[c] /\ gone[c] \in Nat /\ hold[c] \in Nat
<1>1. Valid(comp)
  BY Shape
<1>2. comp.cap \in Seq(Nat) /\ comp.rate \in [DOMAIN comp.cap -> Nat \ {0}]
      /\ comp.native \in [DOMAIN comp.cap -> BOOLEAN]
  BY <1>1 DEF Valid
<1>3. comp.cap[c] \in Nat
  <2> DEFINE s == comp.cap
  <2>1. s \in Seq(Nat) /\ c \in DOMAIN s
    BY <1>2 DEF Constituents
  <2> HIDE DEF s
  <2>2. s[c] \in Nat
    BY <2>1
  <2> QED BY <2>2 DEF s
<1>4. comp.rate[c] \in Nat \ {0} /\ comp.native[c] \in BOOLEAN
  BY <1>2 DEF Constituents
<1> QED BY <1>3, <1>4 DEF Ledger

LEMMA Divided ==
  ASSUME NEW a \in Int, NEW r \in Nat \ {0}, a >= 0
  PROVE  a \div r \in Nat
OBVIOUS

LEMMA WaitsAreNumbers ==
  ASSUME Ledger, NEW c \in Constituents, NEW n \in Nat
  PROVE  /\ Paused(c) \in Nat /\ TimeUntil(c, n) \in Nat /\ Wait(c, n) \in Nat
         /\ Available(c) \in Nat
         /\ Wait(c, n) = 0 => TimeUntil(c, n) = 0
         /\ TimeUntil(c, n) = 0 => n = 0 \/ n <= bal[c]
         /\ Calm(comp) => Paused(c) = 0
<1>1. /\ comp.cap[c] \in Nat /\ comp.rate[c] \in Nat \ {0}
      /\ bal[c] \in Int /\ hold[c] \in Nat
  BY Part
<1>2. now \in Nat
  BY Shape
<1>3. Paused(c) \in Nat /\ (hold[c] = 0 => Paused(c) = 0)
  BY <1>1, <1>2 DEF Paused
<1>4. Available(c) \in Nat
  BY <1>1, <1>3 DEF Available, MaxOf
<1>5. TimeUntil(c, n) \in Nat /\ (TimeUntil(c, n) = 0 => n = 0 \/ n <= bal[c])
  <2> DEFINE b == bal[c]
             r == comp.rate[c]
             w == (n - b + r - 1) \div r
  <2>1. TimeUntil(c, n) = IF n = 0 \/ b >= n THEN 0 ELSE w
    BY DEF TimeUntil
  <2>2. b \in Int /\ r \in Nat \ {0}
    BY <1>1
  <2> HIDE DEF b, r
  <2>3. ASSUME ~(n = 0 \/ b >= n) PROVE w \in Nat /\ w # 0
    <3> DEFINE a == n - b + r - 1
    <3>1. a \in Int /\ a >= r /\ a >= 0
      BY <2>2, <2>3
    <3> HIDE DEF a
    <3>2. a \div r \in Nat /\ a \div r # 0
      BY <2>2, <3>1
    <3> QED BY <3>2 DEF a
  <2> HIDE DEF w
  <2> QED BY <2>1, <2>2, <2>3 DEF b
<1>6. Wait(c, n) \in Nat /\ (Wait(c, n) = 0 => TimeUntil(c, n) = 0)
  BY <1>3, <1>5 DEF Wait, MaxOf
<1>7. Calm(comp) => hold[c] = 0
  BY DEF Ledger
<1> QED BY <1>3, <1>4, <1>5, <1>6, <1>7

LEMMA Backs ==
  ASSUME Ledger, NEW c \in Constituents, NEW n \in Nat
  PROVE  /\ Back(c, n) \in Nat /\ Back(c, n) <= n /\ bal[c] + Back(c, n) <= comp.cap[c]
<1>1. comp.cap[c] \in Nat /\ bal[c] \in Int /\ bal[c] <= comp.cap[c]
  BY Part
<1> QED BY <1>1 DEF Back, MinOf

LEMMA Later ==
  ASSUME Ledger, NEW d \in Nat
  PROVE  /\ Until(d) \in Nat
         /\ Until(d) >= Forever \/ Until(d) = now + d
BY Shape, Constants DEF Until, MinOf

-----------------------------------------------------------------------------
(* The steps of a loop. *)

LEMMA NotTakenFollows ==
  ASSUME NEW f, NEW me, now \in Nat, Settled(f, me),
         me.ret \in {"try", "reserve", "all", "rest", "slack"},
         me.ret \in {"try", "reserve", "all"} => me.held = {},
         me.ret = "slack" => Eager(f, me)
  PROVE  Follows(f, now, NotTaken(me), me)
<1>1. HasHeld(me) /\ Core(f, me) /\ Steady(f, me)
  BY DEF Settled
<1>2. CASE me.ret \in {"try", "reserve"}
  <2>1. NotTaken(me) = Done
    BY <1>2 DEF NotTaken
  <2> QED BY <1>1, <1>2, <2>1, DoneFollows
<1>3. CASE me.ret \in {"all", "rest"}
  <2>1. NotTaken(me) = Again(me, 0)
    BY <1>3 DEF NotTaken
  <2>2. Follows(f, now, Again(me, 0), me)
    BY AgainFine
  <2> QED BY <2>1, <2>2
<1>4. CASE me.ret = "slack"
  <2>1. NotTaken(me) = Release(me, "move")
    BY <1>4 DEF NotTaken
  <2> QED BY <1>1, <1>4, <2>1, ReleaseFine
<1> QED BY <1>2, <1>3, <1>4

(* The last constituent was looked at, or one that can never be had. *)
Looking(f, t, me) ==
  /\ Settled(f, me) /\ Course(me, me.ix) /\ Matured(me, t)
  /\ me.pc \in {"peek", "rest", "look", "fits"}
  /\ me.pc = "peek" => me.ret \in {"try", "all", "rest"} /\ (me.ret # "rest" => me.held = {})
  /\ me.pc \in {"look", "fits"} => me.held = {}
  /\ me.pc = "look" => me.best \in {0} \cup DOMAIN me.items

SeenAll(f, me) ==
  me.pc = "rest" /\ Calm(f) /\ me.dl >= Forever =>
    me.bud >= Forever /\ (~me.never => \A j \in 1..Len(me.ix) : Fits(f, me.items[me.ix[j]]))

(* The fields that matter to what a loop does next. *)
Turned(f, m, me, pc, i, stop) ==
  /\ m \in CallSet(f) /\ SameCall(m, me) /\ m.ret = me.ret /\ m.ix = me.ix
  /\ m.held = me.held /\ m.due = me.due /\ m.sw = me.sw /\ m.bud = me.bud
  /\ m.long = me.long /\ m.best = me.best /\ m.never = me.never
  /\ m.pc = pc /\ m.i = i /\ m.stop = stop

LEMMA TurnFields ==
  ASSUME NEW f, NEW me \in CallSet(f), NEW i \in Nat, NEW s \in Nat
  PROVE  /\ Turned(f, [me EXCEPT !.pc = "commit", !.i = i], me, "commit", i, me.stop)
         /\ Turned(f, [me EXCEPT !.pc = "one"], me, "one", me.i, me.stop)
         /\ Turned(f, [me EXCEPT !.pc = "undo", !.stop = s, !.i = i], me, "undo", i, s)
         /\ Turned(f, [me EXCEPT !.i = i], me, me.pc, i, me.stop)
<1>1. "commit" \in Pcs /\ "one" \in Pcs /\ "undo" \in Pcs
  BY DEF Pcs, Loops
<1>2. Turned(f, [me EXCEPT !.pc = "commit", !.i = i], me, "commit", i, me.stop)
  BY <1>1 DEF CallSet, Turned, SameCall
<1>3. Turned(f, [me EXCEPT !.pc = "one"], me, "one", me.i, me.stop)
  BY <1>1 DEF CallSet, Turned, SameCall
<1>4. Turned(f, [me EXCEPT !.pc = "undo", !.stop = s, !.i = i], me, "undo", i, s)
  BY <1>1 DEF CallSet, Turned, SameCall
<1>5. Turned(f, [me EXCEPT !.i = i], me, me.pc, i, me.stop)
  BY <1>1 DEF CallSet, Turned, SameCall
<1> QED BY <1>2, <1>3, <1>4, <1>5

LEMMA CommitFollows ==
  ASSUME NEW f, NEW t \in Nat, NEW me, Looking(f, t, me), me.pc = "peek"
  PROVE  Follows(f, t, [me EXCEPT !.pc = "commit", !.i = 1], me)
<1> DEFINE m == [me EXCEPT !.pc = "commit", !.i = 1]
<1>1. me \in CallSet(f) /\ Core(f, me) /\ me.stop \in Nat
  BY CoreParts DEF Looking, Settled
<1>2. Turned(f, m, me, "commit", 1, me.stop)
  BY <1>1, TurnFields
<1> HIDE DEF m
<1>3. /\ m \in CallSet(f) /\ m.items = me.items /\ m.got = me.got /\ m.dl = me.dl
      /\ m.pc = "commit" /\ m.ret = me.ret /\ m.ix = me.ix /\ m.i = 1
      /\ m.held = me.held /\ m.due = me.due /\ m.sw = me.sw
  BY <1>2 DEF Turned, SameCall
<1>4. m.items # <<>> /\ HasHeld(m) /\ HeldDue(m) /\ Matured(m, t)
  BY <1>1, <1>3 DEF Core, Looking, Settled, HasHeld, HeldDue, Matured
<1>5. Walks(m)
  BY <1>3 DEF Looking, Course, Walks
<1>6. HasWalked(m, 1, m.i - 1) /\ \A j \in 1..(m.i - 1) : m.got[m.ix[j]] <= t
  BY <1>3, <1>4 DEF HasWalked, HasHeld
<1>7. m.ret \in {"try", "all", "rest"} /\ (m.ret # "rest" => m.held = {})
  BY <1>3 DEF Looking
<1>8. Place(t, m)
  BY <1>3, <1>4, <1>5, <1>6, <1>7 DEF Place, Loops
<1>9. Patient(f, m)
  BY <1>3 DEF Patient, Looking, Settled, Steady
<1>10. Fine(f, t, m) /\ Keeps(m, me)
  BY <1>1, <1>3, <1>8, <1>9 DEF Fine, Core, Keeps
<1> QED BY <1>10 DEF m, Follows

LEMMA OneFollows ==
  ASSUME NEW f, NEW t \in Nat, NEW me, Looking(f, t, me), me.pc = "look", me.best # 0
  PROVE  Follows(f, t, [me EXCEPT !.pc = "one"], me)
<1> DEFINE m == [me EXCEPT !.pc = "one"]
<1>1. me \in CallSet(f) /\ Core(f, me) /\ me.stop \in Nat /\ me.i \in Nat
  BY CoreParts DEF Looking, Settled
<1>2. Turned(f, m, me, "one", me.i, me.stop)
  BY <1>1, TurnFields
<1> HIDE DEF m
<1>3. /\ m \in CallSet(f) /\ m.items = me.items /\ m.got = me.got /\ m.dl = me.dl
      /\ m.pc = "one" /\ m.held = me.held /\ m.sw = me.sw /\ m.best = me.best
  BY <1>2 DEF Turned, SameCall
<1>4. m.items # <<>> /\ HasHeld(m)
  BY <1>1, <1>3 DEF Core, Looking, Settled, HasHeld
<1>5. m.held = {} /\ m.best \in DOMAIN m.items
  BY <1>3 DEF Looking
<1>6. Place(t, m)
  BY <1>3, <1>4, <1>5 DEF Place, Loops
<1>7. Patient(f, m)
  BY <1>3 DEF Patient, Looking, Settled, Steady
<1>8. Fine(f, t, m) /\ Keeps(m, me)
  BY <1>1, <1>3, <1>6, <1>7 DEF Fine, Core, Keeps
<1> QED BY <1>8 DEF m, Follows

LEMMA PeekedFollows ==
  ASSUME NEW f, NEW me, now \in Nat, Looking(f, now, me), SeenAll(f, me)
  PROVE  Follows(f, now, Peeked(me), me)
<1>1. /\ Settled(f, me) /\ Course(me, me.ix) /\ Matured(me, now) /\ HasHeld(me) /\ Core(f, me)
      /\ Steady(f, me)
  BY DEF Looking, Settled
<1>2. CASE me.pc = "peek"
  <2>1. me.ret \in {"try", "all", "rest"} /\ (me.ret # "rest" => me.held = {})
    BY <1>2 DEF Looking
  <2>2. Peeked(me) = PeekedAll(me)
    BY <1>2 DEF Peeked
  <2>3. CASE Ready(me)
    <3>1. PeekedAll(me) = [me EXCEPT !.pc = "commit", !.i = 1]
      BY <2>3 DEF PeekedAll
    <3>2. Follows(f, now, [me EXCEPT !.pc = "commit", !.i = 1], me)
      BY <1>2, CommitFollows
    <3> QED BY <2>2, <3>1, <3>2
  <2>4. CASE ~Ready(me) /\ me.never /\ me.ret = "all"
    <3>1. PeekedAll(me) = Done
      BY <2>4 DEF PeekedAll
    <3>2. me.held = {}
      BY <2>1, <2>4
    <3> QED BY <1>1, <2>2, <3>1, <3>2, DoneFollows
  <2>5. CASE ~Ready(me) /\ ~(me.never /\ me.ret = "all")
    <3>1. PeekedAll(me) = NotTaken(me)
      BY <2>5 DEF PeekedAll
    <3>2. Follows(f, now, NotTaken(me), me)
      BY <1>1, <2>1, NotTakenFollows
    <3> QED BY <2>2, <3>1, <3>2
  <2> QED BY <2>3, <2>4, <2>5
<1>3. CASE me.pc = "rest"
  <2>1. Peeked(me) = PeekedRest(me)
    BY <1>3 DEF Peeked
  <2>2. CASE Ready(me)
    <3>1. PeekedRest(me) = Loop(me, "peek", "rest", me.ix)
      BY <2>2 DEF PeekedRest
    <3>2. Enters(f, me, "peek", "rest", me.ix)
      BY DEF Enters
    <3> QED BY <1>1, <2>1, <3>1, <3>2, LoopFollows
  <2>3. CASE ~Ready(me) /\ me.never
    <3>1. PeekedRest(me) = Release(me, "end")
      BY <2>3 DEF PeekedRest
    <3> QED BY <1>1, <2>1, <3>1, ReleaseFine
  <2>4. CASE ~Ready(me) /\ ~me.never /\ (me.long <= HoldSlack \/ me.sw >= MaxSwitches)
    <3>1. PeekedRest(me) = Loop(me, "reserve", "slack", me.ix)
      BY <2>4 DEF PeekedRest
    <3>2. Enters(f, me, "reserve", "slack", me.ix)
      BY <1>3, <2>4 DEF Enters, SeenAll
    <3> QED BY <1>1, <2>1, <3>1, <3>2, LoopFollows
  <2>5. CASE ~Ready(me) /\ ~me.never /\ ~(me.long <= HoldSlack \/ me.sw >= MaxSwitches)
    <3>1. PeekedRest(me) = Release(me, "move")
      BY <2>5 DEF PeekedRest
    <3>2. me.sw \in Nat /\ MaxSwitches \in Nat /\ ~(me.sw >= MaxSwitches)
      BY <1>1, <2>5, CoreParts, Constants
    <3>3. me.sw < MaxSwitches
      BY <3>2
    <3>4. Eager(f, me)
      BY <3>3 DEF Eager
    <3> QED BY <1>1, <2>1, <3>1, <3>4, ReleaseFine
  <2> QED BY <2>2, <2>3, <2>4, <2>5
<1>4. CASE me.pc = "look"
  <2>1. Peeked(me) = Looked(me) /\ me.held = {}
    BY <1>4 DEF Peeked, Looking
  <2>2. CASE me.never \/ (~Ready(me) /\ ~Within(me.long, me.bud))
    <3>1. Looked(me) = Done
      BY <2>2 DEF Looked, Ready
    <3> QED BY <1>1, <2>1, <3>1, DoneFollows
  <2>3. CASE ~me.never /\ Ready(me)
    <3>1. Looked(me) = Loop(me, "peek", "all", me.ix)
      BY <2>3 DEF Looked
    <3>2. Enters(f, me, "peek", "all", me.ix)
      BY <2>1 DEF Enters
    <3> QED BY <1>1, <2>1, <3>1, <3>2, LoopFollows
  <2>4. CASE ~me.never /\ ~Ready(me) /\ Within(me.long, me.bud)
    <3>1. Looked(me) = [me EXCEPT !.pc = "one"]
      BY <2>4 DEF Looked
    <3>2. me.best # 0
      BY <2>4 DEF Ready
    <3> QED BY <1>4, <2>1, <3>1, <3>2, OneFollows
  <2> QED BY <2>2, <2>3, <2>4
<1>5. CASE me.pc = "fits"
  <2>1. Peeked(me) = Fitted(me) /\ me.held = {}
    BY <1>5 DEF Peeked, Looking
  <2>2. CASE me.never \/ ~Within(me.long, me.bud) \/ me.long - me.short > HoldSlack
    <3>1. Fitted(me) = Done
      BY <2>2 DEF Fitted
    <3> QED BY <1>1, <2>1, <3>1, DoneFollows
  <2>3. CASE ~(me.never \/ ~Within(me.long, me.bud) \/ me.long - me.short > HoldSlack)
    <3>1. Fitted(me) = Loop(me, "reserve", "reserve", me.ix)
      BY <2>3 DEF Fitted
    <3>2. Enters(f, me, "reserve", "reserve", me.ix)
      BY <2>1 DEF Enters
    <3> QED BY <1>1, <2>1, <3>1, <3>2, LoopFollows
  <2> QED BY <2>2, <2>3
<1> QED BY <1>2, <1>3, <1>4, <1>5 DEF Looking

(* One more constituent's answer. *)
Saw(f, m, me, k) ==
  /\ m \in CallSet(f) /\ SameCall(m, me) /\ m.pc = me.pc /\ m.ret = me.ret /\ m.ix = me.ix
  /\ m.i = me.i /\ m.stop = me.stop /\ m.held = me.held /\ m.due = me.due /\ m.sw = me.sw
  /\ m.bud = me.bud /\ m.best \in {me.best, k}
  /\ ~m.never => ~me.never /\ Fits(f, me.items[k])

LEMMA FoldedFields ==
  ASSUME Ledger, NEW me, Core(comp, me), NEW k \in DOMAIN me.items
  PROVE  Saw(comp, Folded(me, k), me, k)
<1> DEFINE c == me.items[k].c
           n == me.items[k].n
           w == Wait(c, n)
           b == IF w > me.long THEN k ELSE me.best
           l == MaxOf(me.long, w)
           s == MinOf(me.short, w)
           m == Folded(me, k)
<1>1. me \in CallSet(comp) /\ me.items[k] \in Entries(comp) /\ me.long \in Nat /\ k \in Nat
  BY CoreParts
<1>2. c \in Constituents /\ n \in Nat
  BY <1>1 DEF Entries, Constituents
<1>3. w \in Nat
  <2> HIDE DEF c, n
  <2> QED BY <1>2, WaitsAreNumbers
<1>4. comp.cap[c] \in Nat
  <2> HIDE DEF c
  <2> QED BY <1>2, Part
<1>5. me.short \in Nat /\ me.best \in Nat /\ me.never \in BOOLEAN
  BY <1>1 DEF CallSet
<1>6. m = IF n > comp.cap[c] THEN [me EXCEPT !.never = TRUE]
          ELSE [me EXCEPT !.best = b, !.long = l, !.short = s]
  BY DEF Folded, Impossible
<1>7. Fits(comp, me.items[k]) <=> n <= comp.cap[c]
  BY DEF Fits
<1> HIDE DEF c, n, w, m
<1>8. b \in {me.best, k} /\ b \in Nat /\ l \in Nat /\ s \in Nat
  BY <1>1, <1>3, <1>5 DEF MaxOf, MinOf
<1> HIDE DEF b, l, s
<1>9. CASE n > comp.cap[c]
  <2>1. m = [me EXCEPT !.never = TRUE]
    BY <1>6, <1>9
  <2> QED BY <1>1, <2>1 DEF CallSet, Saw, SameCall, m
<1>10. CASE ~(n > comp.cap[c])
  <2>1. m = [me EXCEPT !.best = b, !.long = l, !.short = s]
    BY <1>6, <1>10
  <2>2. Fits(comp, me.items[k])
    BY <1>2, <1>4, <1>7, <1>10
  <2>3. /\ m \in CallSet(comp) /\ SameCall(m, me) /\ m.pc = me.pc /\ m.ret = me.ret /\ m.ix = me.ix
        /\ m.i = me.i /\ m.stop = me.stop /\ m.held = me.held /\ m.due = me.due /\ m.sw = me.sw
        /\ m.bud = me.bud /\ m.best = b /\ m.never = me.never
    BY <1>1, <1>8, <2>1 DEF CallSet, SameCall
  <2>4. Saw(comp, m, me, k)
    BY <1>8, <2>2, <2>3 DEF Saw
  <2> QED BY <2>4 DEF m
<1> QED BY <1>9, <1>10

LEMMA FineParts ==
  ASSUME NEW f, NEW t, NEW me, Fine(f, t, me), me.pc \notin {"idle", "done"}
  PROVE  Core(f, me) /\ Steady(f, me) /\ Place(t, me) /\ Patient(f, me)
<1>1. Place(t, me) /\ Patient(f, me)
  BY DEF Fine
<1>2. me.items # <<>>
  BY <1>1 DEF Place
<1> QED BY <1>1, <1>2 DEF Fine, Core, Steady, Patient

LEMMA FineLooks ==
  ASSUME NEW f, NEW t, NEW me, Fine(f, t, me), me.pc \in {"peek", "rest", "look", "fits"}
  PROVE  Looking(f, t, me) /\ Walks(me)
<1>1. Core(f, me) /\ Steady(f, me) /\ Place(t, me)
  BY FineParts
<1>2. Walks(me) /\ HasHeld(me) /\ HeldDue(me) /\ Matured(me, t)
  BY <1>1 DEF Place, Loops
<1>3. me.ix \in Seq(Nat) /\ Len(me.ix) \in Nat
  BY <1>1, CoreParts
<1>4. Course(me, me.ix)
  BY <1>2, <1>3 DEF Walks, Course
<1>5. /\ me.pc = "peek" => me.ret \in {"try", "all", "rest"} /\ (me.ret # "rest" => me.held = {})
      /\ me.pc \in {"look", "fits"} => me.held = {}
      /\ me.pc = "look" => me.best \in {0} \cup DOMAIN me.items
  BY <1>1 DEF Place, Loops
<1> QED BY <1>1, <1>2, <1>4, <1>5 DEF Looking, Settled

LEMMA PeekFollows ==
  ASSUME Ledger, NEW me, Fine(comp, now, me), me.pc \in {"peek", "rest", "look", "fits"},
         NEW m, m = Folded(me, me.ix[me.i])
  PROVE  /\ m.never \/ me.i = Len(me.ix) => Follows(comp, now, Peeked(m), me)
         /\ ~(m.never \/ me.i = Len(me.ix)) => Follows(comp, now, [m EXCEPT !.i = @ + 1], me)
<1> DEFINE k == me.ix[me.i]
<1>1. /\ Looking(comp, now, me) /\ Walks(me) /\ Core(comp, me) /\ Steady(comp, me)
      /\ Patient(comp, me) /\ now \in Nat
  BY FineLooks, FineParts, Shape
<1>2. k \in DOMAIN me.items /\ me.i \in 1..Len(me.ix) /\ Len(me.ix) \in Nat /\ me.i \in Nat
  BY <1>1, CoreParts DEF Walks
<1>3. Saw(comp, m, me, k)
  <2>1. m = Folded(me, k)
    OBVIOUS
  <2> HIDE DEF k
  <2> QED BY <1>1, <1>2, <2>1, FoldedFields
<1>4. /\ m \in CallSet(comp) /\ m.items = me.items /\ m.got = me.got /\ m.dl = me.dl
      /\ m.pc = me.pc /\ m.ret = me.ret /\ m.ix = me.ix /\ m.i = me.i
      /\ m.held = me.held /\ m.due = me.due /\ m.sw = me.sw /\ m.bud = me.bud
      /\ m.best \in {me.best, k} /\ (~m.never => ~me.never /\ Fits(comp, me.items[k]))
  BY <1>3 DEF Saw, SameCall
<1>5. Core(comp, m) /\ HasHeld(m) /\ HeldDue(m) /\ Steady(comp, m) /\ Matured(m, now)
  BY <1>1, <1>4 DEF Core, Looking, Settled, HasHeld, HeldDue, Steady, Matured
<1>6. Walks(m) /\ Course(m, m.ix)
  BY <1>1, <1>4 DEF Walks, Looking, Course
<1>7. me.pc = "look" => m.best \in {0} \cup DOMAIN me.items
  BY <1>1, <1>2, <1>4 DEF Looking
<1>8. Looking(comp, now, m)
  BY <1>1, <1>4, <1>5, <1>6, <1>7 DEF Looking, Settled
<1>9. ASSUME me.pc = "rest", Calm(comp), me.dl >= Forever
      PROVE  /\ me.bud >= Forever
             /\ ~m.never => \A j \in 1..me.i : Fits(comp, me.items[me.ix[j]])
  <2>1. me.bud >= Forever /\ \A j \in 1..(me.i - 1) : Fits(comp, me.items[me.ix[j]])
    BY <1>1, <1>9 DEF Patient
  <2>2. \A j \in 1..me.i : j \in 1..(me.i - 1) \/ j = me.i
    BY <1>2
  <2>3. ~m.never => Fits(comp, me.items[me.ix[me.i]])
    BY <1>4
  <2> QED BY <2>1, <2>2, <2>3
<1>10. ASSUME m.never \/ me.i = Len(me.ix)
       PROVE  Follows(comp, now, Peeked(m), me)
  <2>1. SeenAll(comp, m)
    BY <1>4, <1>9, <1>10 DEF SeenAll
  <2>2. Follows(comp, now, Peeked(m), m)
    BY <1>1, <1>8, <2>1, PeekedFollows
  <2> QED BY <1>4, <2>2 DEF Follows, Keeps
<1>11. ASSUME ~(m.never \/ me.i = Len(me.ix))
       PROVE  Follows(comp, now, [m EXCEPT !.i = @ + 1], me)
  <2> DEFINE i == me.i + 1
             r == [m EXCEPT !.i = i]
  <2>1. [m EXCEPT !.i = @ + 1] = r
    BY <1>4
  <2>2. i \in Nat /\ i \in 1..Len(me.ix) /\ i - 1 = me.i
    BY <1>2, <1>11
  <2> HIDE DEF i
  <2>3. Turned(comp, r, m, m.pc, i, m.stop)
    <3>1. m.stop \in Nat
      BY <1>5, CoreParts
    <3> QED BY <1>4, <2>2, <3>1, TurnFields
  <2> HIDE DEF r
  <2>4. /\ r \in CallSet(comp) /\ r.items = me.items /\ r.got = me.got /\ r.dl = me.dl
        /\ r.pc = me.pc /\ r.ret = me.ret /\ r.ix = me.ix /\ r.i = i
        /\ r.held = me.held /\ r.due = me.due /\ r.sw = me.sw /\ r.bud = me.bud
        /\ r.best = m.best /\ r.never = m.never
    BY <1>4, <2>3 DEF Turned, SameCall
  <2>5. Walks(r)
    BY <1>1, <2>2, <2>4 DEF Walks
  <2>6. r.items # <<>> /\ HasHeld(r) /\ HeldDue(r) /\ Matured(r, now)
    BY <1>4, <1>5, <2>4 DEF Core, HasHeld, HeldDue, Matured
  <2>7. /\ r.pc \in {"peek", "rest", "look", "fits"}
        /\ r.pc = "peek" => r.ret \in {"try", "all", "rest"} /\ (r.ret # "rest" => r.held = {})
        /\ r.pc \in {"look", "fits"} => r.held = {}
        /\ r.pc = "look" => r.best \in {0} \cup DOMAIN r.items
    BY <1>1, <1>7, <2>4 DEF Looking
  <2>8. r.pc = "rest" => r.held = {} \/ r.ret \notin {"try", "reserve", "all"}
    <3>1. Place(now, me)
      BY DEF Fine
    <3> QED BY <2>4, <3>1 DEF Place, Loops
  <2>9. Place(now, r)
    BY <2>5, <2>6, <2>7, <2>8 DEF Place, Loops
  <2>10. Patient(comp, r)
    <3>1. Calm(comp) /\ r.dl >= Forever => r.sw <= MaxSwitches
      BY <1>1, <2>4 DEF Steady
    <3>2. r.pc = "rest" /\ Calm(comp) /\ r.dl >= Forever =>
            r.bud >= Forever /\ ~r.never /\ \A j \in 1..(r.i - 1) : Fits(comp, r.items[r.ix[j]])
      BY <1>9, <1>11, <2>2, <2>4
    <3> QED BY <2>7, <3>1, <3>2 DEF Patient
  <2>11. Fine(comp, now, r) /\ Keeps(r, me)
    BY <1>1, <2>4, <2>9, <2>10 DEF Fine, Core, Keeps
  <2> QED BY <2>1, <2>11 DEF r, Follows
<1> QED BY <1>10, <1>11

(* A loop that takes: it holds what it held, and has what it took. *)
Taking(f, t, me) ==
  /\ Core(f, me) /\ Steady(f, me) /\ Walks(me) /\ HeldDue(me) /\ Matured(me, t)
  /\ HasWalked(me, 1, me.i - 1)
  /\ me.ret \in {"try", "reserve", "all", "rest", "slack"}
  /\ me.ret \in {"try", "reserve", "all"} => me.held = {}

LEMMA FineTakes ==
  ASSUME NEW f, NEW t, NEW me, Fine(f, t, me), me.pc \in {"commit", "reserve"}
  PROVE  Taking(f, t, me)
<1>1. Core(f, me) /\ Steady(f, me) /\ Place(t, me)
  BY FineParts
<1>2. /\ Walks(me) /\ HeldDue(me) /\ Matured(me, t)
      /\ me.ret \in {"try", "reserve", "all"} => me.held = {}
  BY <1>1 DEF Place, Loops
<1>3. HasWalked(me, 1, me.i - 1) /\ me.ret \in {"try", "reserve", "all", "rest", "slack"}
  BY <1>1 DEF Place
<1> QED BY <1>1, <1>2, <1>3 DEF Taking

LEMMA UndoFollows ==
  ASSUME NEW f, NEW me, now \in Nat, Taking(f, now, me),
         me.ret = "slack" => ~(Calm(f) /\ me.dl >= Forever)
  PROVE  Follows(f, now, Undo(me), me)
<1>1. /\ Core(f, me) /\ Steady(f, me) /\ Walks(me) /\ HeldDue(me) /\ Matured(me, now)
      /\ HasWalked(me, 1, me.i - 1)
      /\ me.ret \in {"try", "reserve", "all", "rest", "slack"}
      /\ me.ret \in {"try", "reserve", "all"} => me.held = {}
  BY DEF Taking
<1>2. /\ me \in CallSet(f) /\ me.i \in Nat /\ me.i \in 1..Len(me.ix) /\ Len(me.ix) \in Nat
  BY <1>1, CoreParts DEF Walks
<1>3. CASE me.i = 1
  <2>1. HasHeld(me)
    BY <1>1, <1>3 DEF HasWalked, HasHeld
  <2>2. Settled(f, me) /\ (me.ret = "slack" => Eager(f, me))
    BY <1>1, <2>1 DEF Settled, Eager
  <2>3. Follows(f, now, NotTaken(me), me)
    BY <1>1, <2>2, NotTakenFollows
  <2> QED BY <1>3, <2>3 DEF Undo
<1>4. CASE me.i # 1
  <2> DEFINE s == me.i - 1
             m == [me EXCEPT !.pc = "undo", !.stop = s, !.i = 1]
  <2>1. Undo(me) = m
    BY <1>4 DEF Undo
  <2>2. s \in Nat /\ 1 <= s /\ s <= Len(me.ix) /\ 1 \in 1..Len(me.ix)
    BY <1>2, <1>4
  <2>3. HasWalked(me, 1, s)
    BY <1>1
  <2> HIDE DEF s
  <2>4. Turned(f, m, me, "undo", 1, s)
    BY <1>2, <2>2, TurnFields
  <2> HIDE DEF m
  <2>5. /\ m \in CallSet(f) /\ m.items = me.items /\ m.got = me.got /\ m.dl = me.dl
        /\ m.pc = "undo" /\ m.ret = me.ret /\ m.ix = me.ix /\ m.i = 1 /\ m.stop = s
        /\ m.held = me.held /\ m.due = me.due /\ m.sw = me.sw
    BY <2>4 DEF Turned, SameCall
  <2>6. m.items # <<>> /\ HeldDue(m) /\ Matured(m, now) /\ Walks(m)
    BY <1>1, <2>2, <2>5 DEF Core, HeldDue, Matured, Walks
  <2>7. HasWalked(m, m.i, m.stop)
    BY <2>3, <2>5 DEF HasWalked
  <2>8. Place(now, m)
    BY <1>1, <2>2, <2>5, <2>6, <2>7 DEF Place, Loops
  <2>9. Patient(f, m)
    BY <1>1, <2>5 DEF Patient, Steady
  <2>10. Fine(f, now, m) /\ Keeps(m, me)
    BY <1>1, <2>5, <2>8, <2>9 DEF Fine, Core, Keeps
  <2> QED BY <2>1, <2>10 DEF Follows
<1> QED BY <1>3, <1>4

(* It has, or no longer has, what constituent k gave it. *)
Gets(f, m, me, k, v) ==
  /\ m \in CallSet(f) /\ m.items = me.items /\ m.got = [me.got EXCEPT ![k] = v]
  /\ m.op = me.op /\ m.dl = me.dl /\ m.pc = me.pc /\ m.ret = me.ret /\ m.ix = me.ix
  /\ m.i = me.i /\ m.stop = me.stop /\ m.held = me.held /\ m.due = me.due /\ m.sw = me.sw
  /\ m.bud = me.bud

Reserved(f, m, me, k, v, l) == Gets(f, m, me, k, v) /\ m.long = l

LEMMA GotFields ==
  ASSUME NEW f, NEW me, Core(f, me), NEW k \in DOMAIN me.items, NEW v \in Nat \cup {Nothing},
         NEW l \in Nat
  PROVE  /\ Gets(f, [me EXCEPT !.got[k] = v], me, k, v)
         /\ [me EXCEPT !.got[k] = v].long = me.long
         /\ Reserved(f, [me EXCEPT !.got[k] = v, !.long = l], me, k, v, l)
<1> DEFINE g == [me.got EXCEPT ![k] = v]
<1>1. me \in CallSet(f) /\ me.got \in Seq(Nat \cup {Nothing})
  BY CoreParts
<1>2. g \in Seq(Nat \cup {Nothing})
  <2> DEFINE s == me.got
  <2>1. s \in Seq(Nat \cup {Nothing}) /\ k \in 1..Len(s)
    BY <1>1, CoreParts
  <2> HIDE DEF s
  <2>2. [s EXCEPT ![k] = v] \in Seq(Nat \cup {Nothing})
    BY <2>1, ExceptSeq
  <2> QED BY <2>2 DEF s
<1>3. /\ [me EXCEPT !.got[k] = v] = [me EXCEPT !.got = g]
      /\ [me EXCEPT !.got[k] = v, !.long = l] = [me EXCEPT !.got = g, !.long = l]
  BY <1>1 DEF CallSet
<1> HIDE DEF g
<1>4. Gets(f, [me EXCEPT !.got = g], me, k, v) /\ [me EXCEPT !.got = g].long = me.long
  <2> DEFINE m == [me EXCEPT !.got = g]
  <2>1. m.got = g /\ m \in CallSet(f)
    BY <1>1, <1>2 DEF CallSet
  <2>2. /\ m.op = me.op /\ m.dl = me.dl /\ m.pc = me.pc /\ m.ret = me.ret /\ m.ix = me.ix
        /\ m.i = me.i /\ m.stop = me.stop /\ m.held = me.held /\ m.due = me.due /\ m.sw = me.sw
        /\ m.bud = me.bud /\ m.items = me.items /\ m.long = me.long
    BY <1>1 DEF CallSet
  <2> HIDE DEF m
  <2>3. Gets(f, m, me, k, v)
    BY <2>1, <2>2 DEF Gets, g
  <2> QED BY <2>2, <2>3 DEF m
<1>5. Reserved(f, [me EXCEPT !.got = g, !.long = l], me, k, v, l)
  <2> DEFINE m == [me EXCEPT !.got = g, !.long = l]
  <2>1. m.got = g /\ m \in CallSet(f)
    BY <1>1, <1>2 DEF CallSet
  <2>2. /\ m.op = me.op /\ m.dl = me.dl /\ m.pc = me.pc /\ m.ret = me.ret /\ m.ix = me.ix
        /\ m.i = me.i /\ m.stop = me.stop /\ m.held = me.held /\ m.due = me.due /\ m.sw = me.sw
        /\ m.bud = me.bud /\ m.items = me.items /\ m.long = l
    BY <1>1 DEF CallSet
  <2> HIDE DEF m
  <2>3. Gets(f, m, me, k, v)
    BY <2>1, <2>2 DEF Gets, g
  <2> QED BY <2>2, <2>3 DEF m, Reserved
<1> QED BY <1>3, <1>4, <1>5

LEMMA GetsParts ==
  ASSUME NEW f, NEW me, Core(f, me), NEW k \in DOMAIN me.items, NEW v \in Nat \cup {Nothing},
         NEW m, Gets(f, m, me, k, v)
  PROVE  /\ Core(f, m) /\ m.items = me.items /\ m.got[k] = v
         /\ \A j \in DOMAIN me.items : j # k => m.got[j] = me.got[j]
<1> DEFINE s == me.got
           g == [s EXCEPT ![k] = v]
<1>1. s \in Seq(Nat \cup {Nothing}) /\ k \in DOMAIN s /\ DOMAIN s = DOMAIN me.items
  BY CoreParts
<1>2. /\ m \in CallSet(f) /\ m.items = me.items /\ m.got = g /\ m.held = me.held
  BY DEF Gets
<1> HIDE DEF s
<1>3. /\ Len(g) = Len(s) /\ g[k] = v /\ \A j \in DOMAIN s : j # k => g[j] = s[j]
  BY <1>1
<1> HIDE DEF g
<1>4. Core(f, m)
  BY <1>2, <1>3 DEF Core, s
<1> QED BY <1>1, <1>2, <1>3, <1>4 DEF s

Took(f, t, m, me, k, v) ==
  /\ Core(f, m) /\ Steady(f, m) /\ Walks(m) /\ HeldDue(m) /\ Matured(m, t)
  /\ HasWalked(m, 1, me.i)
  /\ m.got[k] = v /\ \A j \in DOMAIN me.items : j # k => m.got[j] = me.got[j]
  /\ me.i = Len(me.ix) => \A j \in DOMAIN m.items : m.got[j] # Nothing

LEMMA TakeOne ==
  ASSUME NEW f, NEW t, NEW me, Taking(f, t, me), NEW k, k = me.ix[me.i]
  PROVE  /\ k \in DOMAIN me.items /\ k \notin me.held /\ me.got[k] = Nothing
         /\ \A j \in 1..(me.i - 1) : me.ix[j] \in DOMAIN me.items /\ me.ix[j] # k
         /\ me.i \in 1..Len(me.ix) /\ Len(me.ix) \in Nat
<1>1. Core(f, me) /\ Walks(me) /\ HasWalked(me, 1, me.i - 1)
  BY DEF Taking
<1>2. Len(me.ix) \in Nat /\ me.i \in 1..Len(me.ix) /\ me.i \in Nat
  BY <1>1, CoreParts DEF Walks
<1>3. k \in DOMAIN me.items /\ k \notin me.held
  BY <1>1, <1>2 DEF Walks
<1>4. \A j \in 1..(me.i - 1) : j \in 1..Len(me.ix) /\ j # me.i
  BY <1>2
<1>5. \A j \in 1..(me.i - 1) : me.ix[j] \in DOMAIN me.items /\ me.ix[j] # k
  BY <1>1, <1>2, <1>4 DEF Walks
<1>6. me.got[k] = Nothing
  BY <1>1, <1>3, <1>5 DEF HasWalked
<1> QED BY <1>2, <1>3, <1>5, <1>6

LEMMA TookOne ==
  ASSUME NEW f, NEW t, NEW me, Taking(f, t, me), NEW k, k = me.ix[me.i], NEW v \in Nat,
         NEW m, Gets(f, m, me, k, v)
  PROVE  Took(f, t, m, me, k, v)
<1>1. /\ Core(f, me) /\ Steady(f, me) /\ Walks(me) /\ HeldDue(me) /\ Matured(me, t)
      /\ HasWalked(me, 1, me.i - 1)
  BY DEF Taking
<1>2. /\ k \in DOMAIN me.items /\ k \notin me.held /\ me.got[k] = Nothing
      /\ me.i \in 1..Len(me.ix) /\ Len(me.ix) \in Nat
      /\ \A j \in 1..(me.i - 1) : me.ix[j] \in DOMAIN me.items /\ me.ix[j] # k
  BY TakeOne
<1>3. /\ Core(f, m) /\ m.items = me.items /\ m.got[k] = v
      /\ \A j \in DOMAIN me.items : j # k => m.got[j] = me.got[j]
  BY <1>1, <1>2, GetsParts
<1>4. /\ m.dl = me.dl /\ m.ix = me.ix /\ m.i = me.i /\ m.held = me.held /\ m.due = me.due
      /\ m.sw = me.sw
  BY DEF Gets
<1>5. Steady(f, m) /\ Walks(m) /\ Matured(m, t)
  BY <1>1, <1>3, <1>4 DEF Steady, Walks, Matured
<1>6. HeldDue(m)
  BY <1>1, <1>2, <1>3, <1>4 DEF HeldDue, Core
<1>7. v # Nothing
  BY DEF Nothing
<1>8. HasWalked(m, 1, me.i)
  <2> SUFFICES ASSUME NEW q \in DOMAIN me.items
               PROVE  m.got[q] # Nothing <=> q \in me.held \/ \E j \in 1..me.i : me.ix[j] = q
    BY <1>3, <1>4 DEF HasWalked
  <2>1. \A j : j \in 1..me.i <=> j \in 1..(me.i - 1) \/ j = me.i
    BY <1>2
  <2>2. CASE q = k
    <3>1. \E j \in 1..me.i : me.ix[j] = q
      BY <2>1, <2>2
    <3> QED BY <1>3, <1>7, <2>2, <3>1
  <2>3. CASE q # k
    <3>1. m.got[q] = me.got[q]
      BY <1>3, <2>3
    <3>2. (\E j \in 1..me.i : me.ix[j] = q) <=> (\E j \in 1..(me.i - 1) : me.ix[j] = q)
      BY <2>1, <2>3
    <3>3. me.got[q] # Nothing <=> q \in me.held \/ \E j \in 1..(me.i - 1) : me.ix[j] = q
      BY <1>1 DEF HasWalked
    <3> QED BY <3>1, <3>2, <3>3
  <2> QED BY <2>2, <2>3
<1>9. ASSUME me.i = Len(me.ix), NEW j \in DOMAIN m.items PROVE m.got[j] # Nothing
  BY <1>1, <1>3, <1>4, <1>8, <1>9 DEF HasWalked, Walks
<1> QED BY <1>3, <1>5, <1>6, <1>8, <1>9 DEF Took

(* The loop goes on to the next one. *)
LEMMA NextTakes ==
  ASSUME NEW f, NEW t \in Nat, NEW me, Taking(f, t, me), NEW k, k = me.ix[me.i], NEW v \in Nat,
         NEW m, Gets(f, m, me, k, v), me.i # Len(me.ix), me.pc \in {"commit", "reserve"},
         me.pc = "commit" => /\ me.ret \in {"try", "all", "rest"}
                             /\ v <= t /\ \A j \in 1..(me.i - 1) : me.got[me.ix[j]] <= t,
         me.pc = "reserve" => /\ me.ret \in {"reserve", "slack"}
                              /\ v <= t + m.long
                              /\ \A j \in 1..(me.i - 1) : me.got[me.ix[j]] <= t + m.long,
         Patient(f, me)
  PROVE  Follows(f, t, [m EXCEPT !.i = @ + 1], m)
<1> DEFINE i == me.i + 1
           r == [m EXCEPT !.i = i]
<1>1. Took(f, t, m, me, k, v)
  BY TookOne
<1>2. /\ m \in CallSet(f) /\ m.items = me.items /\ m.dl = me.dl /\ m.pc = me.pc /\ m.ret = me.ret
      /\ m.ix = me.ix /\ m.i = me.i /\ m.held = me.held /\ m.due = me.due /\ m.sw = me.sw
      /\ m.bud = me.bud
  BY DEF Gets
<1>3. /\ k \in DOMAIN me.items /\ me.i \in 1..Len(me.ix) /\ Len(me.ix) \in Nat
      /\ \A j \in 1..(me.i - 1) : me.ix[j] \in DOMAIN me.items /\ me.ix[j] # k
  BY TakeOne
<1>4. i \in Nat /\ i \in 1..Len(me.ix) /\ i - 1 = me.i
  BY <1>3
<1>5. [m EXCEPT !.i = @ + 1] = r
  BY <1>2
<1> HIDE DEF i
<1>6. Turned(f, r, m, m.pc, i, m.stop)
  <2>1. m.stop \in Nat
    BY <1>1, CoreParts DEF Took
  <2> QED BY <1>2, <1>4, <2>1, TurnFields
<1> HIDE DEF r
<1>7. /\ r \in CallSet(f) /\ r.items = me.items /\ r.got = m.got /\ r.dl = me.dl
      /\ r.pc = me.pc /\ r.ret = me.ret /\ r.ix = me.ix /\ r.i = i
      /\ r.held = me.held /\ r.due = me.due /\ r.sw = me.sw /\ r.bud = me.bud /\ r.long = m.long
  BY <1>2, <1>6 DEF Turned, SameCall
<1>8. r.items # <<>> /\ HeldDue(r) /\ Matured(r, t)
  BY <1>1, <1>2, <1>7 DEF Took, Core, HeldDue, Matured
<1>9. Walks(r)
  BY <1>4, <1>7 DEF Taking, Walks
<1>10. HasWalked(r, 1, r.i - 1)
  BY <1>1, <1>2, <1>4, <1>7 DEF Took, HasWalked
<1>11. \A j \in 1..(r.i - 1) : \/ r.got[r.ix[j]] = v
                               \/ j \in 1..(me.i - 1) /\ r.got[r.ix[j]] = me.got[me.ix[j]]
  <2> SUFFICES ASSUME NEW j \in 1..me.i
               PROVE  m.got[me.ix[j]] = v \/ (j \in 1..(me.i - 1) /\ m.got[me.ix[j]] = me.got[me.ix[j]])
    BY <1>4, <1>7
  <2>1. j = me.i \/ j \in 1..(me.i - 1)
    BY <1>3
  <2> QED BY <1>1, <1>3, <2>1 DEF Took
<1>12. /\ r.pc = "commit" => \A j \in 1..(r.i - 1) : r.got[r.ix[j]] <= t
       /\ r.pc = "reserve" => \A j \in 1..(r.i - 1) : r.got[r.ix[j]] <= t + r.long
  BY <1>7, <1>11
<1>13. /\ r.pc \in {"commit", "reserve"}
       /\ r.pc = "commit" => r.ret \in {"try", "all", "rest"}
       /\ r.pc = "reserve" => r.ret \in {"reserve", "slack"}
       /\ r.ret \in {"try", "reserve", "all"} => r.held = {}
  BY <1>7 DEF Taking
<1>14. Place(t, r)
  BY <1>8, <1>9, <1>10, <1>12, <1>13 DEF Place, Loops
<1>15. Patient(f, r)
  BY <1>7, <1>13 DEF Patient
<1>16. Fine(f, t, r) /\ Keeps(r, m)
  BY <1>1, <1>2, <1>7, <1>14, <1>15 DEF Took, Fine, Core, Keeps
<1> QED BY <1>5, <1>16 DEF Follows

LEMMA CommitSteps ==
  ASSUME Ledger, NEW me, Fine(comp, now, me), me.pc = "commit", NEW k, k = me.ix[me.i],
         NEW m, Gets(comp, m, me, k, now)
  PROVE  /\ me.i = Len(me.ix) => Follows(comp, now, Committed(m), m)
         /\ me.i # Len(me.ix) => Follows(comp, now, [m EXCEPT !.i = @ + 1], m)
         /\ Follows(comp, now, Undo(me), me)
<1>1. now \in Nat /\ Taking(comp, now, me) /\ Core(comp, me) /\ Place(now, me) /\ Patient(comp, me)
  BY Shape, FineTakes, FineParts
<1>2. /\ k \in DOMAIN me.items /\ k \notin me.held /\ me.got[k] = Nothing
      /\ \A j \in 1..(me.i - 1) : me.ix[j] \in DOMAIN me.items /\ me.ix[j] # k
      /\ me.i \in 1..Len(me.ix) /\ Len(me.ix) \in Nat
  BY <1>1, TakeOne
<1>3. Gets(comp, m, me, k, now)
  OBVIOUS
<1>4. me.ret \in {"try", "all", "rest"} /\ \A j \in 1..(me.i - 1) : me.got[me.ix[j]] <= now
  BY <1>1 DEF Place
<1>5. Took(comp, now, m, me, k, now)
  BY <1>1, <1>3, TookOne
<1>6. /\ m.items = me.items /\ m.ret = me.ret /\ m.ix = me.ix /\ m.held = me.held /\ m.due = me.due
  BY <1>3 DEF Gets
<1>7. ASSUME me.i = Len(me.ix) PROVE Follows(comp, now, Committed(m), m)
  <2>1. Core(comp, m) /\ Steady(comp, m)
    BY <1>5 DEF Took
  <2>2. ASSUME NEW q \in DOMAIN m.items PROVE m.got[q] # Nothing /\ m.got[q] <= now
    <3>1. m.got[q] # Nothing
      BY <1>5, <1>7 DEF Took
    <3>2. CASE q \in m.held
      BY <1>5, <3>1, <3>2 DEF Took, HeldDue, Matured
    <3>3. CASE q \notin m.held
      <4>1. PICK j \in 1..Len(me.ix) : me.ix[j] = q
        BY <1>1, <1>6, <3>3 DEF Taking, Walks
      <4>2. j = me.i \/ j \in 1..(me.i - 1)
        BY <1>7, <1>2
      <4>3. CASE j = me.i
        <5>1. m.got[q] = now
          BY <1>5, <4>1, <4>3 DEF Took
        <5> QED BY <1>1, <3>1, <5>1
      <4>4. CASE j \in 1..(me.i - 1)
        <5>1. m.got[q] = me.got[q] /\ me.got[q] <= now
          BY <1>2, <1>4, <1>5, <4>1, <4>4 DEF Took
        <5> QED BY <3>1, <5>1
      <4> QED BY <4>2, <4>3, <4>4
    <3> QED BY <3>1, <3>2, <3>3
  <2>3. CASE m.ret = "try"
    <3> DEFINE D == DOMAIN m.items
               r == [Clear(m) EXCEPT !.pc = "ok", !.held = D]
    <3>1. Committed(m) = r
      BY <2>3 DEF Committed
    <3>2. m \in CallSet(comp) /\ D \in SUBSET Nat
      BY <2>1, CoreParts
    <3> HIDE DEF D
    <3>3. Passed(comp, r, m, D)
      BY <3>2, OkFields
    <3> HIDE DEF r
    <3>4. Follows(comp, now, r, m)
      BY <1>1, <2>1, <2>2, <3>3, OkFine DEF D
    <3> QED BY <3>1, <3>4
  <2>4. CASE m.ret # "try"
    <3>1. Ripe(now, m, now)
      BY <2>2 DEF Ripe
    <3>2. Follows(comp, now, Grant(m, now), m)
      BY <1>1, <2>1, <3>1, GrantFine
    <3> QED BY <2>4, <3>2 DEF Committed
  <2> QED BY <2>3, <2>4
<1>8. ASSUME me.i # Len(me.ix) PROVE Follows(comp, now, [m EXCEPT !.i = @ + 1], m)
  <2>1. now <= now
    BY <1>1
  <2> QED BY <1>1, <1>3, <1>4, <1>8, <2>1, NextTakes
<1>9. Follows(comp, now, Undo(me), me)
  <2>1. me.ret # "slack"
    BY <1>4
  <2> QED BY <1>1, <2>1, UndoFollows
<1> QED BY <1>7, <1>8, <1>9

LEMMA ReserveSteps ==
  ASSUME Ledger, NEW me, Fine(comp, now, me), me.pc = "reserve", NEW k, k = me.ix[me.i],
         NEW w \in Nat, NEW m, Gets(comp, m, me, k, now + w), m.long = MaxOf(me.long, w)
  PROVE  /\ me.i = Len(me.ix) => Follows(comp, now, Grant(m, Until(m.long)), m)
         /\ me.i # Len(me.ix) => Follows(comp, now, [m EXCEPT !.i = @ + 1], m)
         /\ \/ Follows(comp, now, Undo(me), me)
            \/ Calm(comp) /\ me.bud >= Forever /\ Fits(comp, me.items[k])
<1> DEFINE l == MaxOf(me.long, w)
           v == now + w
<1>1. now \in Nat /\ Taking(comp, now, me) /\ Core(comp, me) /\ Place(now, me) /\ Patient(comp, me)
  BY Shape, FineTakes, FineParts
<1>2. /\ k \in DOMAIN me.items /\ k \notin me.held /\ me.got[k] = Nothing
      /\ \A j \in 1..(me.i - 1) : me.ix[j] \in DOMAIN me.items /\ me.ix[j] # k
      /\ me.i \in 1..Len(me.ix) /\ Len(me.ix) \in Nat
  BY <1>1, TakeOne
<1>3. me.long \in Nat
  BY <1>1, CoreParts
<1>4. l \in Nat /\ l >= w /\ l >= me.long /\ v \in Nat /\ v \in Nat \cup {Nothing} /\ v <= now + l
  BY <1>1, <1>3 DEF MaxOf
<1>6. Gets(comp, m, me, k, v) /\ m.long = l
  OBVIOUS
<1> HIDE DEF l, v
<1>7. me.ret \in {"reserve", "slack"} /\ \A j \in 1..(me.i - 1) : me.got[me.ix[j]] <= now + me.long
  BY <1>1 DEF Place
<1>8. \A j \in 1..(me.i - 1) : me.got[me.ix[j]] <= now + l
  <2> SUFFICES ASSUME NEW j \in 1..(me.i - 1) PROVE me.got[me.ix[j]] <= now + l
    OBVIOUS
  <2>1. me.got[me.ix[j]] \in Nat \cup {Nothing}
    BY <1>1, <1>2, CoreParts
  <2>2. me.got[me.ix[j]] \in Int
    BY <2>1 DEF Nothing
  <2> QED BY <1>1, <1>3, <1>4, <1>7, <2>2
<1>9. Took(comp, now, m, me, k, v)
  BY <1>1, <1>4, <1>6, TookOne
<1>10. /\ m.items = me.items /\ m.ix = me.ix /\ m.held = me.held /\ m.due = me.due
  BY <1>6 DEF Gets
<1>11. ASSUME me.i = Len(me.ix) PROVE Follows(comp, now, Grant(m, Until(m.long)), m)
  <2>1. Core(comp, m) /\ Steady(comp, m)
    BY <1>9 DEF Took
  <2> DEFINE u == Until(l)
  <2>2. u \in Nat /\ (u >= Forever \/ u = now + l)
    BY <1>4, Later
  <2> HIDE DEF u
  <2>3. ASSUME NEW q \in DOMAIN m.items
        PROVE  m.got[q] # Nothing /\ (m.got[q] <= now \/ m.got[q] <= u \/ u >= Forever)
    <3>1. m.got[q] # Nothing
      BY <1>9, <1>11 DEF Took
    <3>2. CASE q \in m.held
      BY <1>9, <3>1, <3>2 DEF Took, HeldDue, Matured
    <3>3. CASE q \notin m.held
      <4>1. PICK j \in 1..Len(me.ix) : me.ix[j] = q
        BY <1>1, <1>10, <3>3 DEF Taking, Walks
      <4>2. j = me.i \/ j \in 1..(me.i - 1)
        BY <1>2, <1>11
      <4>3. m.got[q] <= now + l
        BY <1>2, <1>4, <1>8, <1>9, <4>1, <4>2 DEF Took
      <4> QED BY <2>2, <3>1, <4>3
    <3> QED BY <3>2, <3>3
  <2>4. Ripe(now, m, u)
    BY <2>3 DEF Ripe
  <2>5. Follows(comp, now, Grant(m, u), m)
    BY <1>1, <2>1, <2>2, <2>4, GrantFine
  <2> QED BY <1>6, <2>5 DEF u
<1>12. ASSUME me.i # Len(me.ix) PROVE Follows(comp, now, [m EXCEPT !.i = @ + 1], m)
  <2>1. v <= now + m.long /\ \A j \in 1..(me.i - 1) : me.got[me.ix[j]] <= now + m.long
    BY <1>4, <1>6, <1>8
  <2> QED BY <1>1, <1>4, <1>6, <1>7, <1>12, <2>1, NextTakes
<1>13. \/ Follows(comp, now, Undo(me), me)
       \/ Calm(comp) /\ me.bud >= Forever /\ Fits(comp, me.items[k])
  <2>1. CASE me.ret = "slack" => ~(Calm(comp) /\ me.dl >= Forever)
    BY <1>1, <2>1, UndoFollows
  <2>2. CASE me.ret = "slack" /\ Calm(comp) /\ me.dl >= Forever
    BY <1>1, <1>2, <2>2 DEF Patient
  <2> QED BY <2>1, <2>2
<1> QED BY <1>11, <1>12, <1>13

(* What was taken goes back. *)
LEMMA UndoSteps ==
  ASSUME Ledger, NEW me, Fine(comp, now, me), me.pc = "undo", NEW k, k = me.ix[me.i]
  PROVE  /\ k \in DOMAIN me.items /\ me.got[k] # Nothing /\ Core(comp, me)
         /\ \A m : Gets(comp, m, me, k, Nothing) =>
              /\ me.i = me.stop => Follows(comp, now, NotTaken(m), m)
              /\ me.i # me.stop => Follows(comp, now, [m EXCEPT !.i = @ + 1], m)
<1>1. Core(comp, me) /\ Steady(comp, me) /\ Place(now, me) /\ Patient(comp, me) /\ now \in Nat
  BY Shape, FineParts
<1>2. /\ me.ret \in {"try", "reserve", "all", "rest", "slack"}
      /\ HasWalked(me, me.i, me.stop) /\ me.i <= me.stop /\ me.stop <= Len(me.ix)
  BY <1>1 DEF Place
<1>3. /\ Walks(me) /\ HeldDue(me) /\ Matured(me, now)
      /\ me.ret \in {"try", "reserve", "all"} => me.held = {}
  BY <1>1 DEF Place, Loops
<1>4. /\ me.i \in Nat /\ me.stop \in Nat /\ me.i \in 1..Len(me.ix) /\ Len(me.ix) \in Nat
      /\ me.i \in me.i..me.stop
  BY <1>1, <1>2, <1>3, CoreParts DEF Walks
<1>5. k \in DOMAIN me.items /\ k \notin me.held
  BY <1>3, <1>4 DEF Walks
<1>6. me.got[k] # Nothing
  BY <1>2, <1>4, <1>5 DEF HasWalked
<1>7. ASSUME NEW m, Gets(comp, m, me, k, Nothing)
      PROVE  /\ me.i = me.stop => Follows(comp, now, NotTaken(m), m)
             /\ me.i # me.stop => Follows(comp, now, [m EXCEPT !.i = @ + 1], m)
  <2> DEFINE i == me.i + 1
  <2>1. /\ Core(comp, m) /\ m.items = me.items /\ m.got[k] = Nothing
        /\ \A j \in DOMAIN me.items : j # k => m.got[j] = me.got[j]
    <3> DEFINE v == Nothing
    <3>1. v \in Nat \cup {Nothing} /\ Gets(comp, m, me, k, v)
      BY <1>7
    <3> HIDE DEF v
    <3>2. /\ Core(comp, m) /\ m.items = me.items /\ m.got[k] = v
          /\ \A j \in DOMAIN me.items : j # k => m.got[j] = me.got[j]
      BY <1>1, <1>5, <3>1, GetsParts
    <3> QED BY <3>2 DEF v
  <2>2. /\ m \in CallSet(comp) /\ m.dl = me.dl /\ m.pc = me.pc /\ m.ret = me.ret
        /\ m.ix = me.ix /\ m.i = me.i /\ m.stop = me.stop /\ m.held = me.held /\ m.due = me.due
        /\ m.sw = me.sw
    BY <1>7 DEF Gets
  <2>3. Steady(comp, m) /\ Matured(m, now) /\ HeldDue(m)
    BY <1>1, <1>3, <1>5, <2>1, <2>2 DEF Steady, Matured, HeldDue, Core
  <2>4. HasWalked(m, i, me.stop)
    <3> SUFFICES ASSUME NEW q \in DOMAIN me.items
                 PROVE  m.got[q] # Nothing <=> q \in me.held \/ \E j \in i..me.stop : me.ix[j] = q
      BY <2>1, <2>2 DEF HasWalked
    <3>1. \A j \in i..me.stop : j # me.i /\ j \in 1..Len(me.ix) /\ j \in me.i..me.stop
      BY <1>2, <1>4
    <3>2. \A j \in me.i..me.stop : j = me.i \/ j \in i..me.stop
      BY <1>4
    <3>3. CASE q = k
      <4>1. \A j \in i..me.stop : me.ix[j] # k
        BY <1>3, <1>4, <3>1 DEF Walks
      <4> QED BY <1>5, <2>1, <3>3, <4>1
    <3>4. CASE q # k
      <4>1. (\E j \in me.i..me.stop : me.ix[j] = q) <=> (\E j \in i..me.stop : me.ix[j] = q)
        BY <3>1, <3>2, <3>4
      <4>2. me.got[q] # Nothing <=> q \in me.held \/ \E j \in me.i..me.stop : me.ix[j] = q
        BY <1>2 DEF HasWalked
      <4> QED BY <2>1, <3>4, <4>1, <4>2
    <3> QED BY <3>3, <3>4
  <2>5. ASSUME me.i = me.stop PROVE Follows(comp, now, NotTaken(m), m)
    <3>1. i..me.stop = {}
      BY <1>4, <2>5
    <3>2. HasHeld(m)
      BY <2>4, <3>1 DEF HasWalked, HasHeld
    <3>3. m.ret = "slack" => Eager(comp, m)
      BY <1>1, <2>2 DEF Patient, Eager
    <3>4. Settled(comp, m)
      BY <2>1, <2>3, <3>2 DEF Settled
    <3> QED BY <1>1, <1>2, <1>3, <2>2, <3>3, <3>4, NotTakenFollows
  <2>6. ASSUME me.i # me.stop PROVE Follows(comp, now, [m EXCEPT !.i = @ + 1], m)
    <3> DEFINE r == [m EXCEPT !.i = i]
    <3>1. [m EXCEPT !.i = @ + 1] = r
      BY <2>2
    <3>2. i \in Nat /\ i \in 1..Len(me.ix) /\ i <= me.stop
      BY <1>2, <1>4, <2>6
    <3> HIDE DEF i
    <3>3. Turned(comp, r, m, m.pc, i, m.stop)
      BY <1>4, <2>2, <3>2, TurnFields
    <3> HIDE DEF r
    <3>4. /\ r \in CallSet(comp) /\ r.items = me.items /\ r.got = m.got /\ r.dl = me.dl
          /\ r.pc = "undo" /\ r.ret = me.ret /\ r.ix = me.ix /\ r.i = i /\ r.stop = me.stop
          /\ r.held = me.held /\ r.due = me.due /\ r.sw = me.sw
      BY <2>1, <2>2, <3>3 DEF Turned, SameCall
    <3>5. r.items # <<>> /\ HeldDue(r) /\ Matured(r, now) /\ Walks(r)
      <4>1. r.items # <<>>
        BY <1>1, <3>4 DEF Core
      <4>2. HeldDue(r) /\ Matured(r, now)
        BY <2>2, <2>3, <3>4 DEF HeldDue, Matured
      <4>3. Walks(r)
        BY <1>3, <3>2, <3>4 DEF Walks
      <4> QED BY <4>1, <4>2, <4>3
    <3>6. HasWalked(r, r.i, r.stop)
      BY <2>1, <2>2, <2>4, <3>4 DEF HasWalked
    <3>7. Place(now, r)
      BY <1>2, <1>3, <3>2, <3>4, <3>5, <3>6 DEF Place, Loops
    <3>8. Patient(comp, r)
      BY <1>1, <3>4 DEF Patient
    <3>9. Fine(comp, now, r) /\ Keeps(r, m)
      BY <2>1, <2>2, <3>4, <3>7, <3>8 DEF Fine, Core, Keeps
    <3> QED BY <3>1, <3>9 DEF Follows
  <2> QED BY <2>5, <2>6
<1> QED BY <1>1, <1>5, <1>6, <1>7

(* One that was held goes back. *)
Freed(f, m, me, k) ==
  /\ m \in CallSet(f) /\ m.items = me.items /\ m.got = [me.got EXCEPT ![k] = Nothing]
  /\ m.dl = me.dl /\ m.pc = me.pc /\ m.ret = me.ret /\ m.held = me.held \ {k} /\ m.sw = me.sw

LEMMA FreedFields ==
  ASSUME NEW f, NEW me, Core(f, me), NEW k \in DOMAIN me.items
  PROVE  Freed(f, [me EXCEPT !.got[k] = Nothing, !.held = @ \ {k}], me, k)
<1> DEFINE a == [me EXCEPT !.got[k] = Nothing]
           h == me.held \ {k}
           m == [a EXCEPT !.held = h]
<1>1. Gets(f, a, me, k, Nothing)
  BY GotFields, 0 \in Nat
<1>2. me \in CallSet(f) /\ h \in SUBSET Nat
  BY CoreParts
<1>3. [me EXCEPT !.got[k] = Nothing, !.held = @ \ {k}] = m
  BY <1>2 DEF CallSet
<1> HIDE DEF a, h
<1>4. /\ a \in CallSet(f) /\ a.items = me.items /\ a.got = [me.got EXCEPT ![k] = Nothing]
      /\ a.dl = me.dl /\ a.pc = me.pc /\ a.ret = me.ret /\ a.sw = me.sw
  BY <1>1 DEF Gets
<1>5. /\ m \in CallSet(f) /\ m.items = a.items /\ m.got = a.got
      /\ m.dl = a.dl /\ m.pc = a.pc /\ m.ret = a.ret /\ m.held = h /\ m.sw = a.sw
  BY <1>2, <1>4 DEF CallSet
<1> HIDE DEF m
<1>6. Freed(f, m, me, k)
  BY <1>4, <1>5 DEF Freed, h
<1> QED BY <1>3, <1>6

Moved(f, r, m, n) == r \in CallSet(f) /\ SameCall(r, m) /\ r.held = m.held /\ r.sw = n

LEMMA MovedFields ==
  ASSUME NEW f, NEW m \in CallSet(f), NEW n \in Nat
  PROVE  Moved(f, [m EXCEPT !.due = 0, !.sw = n], m, n)
BY DEF CallSet, SameCall, Moved

LEMMA FreeSteps ==
  ASSUME Ledger, NEW me, Fine(comp, now, me), me.pc = "free", NEW k, k = Min(me.held)
  PROVE  /\ k \in DOMAIN me.items /\ me.got[k] # Nothing /\ Core(comp, me)
         /\ \A m : Freed(comp, m, me, k) =>
              /\ m.held # {} => Follows(comp, now, m, m)
              /\ m.held = {} /\ me.ret = "move" =>
                   Follows(comp, now, Loop([m EXCEPT !.due = 0, !.sw = m.sw + 1], "look", "none", All(me)), m)
              /\ m.held = {} /\ me.ret # "move" => Follows(comp, now, Done, m)
<1>1. Core(comp, me) /\ Steady(comp, me) /\ Place(now, me) /\ Patient(comp, me) /\ now \in Nat
  BY Shape, FineParts
<1>2. me.held # {} /\ me.ret \in {"move", "end"} /\ HasHeld(me)
  BY <1>1 DEF Place
<1>3. me.held \subseteq Nat /\ me.held \subseteq DOMAIN me.items
  BY <1>1, CoreParts DEF Core
<1>4. k \in me.held
  <2> DEFINE H == me.held
  <2>1. H \subseteq Nat /\ H # {} /\ k = Min(H)
    BY <1>2, <1>3
  <2> HIDE DEF H
  <2>2. Min(H) = CHOOSE i \in H : \A j \in H : i <= j
    BY Zenon DEF Min
  <2>3. k \in H
    BY <2>1, <2>2, MinMember
  <2> QED BY <2>3 DEF H
<1>5. k \in DOMAIN me.items /\ me.got[k] # Nothing
  BY <1>2, <1>3, <1>4 DEF HasHeld
<1>6. ASSUME NEW m, Freed(comp, m, me, k)
      PROVE  /\ m.held # {} => Follows(comp, now, m, m)
             /\ m.held = {} /\ me.ret = "move" =>
                  Follows(comp, now, Loop([m EXCEPT !.due = 0, !.sw = m.sw + 1], "look", "none", All(me)), m)
             /\ m.held = {} /\ me.ret # "move" => Follows(comp, now, Done, m)
  <2> DEFINE s == me.got
             g == [s EXCEPT ![k] = Nothing]
  <2>1. /\ m \in CallSet(comp) /\ m.items = me.items /\ m.got = g
        /\ m.dl = me.dl /\ m.pc = "free" /\ m.ret = me.ret /\ m.held = me.held \ {k} /\ m.sw = me.sw
    BY <1>6 DEF Freed
  <2>2. s \in Seq(Nat \cup {Nothing}) /\ k \in DOMAIN s /\ DOMAIN s = DOMAIN me.items /\ Len(s) = Len(me.items)
    BY <1>1, <1>5, CoreParts DEF Core
  <2> HIDE DEF s
  <2>3. Len(g) = Len(s) /\ g[k] = Nothing /\ \A j \in DOMAIN s : j # k => g[j] = s[j]
    BY <2>2
  <2> HIDE DEF g
  <2>4. Core(comp, m)
    BY <1>1, <1>3, <2>1, <2>2, <2>3 DEF Core
  <2>5. HasHeld(m)
    <3>1. \A q \in DOMAIN me.items : s[q] # Nothing <=> q \in me.held
      BY <1>2 DEF HasHeld, s
    <3> QED BY <2>1, <2>2, <2>3, <3>1 DEF HasHeld
  <2>6. ASSUME m.held # {} PROVE Follows(comp, now, m, m)
    <3>1. m.items # <<>>
      BY <2>4 DEF Core
    <3>2. Place(now, m)
      BY <1>2, <2>1, <2>5, <2>6, <3>1 DEF Place, Loops
    <3>3. Patient(comp, m)
      BY <1>1, <2>1 DEF Patient, Steady
    <3>4. Fine(comp, now, m)
      BY <2>1, <2>4, <3>2, <3>3 DEF Fine, Core
    <3> QED BY <3>4 DEF Follows, Keeps
  <2>7. ASSUME m.held = {}, me.ret = "move"
        PROVE  Follows(comp, now, Loop([m EXCEPT !.due = 0, !.sw = m.sw + 1], "look", "none", All(me)), m)
    <3> DEFINE n == m.sw + 1
               r == [m EXCEPT !.due = 0, !.sw = n]
    <3>0. n \in Nat
      BY <2>4, CoreParts
    <3> HIDE DEF n
    <3>a. Moved(comp, r, m, n)
      BY <2>1, <3>0, MovedFields
    <3> HIDE DEF r
    <3>1. r \in CallSet(comp) /\ SameCall(r, m) /\ r.held = m.held /\ r.sw = n
      BY <3>a DEF Moved
    <3>2. r.items = m.items /\ r.got = m.got /\ r.dl = m.dl /\ r.held = {} /\ r.sw = me.sw + 1
      BY <2>1, <2>7, <3>1 DEF SameCall, n
    <3>3. Core(comp, r) /\ HasHeld(r) /\ HeldDue(r) /\ Matured(r, now)
      BY <2>4, <2>5, <2>7, <3>1, <3>2 DEF Core, HasHeld, HeldDue, Matured
    <3>4. Steady(comp, r)
      <4>1. Calm(comp) /\ me.dl >= Forever => me.sw < MaxSwitches
        BY <1>1, <2>7 DEF Patient
      <4>2. me.sw \in Nat /\ MaxSwitches \in Nat
        BY <1>1, CoreParts, Constants
      <4> QED BY <2>1, <3>2, <4>1, <4>2 DEF Steady
    <3>5. All(me) = All(r)
      BY <2>1, <3>2 DEF All
    <3>6. Course(r, All(r))
      BY <3>2, <3>3, AllCourse
    <3>7. Enters(comp, r, "look", "none", All(r))
      BY <3>2 DEF Enters
    <3>8. Settled(comp, r)
      BY <3>3, <3>4 DEF Settled
    <3>9. Follows(comp, now, Loop(r, "look", "none", All(r)), r)
      BY <1>1, <3>3, <3>6, <3>7, <3>8, LoopFollows
    <3>10. Follows(comp, now, Loop(r, "look", "none", All(me)), m)
      BY <3>2, <3>5, <3>9 DEF Follows, Keeps
    <3> QED BY <3>10 DEF r, n
  <2>8. ASSUME m.held = {} PROVE Follows(comp, now, Done, m)
    BY <1>1, <2>5, <2>8, DoneFollows
  <2> QED BY <2>6, <2>7, <2>8
<1> QED BY <1>1, <1>5, <1>6

(* The bottleneck is reserved: it is all the caller has, and all it holds. *)
WithBottleneck(me, k, v) == [me EXCEPT !.held = {k}, !.due = v, !.got[k] = v]

Bottled(f, h, me, k, v) ==
  /\ Settled(f, h) /\ h.items = me.items /\ h.got = [me.got EXCEPT ![k] = v]
  /\ h.held = {k} /\ h.due = v

LEMMA BottledFields ==
  ASSUME NEW f, NEW me, Core(f, me), Steady(f, me), HasHeld(me), me.held = {},
         NEW k \in DOMAIN me.items, NEW v \in Nat
  PROVE  Bottled(f, WithBottleneck(me, k, v), me, k, v)
<1> DEFINE H == {k}
           s == me.got
           g == [s EXCEPT ![k] = v]
           m == [me EXCEPT !.held = H, !.due = v, !.got[k] = v]
<1>1. me \in CallSet(f) /\ k \in Nat /\ H \in SUBSET Nat /\ H \subseteq DOMAIN me.items
  BY CoreParts
<1>2. s \in Seq(Nat \cup {Nothing}) /\ k \in 1..Len(s) /\ DOMAIN s = DOMAIN me.items
      /\ Len(s) = Len(me.items) /\ DOMAIN s = 1..Len(s)
  BY CoreParts DEF Core
<1>3. m = [me EXCEPT !.held = H, !.due = v, !.got = g]
  BY <1>1 DEF CallSet
<1> HIDE DEF H, s, m
<1>4. /\ g \in Seq(Nat \cup {Nothing}) /\ Len(g) = Len(s) /\ g[k] = v
      /\ \A j \in DOMAIN s : j # k => g[j] = s[j]
  <2>1. v \in Nat \cup {Nothing}
    OBVIOUS
  <2> QED BY <1>2, <2>1, ExceptSeq
<1> HIDE DEF g
<1>5. /\ m \in CallSet(f) /\ m.items = me.items /\ m.got = g /\ m.dl = me.dl
      /\ m.held = H /\ m.due = v /\ m.sw = me.sw
  BY <1>1, <1>3, <1>4 DEF CallSet
<1>6. v # Nothing
  BY DEF Nothing
<1>7. HasHeld(m)
  <2> SUFFICES ASSUME NEW q \in DOMAIN me.items PROVE g[q] # Nothing <=> q \in H
    BY <1>5 DEF HasHeld
  <2>1. s[q] = Nothing
    BY DEF HasHeld, s
  <2> QED BY <1>2, <1>4, <1>6, <2>1 DEF H
<1>8. HeldDue(m)
  BY <1>4, <1>5 DEF HeldDue, H
<1>9. Core(f, m)
  BY <1>1, <1>2, <1>4, <1>5 DEF Core
<1>10. Steady(f, m)
  BY <1>5 DEF Steady
<1>11. Bottled(f, m, me, k, v)
  BY <1>5, <1>7, <1>8, <1>9, <1>10 DEF Bottled, Settled, H, g, s
<1> QED BY <1>11 DEF m, H, WithBottleneck

LEMMA BottleneckSteps ==
  ASSUME Ledger, NEW me, Fine(comp, now, me), me.pc = "one", NEW k, k = me.best
  PROVE  /\ k \in DOMAIN me.items /\ me.got[k] = Nothing /\ Core(comp, me)
         /\ Follows(comp, now, Again(me, me.long), me)
         /\ \A w \in Nat : \A h : h = WithBottleneck(me, k, now + w) =>
              Bottled(comp, h, me, k, now + w) /\ Follows(comp, now, Again(h, w), h)
<1>1. Core(comp, me) /\ Steady(comp, me) /\ Place(now, me) /\ now \in Nat
  BY Shape, FineParts
<1>2. me.held = {} /\ k \in DOMAIN me.items /\ HasHeld(me)
  BY <1>1 DEF Place
<1>3. me.got[k] = Nothing
  BY <1>2 DEF HasHeld
<1>4. Follows(comp, now, Again(me, me.long), me)
  <2>1. me.long \in Nat
    BY <1>1, CoreParts
  <2>2. Settled(comp, me)
    BY <1>1, <1>2 DEF Settled, HeldDue
  <2> QED BY <1>1, <1>2, <2>1, <2>2, AgainFine
<1>5. ASSUME NEW w \in Nat, NEW h, h = WithBottleneck(me, k, now + w)
      PROVE  Bottled(comp, h, me, k, now + w) /\ Follows(comp, now, Again(h, w), h)
  <2> DEFINE v == now + w
  <2>1. v \in Nat
    BY <1>1
  <2>2. h = WithBottleneck(me, k, v)
    BY <1>5
  <2>3. now + w = v
    OBVIOUS
  <2> HIDE DEF v
  <2>4. Bottled(comp, h, me, k, v)
    <3>1. Bottled(comp, WithBottleneck(me, k, v), me, k, v)
      BY <1>1, <1>2, <2>1, BottledFields
    <3> QED BY <2>2, <3>1, Zenon
  <2>5. Settled(comp, h) /\ h.due = v
    BY <2>4 DEF Bottled
  <2>6. now + w <= h.due
    BY <2>1, <2>3, <2>5
  <2> QED BY <1>1, <2>3, <2>4, <2>5, <2>6, AgainFine
<1> QED BY <1>1, <1>2, <1>3, <1>4, <1>5

(* What the deadline leaves. *)
Budgeted(f, a, me, b) ==
  /\ a \in CallSet(f) /\ SameCall(a, me) /\ a.pc = me.pc /\ a.held = me.held /\ a.due = me.due
  /\ a.sw = me.sw /\ a.until = me.until /\ a.bud = b

LEMMA BudgetFields ==
  ASSUME NEW f, NEW me \in CallSet(f), NEW b \in Nat
  PROVE  Budgeted(f, [me EXCEPT !.bud = b], me, b)
BY DEF CallSet, SameCall, Budgeted

LEMMA AskSteps ==
  ASSUME Ledger, NEW me, Fine(comp, now, me), me.pc = "ask", me.until <= now,
         NEW a, Budgeted(comp, a, me, Left(me))
  PROVE  /\ Keeps(a, me)
         /\ a.held = {} => Follows(comp, now, Loop(a, "look", "none", All(a)), a)
         /\ a.held # {} /\ a.due <= now /\ Rest(a) = <<>> => Follows(comp, now, Grant(a, now), a)
         /\ a.held # {} /\ a.due <= now /\ Rest(a) # <<>> =>
              Follows(comp, now, Loop(a, "rest", "none", Rest(a)), a)
         /\ Follows(comp, now, Release(a, "end"), a)
         /\ ~(a.due <= now) => Follows(comp, now, Again(a, a.due - now), a)
<1>1. Core(comp, me) /\ Steady(comp, me) /\ Place(now, me) /\ now \in Nat
  BY Shape, FineParts
<1>2. HasHeld(me) /\ HeldDue(me)
  BY <1>1 DEF Place
<1>3. /\ a \in CallSet(comp) /\ a.items = me.items /\ a.got = me.got /\ a.dl = me.dl
      /\ a.held = me.held /\ a.due = me.due /\ a.sw = me.sw /\ a.bud = Left(me)
  BY DEF Budgeted, SameCall
<1>4. Core(comp, a) /\ HasHeld(a) /\ HeldDue(a) /\ Steady(comp, a)
  BY <1>1, <1>2, <1>3 DEF Core, HasHeld, HeldDue, Steady
<1>5. Settled(comp, a)
  BY <1>4 DEF Settled
<1>6. a.due \in Nat
  BY <1>4, CoreParts
<1>7. ASSUME a.held = {} PROVE Follows(comp, now, Loop(a, "look", "none", All(a)), a)
  <2>1. Matured(a, now) /\ Enters(comp, a, "look", "none", All(a))
    BY <1>7 DEF Matured, Enters
  <2>2. Course(a, All(a))
    BY <1>4, <1>7, AllCourse
  <2> QED BY <1>1, <1>5, <2>1, <2>2, LoopFollows
<1>8. ASSUME a.held # {}, a.due <= now, Rest(a) = <<>> PROVE Follows(comp, now, Grant(a, now), a)
  <2>1. a.held = DOMAIN a.items
    BY <1>4, <1>8, RestCourse
  <2>2. Ripe(now, a, now)
    BY <1>4, <1>8, <2>1 DEF Ripe, HasHeld, HeldDue
  <2> QED BY <1>1, <1>4, <2>2, GrantFine
<1>9. ASSUME a.due <= now, Rest(a) # <<>>
      PROVE  Follows(comp, now, Loop(a, "rest", "none", Rest(a)), a)
  <2>1. Course(a, Rest(a))
    BY <1>4, <1>9, RestCourse
  <2>2. Matured(a, now)
    BY <1>9 DEF Matured
  <2>3. a.dl >= Forever => a.bud >= Forever
    BY <1>3, Constants DEF Left
  <2>4. Enters(comp, a, "rest", "none", Rest(a))
    BY <2>3 DEF Enters
  <2> QED BY <1>1, <1>5, <2>1, <2>2, <2>4, LoopFollows
<1>10. Follows(comp, now, Release(a, "end"), a)
  BY <1>1, <1>4, ReleaseFine
<1>11. ASSUME ~(a.due <= now) PROVE Follows(comp, now, Again(a, a.due - now), a)
  <2>1. a.due - now \in Nat /\ now + (a.due - now) <= a.due
    BY <1>1, <1>6, <1>11
  <2> QED BY <1>1, <1>5, <2>1, AgainFine
<1>12. Keeps(a, me)
  BY <1>3 DEF Keeps
<1> QED BY <1>7, <1>8, <1>9, <1>10, <1>11, <1>12

(* The longest of the pauses. *)
LEMMA LongestPause ==
  ASSUME Ledger, NEW me, Core(comp, me)
  PROVE  Max({Paused(me.items[k].c) : k \in DOMAIN me.items}) \in Nat
<1> DEFINE n == Len(me.items)
           D == DOMAIN me.items
           p == [k \in D |-> Paused(me.items[k].c)]
           S == {Paused(me.items[k].c) : k \in D}
<1>1. n \in Nat \ {0} /\ D = 1..n
  BY CoreParts
<1>2. ASSUME NEW k \in D PROVE p[k] \in Nat
  <2>1. me.items[k] \in Entries(comp)
    BY CoreParts
  <2> DEFINE c == me.items[k].c
  <2>2. c \in Constituents
    BY <2>1 DEF Entries, Constituents
  <2> HIDE DEF c
  <2>3. Paused(c) \in Nat
    BY <2>2, WaitsAreNumbers, 0 \in Nat
  <2> QED BY <2>3 DEF c
<1>3. \A x : x \in S <=> \E k \in D : x = p[k]
  OBVIOUS
<1> HIDE DEF n, D, p, S
<1>4. PICK i \in D : \A j \in D : p[j] <= p[i]
  <2>1. D \subseteq 1..n /\ D # {} /\ n \in Nat
    BY <1>1
  <2> QED BY <1>2, <2>1, Extremes
<1>5. p[i] \in Nat /\ S \subseteq 0..p[i] /\ S # {}
  <2> DEFINE b == p[i]
  <2>1. b \in Nat /\ \A j \in D : p[j] \in Nat /\ p[j] <= b
    BY <1>2, <1>4
  <2> HIDE DEF b
  <2>2. \A j \in D : p[j] \in 0..b
    BY <2>1
  <2>3. S \subseteq 0..b /\ S # {}
    BY <1>3, <1>4, <2>2
  <2> QED BY <2>1, <2>3 DEF b
<1>6. Max(S) \in S
  BY <1>5, MaxMember
<1>7. Max(S) \in Nat
  <2>1. \A x \in S : x \in Nat
    BY <1>2, <1>3
  <2> QED BY <1>6, <2>1, Zenon
<1> QED BY <1>7 DEF S, D

Napping(f, m, me, u) ==
  /\ m \in CallSet(f) /\ SameCall(m, me) /\ m.pc = me.pc /\ m.held = me.held /\ m.sw = me.sw
  /\ m.until = u /\ m.naps = TRUE

LEMMA NapFields ==
  ASSUME NEW f, NEW me \in CallSet(f), NEW u \in Nat
  PROVE  Napping(f, [me EXCEPT !.until = u, !.naps = TRUE], me, u)
BY DEF CallSet, SameCall, Napping

LEMMA ReturnSteps ==
  ASSUME Ledger, NEW me, Fine(comp, now, me), me.pc = "grant", me.until <= now, NEW p \in Nat
  PROVE  /\ Follows(comp, now, [Clear(me) EXCEPT !.pc = "ok", !.until = 0, !.due = 0, !.sw = 0, !.dl = 0], me)
         /\ Follows(comp, now, Release(me, "end"), me)
         /\ Follows(comp, now, [me EXCEPT !.until = now + p, !.naps = TRUE], me)
<1>1. /\ Core(comp, me) /\ Steady(comp, me) /\ Place(now, me) /\ now \in Nat
      /\ now <= comp.until /\ comp.until < Forever /\ comp.until \in Nat /\ Forever \in Nat
  BY Shape, FineParts, Constants
<1>2. me.held = DOMAIN me.items /\ \A k \in DOMAIN me.items : me.got[k] # Nothing
  BY <1>1 DEF Place
<1>3. me \in CallSet(comp) /\ me.until \in Nat /\ me.held \in SUBSET Nat
  BY <1>1, CoreParts
<1>4. \A k \in DOMAIN me.items : me.got[k] # Nothing /\ me.got[k] <= now
  <2> SUFFICES ASSUME NEW k \in DOMAIN me.items PROVE me.got[k] <= now
    BY <1>2
  <2>1. me.got[k] <= now \/ me.got[k] <= me.until \/ me.until >= Forever
    BY <1>1 DEF Place
  <2>2. me.got[k] \in Nat \cup {Nothing}
    BY <1>1, CoreParts
  <2>3. me.got[k] \in Int
    BY <2>2 DEF Nothing
  <2> QED BY <1>1, <1>3, <2>1, <2>3
<1>5. Follows(comp, now, [Clear(me) EXCEPT !.pc = "ok", !.until = 0, !.due = 0, !.sw = 0, !.dl = 0], me)
  <2> DEFINE r == [Clear(me) EXCEPT !.pc = "ok", !.until = 0, !.due = 0, !.sw = 0, !.dl = 0]
  <2>1. Passed(comp, r, me, me.held)
    BY <1>3, OkFields
  <2> HIDE DEF r
  <2>2. Follows(comp, now, r, me)
    BY <1>1, <1>2, <1>4, <2>1, OkFine
  <2> QED BY <2>2 DEF r
<1>6. Follows(comp, now, Release(me, "end"), me)
  <2>1. HasHeld(me)
    BY <1>2 DEF HasHeld
  <2> QED BY <1>1, <2>1, ReleaseFine
<1>7. Follows(comp, now, [me EXCEPT !.until = now + p, !.naps = TRUE], me)
  <2> DEFINE u == now + p
             m == [me EXCEPT !.until = u, !.naps = TRUE]
  <2>1. u \in Nat
    BY <1>1
  <2> HIDE DEF u
  <2>2. Napping(comp, m, me, u)
    BY <1>3, <2>1, NapFields
  <2> HIDE DEF m
  <2>3. /\ m \in CallSet(comp) /\ m.items = me.items /\ m.got = me.got /\ m.dl = me.dl
        /\ m.pc = "grant" /\ m.held = me.held /\ m.sw = me.sw
    BY <2>2 DEF Napping, SameCall
  <2>4. m.items # <<>>
    BY <1>1, <2>3 DEF Core
  <2>5. Place(now, m)
    BY <1>2, <1>4, <2>3, <2>4 DEF Place, Loops
  <2>6. Patient(comp, m)
    BY <1>1, <2>3 DEF Patient, Steady
  <2>7. Fine(comp, now, m) /\ Keeps(m, me)
    BY <1>1, <2>3, <2>5, <2>6 DEF Fine, Core, Keeps
  <2> QED BY <2>7 DEF Follows, m, u
<1> QED BY <1>5, <1>6, <1>7

-----------------------------------------------------------------------------
(* What a request costs. *)

(* Charged follows its recursion: a function that does exists, built up    *)
(* from the shorter ones.                                                  *)
Charges(t, dim, s, g, n) ==
  /\ g = [i \in 0..n |-> g[i]]
  /\ g[0] = 0
  /\ \A i \in 1..n : g[i] = IF Target(t, s[i].name) = dim THEN MinOf(U32Max, g[i - 1] + s[i].n)
                            ELSE g[i - 1]

LEMMA ChargedExists ==
  ASSUME NEW t, NEW dim, NEW s, NEW n \in Nat
  PROVE  \E g : Charges(t, dim, s, g, n)
<1> DEFINE bad == {m \in Nat : ~\E g : Charges(t, dim, s, g, m)}
<1>1. SUFFICES ASSUME bad # {} PROVE FALSE
  OBVIOUS
<1>2. bad \subseteq Nat
  OBVIOUS
<1>3. PICK m \in bad : \A i \in bad : m <= i
  <2> HIDE DEF bad
  <2> QED BY <1>1, <1>2, LeastNumber
<1>4. m \in Nat /\ ~\E g : Charges(t, dim, s, g, m)
  OBVIOUS
<1>5. CASE m = 0
  <2> DEFINE g == [i \in 0..0 |-> 0]
  <2>1. Charges(t, dim, s, g, 0)
    BY DEF Charges
  <2> QED BY <1>4, <1>5, <2>1
<1>6. CASE m # 0
  <2>1. m - 1 \in Nat /\ m - 1 \notin bad
    <3> HIDE DEF bad
    <3> QED BY <1>3, <1>4, <1>6
  <2>2. PICK g : Charges(t, dim, s, g, m - 1)
    BY <2>1
  <2> DEFINE last == IF Target(t, s[m].name) = dim THEN MinOf(U32Max, g[m - 1] + s[m].n) ELSE g[m - 1]
             h == [i \in 0..m |-> IF i < m THEN g[i] ELSE last]
  <2>3. h = [i \in 0..m |-> h[i]] /\ h[0] = 0
    BY <1>4, <1>6, <2>2 DEF Charges
  <2>4. ASSUME NEW i \in 1..m
        PROVE  h[i] = IF Target(t, s[i].name) = dim THEN MinOf(U32Max, h[i - 1] + s[i].n) ELSE h[i - 1]
    <3>1. h[i - 1] = g[i - 1]
      BY <1>4, <1>6
    <3>2. CASE i < m
      <4>1. h[i] = g[i] /\ i \in 1..(m - 1)
        BY <1>4, <3>2
      <4>2. g[i] = IF Target(t, s[i].name) = dim THEN MinOf(U32Max, g[i - 1] + s[i].n) ELSE g[i - 1]
        BY <2>2, <4>1 DEF Charges
      <4> HIDE DEF h
      <4> QED BY <3>1, <4>1, <4>2
    <3>3. CASE i = m
      <4>1. h[m] = last
        BY <1>4
      <4> HIDE DEF h
      <4> QED BY <1>4, <3>1, <3>3, <4>1
    <3> QED BY <1>4, <3>2, <3>3
  <2>5. Charges(t, dim, s, h, m)
    <3> HIDE DEF h
    <3> QED BY <2>3, <2>4 DEF Charges
  <2> QED BY <1>4, <2>5
<1> QED BY <1>5, <1>6

LEMMA ChargedAdds ==
  ASSUME NEW t, NEW dim, NEW s, Len(s) \in Nat
  PROVE  Charges(t, dim, s, Charged(t, dim, s), Len(s))
<1> DEFINE F(f) == [n \in 0..Len(s) |->
                      IF n = 0 THEN 0
                      ELSE IF Target(t, s[n].name) = dim THEN MinOf(U32Max, f[n - 1] + s[n].n)
                      ELSE f[n - 1]]
<1>1. Len(s) \in Nat
  OBVIOUS
<1>2. PICK g : Charges(t, dim, s, g, Len(s))
  BY <1>1, ChargedExists
<1>3. g = F(g)
  <2>1. g = [n \in 0..Len(s) |-> g[n]]
    BY <1>2 DEF Charges
  <2>2. ASSUME NEW n \in 0..Len(s) PROVE g[n] = F(g)[n]
    <3>1. CASE n = 0
      <4>1. F(g)[n] = 0
        BY <3>1
      <4> QED BY <1>2, <3>1, <4>1 DEF Charges
    <3>2. CASE n # 0
      <4>1. n \in 1..Len(s)
        BY <1>1, <3>2
      <4>2. F(g)[n] = IF Target(t, s[n].name) = dim THEN MinOf(U32Max, g[n - 1] + s[n].n) ELSE g[n - 1]
        BY <1>1, <3>2
      <4>3. g[n] = IF Target(t, s[n].name) = dim THEN MinOf(U32Max, g[n - 1] + s[n].n) ELSE g[n - 1]
        BY <1>2, <4>1 DEF Charges
      <4> HIDE DEF F
      <4> QED BY <4>2, <4>3
    <3> QED BY <3>1, <3>2
  <2>3. F(g) = [n \in 0..Len(s) |-> F(g)[n]]
    OBVIOUS
  <2> HIDE DEF F
  <2> QED BY <2>1, <2>2, <2>3
<1>4. Charged(t, dim, s) = CHOOSE f : f = F(f)
  BY DEF Charged
<1>5. Charged(t, dim, s) = F(Charged(t, dim, s))
  <2> HIDE DEF F
  <2> QED BY <1>3, <1>4
<1> DEFINE k == Charged(t, dim, s)
<1>6. k = F(k)
  BY <1>5
<1> HIDE DEF k
<1>7. k = [i \in 0..Len(s) |-> k[i]] /\ k[0] = 0
  BY <1>1, <1>6
<1>8. ASSUME NEW i \in 1..Len(s)
      PROVE  k[i] = IF Target(t, s[i].name) = dim THEN MinOf(U32Max, k[i - 1] + s[i].n) ELSE k[i - 1]
  <2>1. F(k)[i] = IF Target(t, s[i].name) = dim THEN MinOf(U32Max, k[i - 1] + s[i].n) ELSE k[i - 1]
    BY <1>1
  <2> HIDE DEF F
  <2> QED BY <1>6, <2>1
<1>9. Charges(t, dim, s, k, Len(s))
  BY <1>7, <1>8 DEF Charges
<1> QED BY <1>9 DEF k

(* What every prefix of a request comes to is a number. *)
LEMMA ChargedNat ==
  ASSUME NEW t, NEW dim, NEW s \in Seq(Costings), NEW n \in 0..Len(s)
  PROVE  Charged(t, dim, s)[n] \in Nat
<1> DEFINE k == Charged(t, dim, s)
           bad == {m \in 0..Len(s) : k[m] \notin Nat}
<1>1. Len(s) \in Nat /\ \A i \in 1..Len(s) : s[i].n \in Nat
  <2>1. Len(s) \in Nat /\ \A i \in 1..Len(s) : s[i] \in Costings
    OBVIOUS
  <2> QED BY <2>1 DEF Costings
<1>2. Charges(t, dim, s, k, Len(s))
  BY <1>1, ChargedAdds
<1>3. SUFFICES ASSUME bad # {} PROVE FALSE
  OBVIOUS
<1>4. bad \subseteq Nat
  BY <1>1
<1>5. PICK m \in bad : \A i \in bad : m <= i
  <2> HIDE DEF bad
  <2> QED BY <1>3, <1>4, LeastNumber
<1>6. m \in 0..Len(s) /\ k[m] \notin Nat
  OBVIOUS
<1> HIDE DEF k
<1>7. m # 0
  BY <1>2, <1>6 DEF Charges
<1>8. m - 1 \in 0..Len(s) /\ m \in 1..Len(s) /\ m \in Nat /\ m - 1 < m
  BY <1>1, <1>6, <1>7
<1>9. m - 1 \notin bad
  <2> HIDE DEF bad
  <2> QED BY <1>5, <1>8
<1>10. k[m - 1] \in Nat /\ s[m].n \in Nat /\ U32Max \in Nat
  BY <1>1, <1>8, <1>9, Constants
<1>11. k[m] = IF Target(t, s[m].name) = dim THEN MinOf(U32Max, k[m - 1] + s[m].n) ELSE k[m - 1]
  BY <1>2, <1>8 DEF Charges
<1>12. k[m] \in Nat
  BY <1>10, <1>11 DEF MinOf
<1> QED BY <1>6, <1>12

LEMMA CostIsNat ==
  ASSUME NEW t, NEW dim, NEW s \in Seq(Costings)
  PROVE  CostFor(t, dim, s) \in Nat
<1>1. Len(s) \in 0..Len(s)
  OBVIOUS
<1> QED BY <1>1, ChargedNat DEF CostFor

LEMMA MappedSeq ==
  ASSUME NEW A, NEW B, NEW s \in Seq(A), NEW g, DOMAIN g = DOMAIN s,
         g = [k \in DOMAIN s |-> g[k]], \A k \in DOMAIN s : g[k] \in B
  PROVE  g \in Seq(B) /\ Len(g) = Len(s)
<1>1. Len(s) \in Nat /\ DOMAIN s = 1..Len(s)
  OBVIOUS
<1>2. g \in [1..Len(s) -> B]
  BY <1>1
<1> QED BY <1>1, <1>2

LEMMA ItemsType ==
  ASSUME Ledger, NEW r \in comp.reqs
  PROVE  Items(r) \in Seq(Entries(comp))
<1>1. ValidParts(comp) /\ comp.kind \in {"hybrid", "multi", "layered"}
  BY Shape DEF Valid
<1>2. CASE comp.kind = "hybrid"
  <2> DEFINE s == comp.members
             g == HybridItems(r)
  <2>1. s \in Seq(Constituents) /\ r \in Nat
    BY <1>1, <1>2 DEF ValidParts, Constituents
  <2>2. g = [k \in DOMAIN s |-> [c |-> s[k], n |-> r]]
    BY DEF HybridItems
  <2> HIDE DEF s, g
  <2>3. \A k \in DOMAIN s : s[k] \in Constituents
    BY <2>1
  <2>4. DOMAIN g = DOMAIN s /\ g = [k \in DOMAIN s |-> g[k]] /\ \A k \in DOMAIN s : g[k] \in Entries(comp)
    BY <2>1, <2>2, <2>3 DEF Entries, Constituents
  <2>5. g \in Seq(Entries(comp))
    BY <2>1, <2>4, MappedSeq
  <2> QED BY <1>2, <2>5 DEF Items, g
<1>3. CASE comp.kind = "multi"
  <2> DEFINE s == comp.table.dims
             g == MultiItems(r)
             cost(k) == CostFor(comp.table, s[k].name, r)
  <2>1. s \in Seq([name : STRING, limiter : Constituents]) /\ r \in Seq(Costings)
    BY <1>1, <1>3 DEF ValidParts, Constituents
  <2>2. g = [k \in DOMAIN s |-> [c |-> s[k].limiter, n |-> cost(k)]]
    BY DEF MultiItems
  <2>3. \A k \in DOMAIN s : cost(k) \in Nat
    BY <2>1, CostIsNat
  <2> HIDE DEF s, g, cost
  <2> DEFINE E == [name : STRING, limiter : Constituents]
  <2>4. \A e \in E : e.limiter \in Constituents
    OBVIOUS
  <2>a. s \in Seq(E)
    BY <2>1
  <2> HIDE DEF E
  <2>b. \A k \in DOMAIN s : s[k] \in E
    BY <2>a
  <2>5. \A k \in DOMAIN s : s[k].limiter \in Constituents
    BY <2>4, <2>b
  <2>6. DOMAIN g = DOMAIN s /\ g = [k \in DOMAIN s |-> g[k]] /\ \A k \in DOMAIN s : g[k] \in Entries(comp)
    BY <2>2, <2>3, <2>5 DEF Entries, Constituents
  <2>7. g \in Seq(Entries(comp))
    BY <2>1, <2>6, MappedSeq
  <2> QED BY <1>3, <2>7 DEF Items, g
<1>4. CASE comp.kind = "layered"
  <2> DEFINE u == comp.global
             v == comp.per_key[r.key]
             w == comp.per_endpoint[r.endpoint]
             a == <<u, v, w>>
             s == Keep(a, Constituents)
             g == LayeredItems(r)
  <2>1. /\ u \in Constituents \cup {0} /\ v \in Constituents \cup {0} /\ w \in Constituents \cup {0}
        /\ r.cost \in Nat
    BY <1>1, <1>4 DEF ValidParts, Constituents
  <2>2. g = [k \in DOMAIN s |-> [c |-> s[k], n |-> r.cost]]
    BY DEF LayeredItems
  <2> HIDE DEF u, v, w, g
  <2>3. a \in Seq(Constituents \cup {0})
    BY <2>1
  <2> HIDE DEF a
  <2>4. s \in Seq(Constituents \cup {0}) /\ ToSet(s) = ToSet(a) \cap Constituents
    BY <2>3, KeepFacts
  <2> HIDE DEF s
  <2>5. \A k \in DOMAIN s : s[k] \in ToSet(s)
    BY DEF ToSet
  <2>6. \A k \in DOMAIN s : s[k] \in Constituents
    BY <2>4, <2>5
  <2>7. DOMAIN g = DOMAIN s /\ g = [k \in DOMAIN s |-> g[k]] /\ \A k \in DOMAIN s : g[k] \in Entries(comp)
    BY <2>1, <2>2, <2>6 DEF Entries, Constituents
  <2>8. g \in Seq(Entries(comp))
    BY <2>4, <2>7, MappedSeq
  <2> QED BY <1>4, <2>8 DEF Items, g
<1> QED BY <1>1, <1>2, <1>3, <1>4

(* A call that has only begun. *)
Begun(f, m, op, s, g, b) ==
  /\ m \in CallSet(f) /\ m.op = op /\ m.items = s /\ m.got = g /\ m.held = {} /\ m.sw = 0

LEMMA NewFields ==
  ASSUME NEW f, NEW op \in Ops, NEW s \in Seq(Entries(f)), NEW b \in Nat, NEW d \in Nat,
         NEW g \in Seq(Nat \cup {Nothing})
  PROVE  Begun(f, [Idle EXCEPT !.op = op, !.items = s, !.bud = b, !.dl = d, !.got = g], op, s, g, b)
<1> DEFINE me == Idle
<1>1. me \in CallSet(f) /\ me.held = {} /\ me.sw = 0
  <2>1. Idle.held = {} /\ Idle.sw = 0
    BY DEF Idle
  <2> QED BY <2>1, Ended, 0 \in Nat DEF Fine
<1> HIDE DEF me
<1> DEFINE m == [me EXCEPT !.op = op, !.items = s, !.bud = b, !.dl = d, !.got = g]
<1>2. m \in CallSet(f)
  BY <1>1 DEF CallSet
<1>3. m.op = op /\ m.items = s /\ m.got = g /\ m.held = me.held /\ m.sw = me.sw
  BY <1>1 DEF CallSet
<1> HIDE DEF m
<1>4. Begun(f, m, op, s, g, b)
  BY <1>1, <1>2, <1>3 DEF Begun
<1> QED BY <1>4 DEF m, me

LEMMA StartSteps ==
  ASSUME Ledger, NEW op \in comp.ops, NEW r \in comp.reqs, NEW d \in comp.timeouts,
         Items(r) # <<>>, NEW me, me = NewCall(op, r, d)
  PROVE  /\ Core(comp, me) /\ \A k \in DOMAIN me.items : me.got[k] = Nothing
         /\ Follows(comp, now, Loop(me, "peek", "try", All(me)), me)
         /\ Follows(comp, now, Loop(me, "fits", "reserve", All(me)), me)
         /\ Follows(comp, now, StepAt(me, now, 0), me)
<1> DEFINE s == Items(r)
           g == [k \in DOMAIN s |-> Nothing]
           e == Until(d)
<1>1. now \in Nat /\ d \in Nat /\ op \in Ops
  BY Shape DEF Ops
<1>2. s \in Seq(Entries(comp)) /\ s # <<>>
  BY ItemsType
<1>3. e \in Nat
  BY <1>1, Later
<1>4. me = [Idle EXCEPT !.op = op, !.items = s, !.bud = d, !.dl = e, !.got = g]
  BY DEF NewCall
<1> HIDE DEF s, e
<1>5. g \in Seq(Nat \cup {Nothing}) /\ Len(g) = Len(s) /\ \A k \in DOMAIN s : g[k] = Nothing
  <2>1. DOMAIN g = DOMAIN s /\ g = [k \in DOMAIN s |-> g[k]] /\ \A k \in DOMAIN s : g[k] \in Nat \cup {Nothing}
    OBVIOUS
  <2>2. \A k \in DOMAIN s : g[k] = Nothing
    OBVIOUS
  <2> HIDE DEF g
  <2> QED BY <1>2, <2>1, <2>2, MappedSeq
<1> HIDE DEF g
<1>6. Begun(comp, me, op, s, g, d)
  <2>1. Begun(comp, [Idle EXCEPT !.op = op, !.items = s, !.bud = d, !.dl = e, !.got = g], op, s, g, d)
    BY <1>1, <1>2, <1>3, <1>5, NewFields
  <2> QED BY <1>4, <2>1
<1>7. /\ me \in CallSet(comp) /\ me.items = s /\ me.got = g /\ me.held = {} /\ me.sw = 0
  BY <1>6 DEF Begun
<1>8. Core(comp, me) /\ HasHeld(me) /\ HeldDue(me) /\ Matured(me, now)
  BY <1>2, <1>5, <1>7 DEF Core, HasHeld, HeldDue, Matured
<1>9. Settled(comp, me)
  BY <1>7, <1>8, Constants DEF Settled, Steady
<1>10. Course(me, All(me))
  BY <1>7, <1>8, AllCourse
<1>11. Enters(comp, me, "peek", "try", All(me)) /\ Enters(comp, me, "fits", "reserve", All(me))
  BY <1>7 DEF Enters
<1>12. /\ Follows(comp, now, Loop(me, "peek", "try", All(me)), me)
       /\ Follows(comp, now, Loop(me, "fits", "reserve", All(me)), me)
  BY <1>1, <1>8, <1>9, <1>10, <1>11, LoopFollows
<1>13. Follows(comp, now, StepAt(me, now, 0), me)
  BY <1>1, <1>7, <1>9, StepFine, Constants
<1> QED BY <1>5, <1>7, <1>8, <1>12, <1>13

-----------------------------------------------------------------------------
(* What a caller has of a constituent. *)

LEMMA SumIsTotal ==
  ASSUME NEW f, NEW S
  PROVE  SumOver(f, S) = Total(f, S)
BY DEF SumOver, Total, UnitsOf

(* What k is worth to constituent c. *)
Worth(me, k, c) == IF me.items[k].c = c THEN me.items[k].n ELSE 0

LEMMA CostsParts ==
  ASSUME NEW f, NEW me, Core(f, me)
  PROVE  \A k \in DOMAIN me.items : /\ CostsOf(me)[k] = me.items[k].n /\ CostsOf(me)[k] \in Nat
                                    /\ \A c : Worth(me, k, c) \in Nat
<1> SUFFICES ASSUME NEW k \in DOMAIN me.items
             PROVE  /\ CostsOf(me)[k] = me.items[k].n /\ CostsOf(me)[k] \in Nat
                    /\ \A c : Worth(me, k, c) \in Nat
  OBVIOUS
<1>1. CostsOf(me)[k] = me.items[k].n
  BY DEF CostsOf
<1>2. me.items[k] \in Entries(f)
  BY CoreParts
<1>3. me.items[k].n \in Nat
  BY <1>2 DEF Entries
<1> QED BY <1>1, <1>3 DEF Worth

Having(me, c) == {k \in Taken(me) : me.items[k].c = c}

LEMMA HavingFinite ==
  ASSUME NEW f, NEW me, Core(f, me), NEW S, S \subseteq DOMAIN me.items
  PROVE  IsFiniteSet(S) /\ Total(CostsOf(me), S) \in Nat
<1>1. Len(me.items) \in Nat /\ DOMAIN me.items = 1..Len(me.items)
  BY CoreParts
<1>2. IsFiniteSet(1..Len(me.items))
  BY <1>1, FS_Interval
<1>3. IsFiniteSet(S)
  BY <1>1, <1>2, FS_Subset
<1>4. \A k \in S : CostsOf(me)[k] \in Nat
  BY CostsParts
<1>5. \A k \in S : CostsOf(me)[k] <= CostsOf(me)[k]
  BY <1>4
<1> QED BY <1>3, <1>4, <1>5, TotalMono

LEMMA WithIsNat ==
  ASSUME NEW f, NEW me, Core(f, me), NEW c
  PROVE  With(me, c) \in Nat /\ With(me, c) = Total(CostsOf(me), Having(me, c))
<1>1. With(me, c) = Total(CostsOf(me), Having(me, c))
  BY SumIsTotal DEF With, Having
<1>2. Having(me, c) \subseteq DOMAIN me.items
  BY CoreParts DEF Having, Taken
<1> QED BY <1>1, <1>2, HavingFinite

(* A caller that goes on has as much, one that ends had nothing. *)
LEMMA KeepsWith ==
  ASSUME NEW f, NEW me, Core(f, me), NEW m, Keeps(m, me), NEW c
  PROVE  With(m, c) = With(me, c)
<1>1. CASE m.items = me.items /\ m.got = me.got
  BY <1>1 DEF With, CostsOf, Taken
<1>2. CASE m.items = <<>> /\ m.got = <<>> /\ \A k \in DOMAIN me.items : me.got[k] = Nothing
  <2>1. DOMAIN me.got = DOMAIN me.items
    BY CoreParts
  <2>2. Having(m, c) = {} /\ Having(me, c) = {}
    BY <1>2, <2>1 DEF Having, Taken
  <2>3. With(m, c) = Total(CostsOf(m), {}) /\ With(me, c) = Total(CostsOf(me), {})
    BY <2>2, SumIsTotal DEF With, Having
  <2>4. \A g : Total(g, {}) = 0
    BY TotalZero
  <2> QED BY <2>3, <2>4
<1> QED BY <1>1, <1>2 DEF Keeps

(* m has what me has and k. *)
Adds(m, me, k) ==
  /\ m.items = me.items /\ DOMAIN m.got = DOMAIN me.got
  /\ me.got[k] = Nothing /\ m.got[k] # Nothing
  /\ \A j \in DOMAIN me.items : j # k => m.got[j] = me.got[j]

LEMMA AddsWith ==
  ASSUME NEW f, NEW me, Core(f, me), NEW k \in DOMAIN me.items, NEW m, Adds(m, me, k), NEW c
  PROVE  /\ With(m, c) = With(me, c) + Worth(me, k, c)
         /\ With(me, c) \in Nat /\ Worth(me, k, c) \in Nat
<1> DEFINE w == CostsOf(me)
           S == Having(me, c)
           T == Having(m, c)
<1>1. DOMAIN me.got = DOMAIN me.items
  BY CoreParts
<1>2. With(me, c) = Total(w, S) /\ Total(w, S) \in Nat
  BY WithIsNat
<1>3. With(m, c) = Total(w, T)
  BY SumIsTotal DEF With, Having, Adds, CostsOf
<1>4. w[k] = me.items[k].n /\ w[k] \in Nat /\ Worth(me, k, c) \in Nat /\ \A j \in DOMAIN me.items : w[j] \in Nat
  BY CostsParts
<1>5. S \subseteq DOMAIN me.items /\ k \notin S
  BY <1>1 DEF Having, Taken, Adds
<1>6. CASE me.items[k].c = c
  <2>1. T = S \cup {k}
    BY <1>1, <1>6 DEF Having, Taken, Adds
  <2>2. IsFiniteSet(S) /\ IsFiniteSet({k})
    BY <1>5, HavingFinite, FS_Singleton
  <2> HIDE DEF w, S, T
  <2>3. Total(w, S \cup {k}) = Total(w, S) + Total(w, {k})
    <3>1. S \cap {k} = {} /\ \A x \in S \cup {k} : w[x] \in Nat
      BY <1>4, <1>5
    <3> QED BY <2>2, <3>1, TotalUnion
  <2>4. Total(w, {k}) = w[k]
    BY <1>4, TotalOne
  <2> QED BY <1>2, <1>3, <1>4, <1>6, <2>1, <2>3, <2>4 DEF Worth
<1>7. CASE me.items[k].c # c
  <2>1. T = S
    BY <1>1, <1>7 DEF Having, Taken, Adds
  <2> HIDE DEF w, S, T
  <2> QED BY <1>2, <1>3, <1>7, <2>1 DEF Worth
<1> QED BY <1>2, <1>4, <1>6, <1>7

LEMMA GotAdds ==
  ASSUME NEW f, NEW me, Core(f, me), NEW k \in DOMAIN me.items, NEW v \in Nat \cup {Nothing},
         NEW m, m.items = me.items, m.got = [me.got EXCEPT ![k] = v]
  PROVE  /\ me.got[k] = Nothing /\ v \in Nat => Adds(m, me, k)
         /\ me.got[k] # Nothing /\ v = Nothing => Adds(me, m, k)
<1> DEFINE s == me.got
           g == [s EXCEPT ![k] = v]
<1>1. s \in Seq(Nat \cup {Nothing}) /\ k \in DOMAIN s /\ DOMAIN s = DOMAIN me.items /\ m.got = g
  BY CoreParts
<1> HIDE DEF s
<1>2. DOMAIN g = DOMAIN s /\ g[k] = v /\ \A j \in DOMAIN s : j # k => g[j] = s[j]
  BY <1>1
<1> HIDE DEF g
<1>3. v \in Nat => v # Nothing
  BY DEF Nothing
<1> QED BY <1>1, <1>2, <1>3 DEF Adds, s

(* Everything that was asked for was got. *)
LEMMA WholeWith ==
  ASSUME NEW f, NEW me, Core(f, me), \A k \in DOMAIN me.items : me.got[k] # Nothing, NEW c
  PROVE  With(me, c) = SumOver(CostsOf(me), {k \in DOMAIN me.items : me.items[k].c = c})
<1>1. Taken(me) = DOMAIN me.items
  BY CoreParts DEF Taken
<1> QED BY <1>1 DEF With

-----------------------------------------------------------------------------
(* The steps of the callers. *)

(* What goes to, comes from or stays with one caller is accounted for. *)
Even(m, me) ==
  \A c \in Constituents :
    bal'[c] + gone'[c] + Returning(ad', c) + With(m, c)
      = bal[c] + gone[c] + Returning(ad, c) + With(me, c)

Stepped(x) ==
  /\ comp' = comp /\ now' = now /\ hold' = hold
  /\ bal' \in [Constituents -> Int] /\ \A c \in Constituents : bal'[c] <= comp.cap[c]
  /\ gone' \in [Constituents -> Nat]
  /\ ad' \in Seq(Work(comp))
  /\ \E m : cl' = [cl EXCEPT ![x] = m] /\ Fine(comp, now, m) /\ Even(m, cl[x])

(* What is about to be refunded is a number. *)
LEMMA ReturningNat ==
  ASSUME NEW f, NEW s \in Seq(Work(f)), NEW c
  PROVE  Returning(s, c) \in Nat
<1> DEFINE g == [k \in DOMAIN s |-> s[k].n]
           S == {k \in DOMAIN s : s[k].op = "refund" /\ s[k].c = c}
<1>1. Len(s) \in Nat /\ DOMAIN s = 1..Len(s)
  OBVIOUS
<1>2. \A k \in DOMAIN s : s[k] \in Work(f)
  OBVIOUS
<1>3. \A k \in S : g[k] \in Nat /\ g[k] <= g[k]
  BY <1>2 DEF Work, Jobs
<1>4. S \subseteq 1..Len(s)
  BY <1>1
<1>5. Returning(s, c) = Total(g, S)
  BY SumIsTotal DEF Returning
<1> HIDE DEF g, S
<1>6. IsFiniteSet(S)
  <2>1. IsFiniteSet(1..Len(s))
    BY <1>1, FS_Interval
  <2> QED BY <1>4, <2>1, FS_Subset
<1>7. Total(g, S) \in Nat
  BY <1>3, <1>6, TotalMono
<1> QED BY <1>5, <1>7

(* A step that only looks. *)
LEMMA Quiet ==
  ASSUME CompositeInv, NEW x \in Callers, NEW m, Become(x, m), Follows(comp, now, m, cl[x]),
         Core(comp, cl[x]), UNCHANGED <<comp, now, bal, hold, ad, gone>>
  PROVE  Stepped(x)
<1>1. /\ comp' = comp /\ now' = now /\ hold' = hold /\ bal' = bal /\ gone' = gone /\ ad' = ad
      /\ cl' = [cl EXCEPT ![x] = m] /\ Fine(comp, now, m) /\ Keeps(m, cl[x])
  BY DEF Become, Follows
<1>2. /\ bal \in [Constituents -> Int] /\ \A c \in Constituents : bal[c] <= comp.cap[c]
      /\ gone \in [Constituents -> Nat] /\ ad \in Seq(Work(comp))
  BY DEF CompositeInv, Ledger
<1>3. \A c : With(m, c) = With(cl[x], c)
  BY <1>1, KeepsWith
<1>4. Even(m, cl[x])
  BY <1>1, <1>3 DEF Even
<1> QED BY <1>1, <1>2, <1>4 DEF Stepped

(* A step that takes what k asks for. *)
LEMMA TakesOne ==
  ASSUME CompositeInv, NEW x \in Callers, NEW k \in DOMAIN cl[x].items, Core(comp, cl[x]),
         NEW r, Adds(r, cl[x], k), Core(comp, r), NEW m, Become(x, m), Fine(comp, now, m), Keeps(m, r),
         Take(cl[x].items[k].c, cl[x].items[k].n), UNCHANGED <<comp, now, hold, ad, gone>>
  PROVE  Stepped(x)
<1> DEFINE me == cl[x]
           q == me.items[k].c
           n == me.items[k].n
<1>1. /\ comp' = comp /\ now' = now /\ hold' = hold /\ gone' = gone /\ ad' = ad
      /\ cl' = [cl EXCEPT ![x] = m] /\ bal' = [bal EXCEPT ![q] = bal[q] - n]
  BY DEF Become, Take
<1>2. /\ bal \in [Constituents -> Int] /\ gone \in [Constituents -> Nat] /\ ad \in Seq(Work(comp)) /\ Ledger
  BY DEF CompositeInv, Ledger
<1>3. q \in Constituents /\ n \in Nat
  <2>1. me.items[k] \in Entries(comp)
    BY CoreParts
  <2> QED BY <2>1 DEF Entries, Constituents
<1>4. \A c \in Constituents : Worth(me, k, c) = IF c = q THEN n ELSE 0
  BY DEF Worth
<1>5. \A c : With(m, c) = With(me, c) + Worth(me, k, c) /\ With(me, c) \in Nat
  <2>1. \A c : With(m, c) = With(r, c)
    BY KeepsWith
  <2>2. \A c : With(r, c) = With(me, c) + Worth(me, k, c) /\ With(me, c) \in Nat
    BY AddsWith
  <2> QED BY <2>1, <2>2
<1> HIDE DEF me, q, n
<1>6. bal' \in [Constituents -> Int]
  BY <1>1, <1>2, <1>3
<1>7. ASSUME NEW c \in Constituents
      PROVE  /\ bal'[c] <= comp.cap[c]
             /\ bal'[c] + gone'[c] + Returning(ad', c) + With(m, c)
                  = bal[c] + gone[c] + Returning(ad, c) + With(me, c)
  <2>1. comp.cap[c] \in Nat /\ bal[c] \in Int /\ bal[c] <= comp.cap[c] /\ gone[c] \in Nat
    BY <1>2, Part
  <2>2. bal'[c] = bal[c] - (IF c = q THEN n ELSE 0)
    BY <1>1, <1>2, <1>3, <2>1
  <2>3. bal'[c] <= comp.cap[c]
    BY <1>3, <2>1, <2>2
  <2> DEFINE R == Returning(ad, c)
             W == With(me, c)
             V == With(m, c)
  <2>4. R \in Nat
    BY <1>2, ReturningNat
  <2>5. V = W + (IF c = q THEN n ELSE 0) /\ W \in Nat
    BY <1>4, <1>5
  <2> HIDE DEF R, W, V
  <2>6. bal'[c] + gone[c] + R + V = bal[c] + gone[c] + R + W
    BY <1>3, <2>1, <2>2, <2>4, <2>5
  <2> QED BY <1>1, <2>3, <2>6 DEF R, W, V
<1>8. Even(m, cl[x])
  BY <1>7 DEF Even, me
<1> QED BY <1>1, <1>2, <1>6, <1>7, <1>8 DEF Stepped

(* A step that gives back what k asked for. *)
LEMMA GivesBackOne ==
  ASSUME CompositeInv, NEW x \in Callers, NEW k \in DOMAIN cl[x].items, Core(comp, cl[x]),
         NEW r, Adds(cl[x], r, k), Core(comp, r), NEW m, Become(x, m), Fine(comp, now, m), Keeps(m, r),
         GiveBack(cl[x], k), UNCHANGED <<comp, now, hold, ad>>
  PROVE  Stepped(x)
<1> DEFINE me == cl[x]
           q == me.items[k].c
           n == me.items[k].n
           b == Back(q, n)
<1>1. /\ comp' = comp /\ now' = now /\ hold' = hold /\ ad' = ad
      /\ cl' = [cl EXCEPT ![x] = m]
      /\ bal' = [bal EXCEPT ![q] = bal[q] + b] /\ gone' = [gone EXCEPT ![q] = gone[q] + n - b]
  BY DEF Become, GiveBack, Refund
<1>2. /\ bal \in [Constituents -> Int] /\ gone \in [Constituents -> Nat] /\ ad \in Seq(Work(comp)) /\ Ledger
  BY DEF CompositeInv, Ledger
<1>3. q \in Constituents /\ n \in Nat /\ r.items = me.items
  <2>1. me.items[k] \in Entries(comp)
    BY CoreParts
  <2> QED BY <2>1 DEF Entries, Constituents, Adds
<1>4. \A c \in Constituents : Worth(r, k, c) = IF c = q THEN n ELSE 0
  BY <1>3 DEF Worth
<1>5. \A c : With(me, c) = With(m, c) + Worth(r, k, c) /\ With(m, c) \in Nat
  <2>1. \A c : With(m, c) = With(r, c)
    BY KeepsWith
  <2>2. \A c : With(me, c) = With(r, c) + Worth(r, k, c) /\ With(r, c) \in Nat
    BY <1>3, AddsWith
  <2> QED BY <2>1, <2>2
<1> HIDE DEF me, q, n
<1>6. b \in Nat /\ b <= n /\ bal[q] + b <= comp.cap[q]
  BY <1>2, <1>3, Backs
<1> HIDE DEF b
<1>7. n - b \in Nat /\ bal[q] \in Int /\ gone[q] \in Nat
  BY <1>2, <1>3, <1>6
<1>8. bal' \in [Constituents -> Int] /\ gone' \in [Constituents -> Nat]
  <2>1. bal[q] + b \in Int /\ gone[q] + n - b \in Nat
    BY <1>3, <1>6, <1>7
  <2> QED BY <1>1, <1>2, <1>3, <2>1
<1>9. ASSUME NEW c \in Constituents
      PROVE  /\ bal'[c] <= comp.cap[c]
             /\ bal'[c] + gone'[c] + Returning(ad', c) + With(m, c)
                  = bal[c] + gone[c] + Returning(ad, c) + With(me, c)
  <2>1. comp.cap[c] \in Nat /\ bal[c] \in Int /\ bal[c] <= comp.cap[c] /\ gone[c] \in Nat
    BY <1>2, Part
  <2>2. /\ bal'[c] = bal[c] + (IF c = q THEN b ELSE 0)
        /\ gone'[c] = gone[c] + (IF c = q THEN n - b ELSE 0)
    BY <1>1, <1>2, <1>3, <1>6, <2>1
  <2>3. bal'[c] <= comp.cap[c]
    BY <1>6, <2>1, <2>2
  <2> DEFINE R == Returning(ad, c)
             W == With(me, c)
             V == With(m, c)
  <2>4. R \in Nat
    BY <1>2, ReturningNat
  <2>5. W = V + (IF c = q THEN n ELSE 0) /\ V \in Nat
    BY <1>4, <1>5
  <2> HIDE DEF R, W, V
  <2>6. bal'[c] + gone'[c] + R + V = bal[c] + gone[c] + R + W
    BY <1>3, <1>6, <2>1, <2>2, <2>4, <2>5
  <2> QED BY <1>1, <2>3, <2>6 DEF R, W, V
<1>10. Even(m, cl[x])
  BY <1>9 DEF Even, me
<1> QED BY <1>1, <1>2, <1>8, <1>9, <1>10 DEF Stepped

LEMMA LiveCaller ==
  ASSUME CompositeInv, NEW x \in Callers
  PROVE  Ledger /\ Fine(comp, now, cl[x]) /\ ad \in Seq(Work(comp))
BY DEF CompositeInv

LEMMA PeekOneSteps ==
  ASSUME CompositeInv, NEW x \in Callers, PeekOne(x)
  PROVE  Stepped(x)
<1> DEFINE me == cl[x]
           n == Folded(me, me.ix[me.i])
<1>1. Ledger /\ Fine(comp, now, me)
  BY LiveCaller
<1>2. /\ me.pc \in {"peek", "rest", "look", "fits"}
      /\ Become(x, IF n.never \/ me.i = Len(me.ix) THEN Peeked(n) ELSE [n EXCEPT !.i = @ + 1])
      /\ UNCHANGED <<comp, now, bal, hold, ad, gone>>
  BY DEF PeekOne
<1>3. /\ n.never \/ me.i = Len(me.ix) => Follows(comp, now, Peeked(n), me)
      /\ ~(n.never \/ me.i = Len(me.ix)) => Follows(comp, now, [n EXCEPT !.i = @ + 1], me)
  <2> HIDE DEF me
  <2> QED BY <1>1, <1>2, PeekFollows
<1>4. Core(comp, me)
  BY <1>1, <1>2, FineParts
<1> HIDE DEF me, n
<1>5. CASE n.never \/ me.i = Len(me.ix)
  <2>1. Become(x, Peeked(n)) /\ Follows(comp, now, Peeked(n), cl[x])
    BY <1>2, <1>3, <1>5 DEF me
  <2> QED BY <1>2, <1>4, <2>1, Quiet DEF me
<1>6. CASE ~(n.never \/ me.i = Len(me.ix))
  <2> DEFINE m == [n EXCEPT !.i = @ + 1]
  <2>1. Become(x, m) /\ Follows(comp, now, m, cl[x])
    BY <1>2, <1>3, <1>6 DEF me
  <2> HIDE DEF m
  <2> QED BY <1>2, <1>4, <2>1, Quiet DEF me
<1> QED BY <1>5, <1>6

LEMMA GetsCore ==
  ASSUME NEW f, NEW me, Core(f, me), NEW k \in DOMAIN me.items, NEW v \in Nat \cup {Nothing},
         NEW m, Gets(f, m, me, k, v)
  PROVE  /\ Core(f, m)
         /\ me.got[k] = Nothing /\ v \in Nat => Adds(m, me, k)
         /\ me.got[k] # Nothing /\ v = Nothing => Adds(me, m, k)
<1>1. Core(f, m)
  BY GetsParts
<1>2. m.items = me.items /\ m.got = [me.got EXCEPT ![k] = v]
  BY DEF Gets
<1> QED BY <1>1, <1>2, GotAdds

LEMMA CommitOneSteps ==
  ASSUME CompositeInv, NEW x \in Callers, CommitOne(x)
  PROVE  Stepped(x)
<1> DEFINE me == cl[x]
           k == me.ix[me.i]
           c == me.items[k].c
           n == me.items[k].n
           g == [me EXCEPT !.got[k] = now]
<1>1. Ledger /\ Fine(comp, now, me) /\ now \in Nat
  BY LiveCaller, Shape
<1>2. /\ me.pc = "commit" /\ UNCHANGED <<comp, now, hold, ad, gone>>
      /\ \/ /\ Take(c, n)
            /\ Become(x, IF me.i = Len(me.ix) THEN Committed(g) ELSE [g EXCEPT !.i = @ + 1])
         \/ Become(x, Undo(me)) /\ UNCHANGED bal
  BY DEF CommitOne
<1>3. Core(comp, me) /\ Taking(comp, now, me)
  BY <1>1, <1>2, FineParts, FineTakes
<1>4. k \in DOMAIN me.items /\ me.got[k] = Nothing
  <2> HIDE DEF me
  <2> QED BY <1>3, TakeOne
<1>5. Gets(comp, g, me, k, now)
  <2> HIDE DEF me, k
  <2> QED BY <1>1, <1>3, <1>4, GotFields
<1> HIDE DEF g
<1>6. /\ me.i = Len(me.ix) => Follows(comp, now, Committed(g), g)
      /\ me.i # Len(me.ix) => Follows(comp, now, [g EXCEPT !.i = @ + 1], g)
      /\ Follows(comp, now, Undo(me), me)
  <2> HIDE DEF me
  <2> QED BY <1>1, <1>2, <1>5, CommitSteps
<1>7. Core(comp, g) /\ Adds(g, me, k)
  <2> HIDE DEF me, k
  <2> QED BY <1>1, <1>3, <1>4, <1>5, GetsCore
<1>8. CASE Become(x, Undo(me)) /\ UNCHANGED bal
  <2>1. UNCHANGED <<comp, now, bal, hold, ad, gone>>
    BY <1>2, <1>8
  <2> QED BY <1>3, <1>6, <1>8, <2>1, Quiet
<1>9. CASE Take(c, n) /\ Become(x, IF me.i = Len(me.ix) THEN Committed(g) ELSE [g EXCEPT !.i = @ + 1])
  <2> DEFINE m == IF me.i = Len(me.ix) THEN Committed(g) ELSE [g EXCEPT !.i = @ + 1]
  <2>1. Follows(comp, now, m, g) /\ Become(x, m)
    BY <1>6, <1>9
  <2> HIDE DEF m, k
  <2>2. Fine(comp, now, m) /\ Keeps(m, g)
    BY <2>1 DEF Follows
  <2> QED BY <1>2, <1>3, <1>4, <1>7, <1>9, <2>1, <2>2, TakesOne
<1> QED BY <1>2, <1>8, <1>9

LEMMA ReserveOneSteps ==
  ASSUME CompositeInv, NEW x \in Callers, ReserveOne(x)
  PROVE  Stepped(x)
<1> DEFINE me == cl[x]
           k == me.ix[me.i]
           c == me.items[k].c
           n == me.items[k].n
           w == TimeUntil(c, n)
           v == now + w
           l == MaxOf(me.long, w)
           g == [me EXCEPT !.got[k] = v, !.long = l]
<1>1. Ledger /\ Fine(comp, now, me) /\ now \in Nat
  BY LiveCaller, Shape
<1>2. /\ me.pc = "reserve" /\ UNCHANGED <<comp, now, hold, ad, gone>>
      /\ IF Reserves(c, n, me.bud)
           THEN /\ Take(c, n)
                /\ Become(x, IF me.i = Len(me.ix)
                               THEN Grant([me EXCEPT !.got[k] = now + w, !.long = MaxOf(@, w)],
                                          Until([me EXCEPT !.got[k] = now + w, !.long = MaxOf(@, w)].long))
                             ELSE [[me EXCEPT !.got[k] = now + w, !.long = MaxOf(@, w)] EXCEPT !.i = @ + 1])
           ELSE Become(x, Undo(me)) /\ UNCHANGED bal
  BY DEF ReserveOne
<1>3. Core(comp, me) /\ Taking(comp, now, me)
  BY <1>1, <1>2, FineParts, FineTakes
<1>4. k \in DOMAIN me.items /\ me.got[k] = Nothing
  <2> HIDE DEF me
  <2> QED BY <1>3, TakeOne
<1>5. c \in Constituents /\ n \in Nat /\ me.items[k] \in Entries(comp)
  <2>1. me.items[k] \in Entries(comp)
    BY <1>3, <1>4, CoreParts
  <2> QED BY <2>1 DEF Entries, Constituents
<1>6. w \in Nat
  <2> HIDE DEF c, n
  <2> QED BY <1>1, <1>5, WaitsAreNumbers
<1>7. me \in CallSet(comp) /\ me.long \in Nat
  BY <1>3, CoreParts
<1>8. [me EXCEPT !.got[k] = now + w, !.long = MaxOf(@, w)] = g
  <2> HIDE DEF me, k, w
  <2> QED BY <1>7 DEF CallSet
<1>9. v \in Nat /\ v \in Nat \cup {Nothing} /\ l \in Nat
  <2> HIDE DEF me, w
  <2> QED BY <1>1, <1>6, <1>7 DEF MaxOf
<1>10. Gets(comp, g, me, k, v) /\ g.long = l
  <2> HIDE DEF me, k, v, l
  <2>1. Reserved(comp, g, me, k, v, l)
    BY <1>3, <1>4, <1>9, GotFields
  <2> HIDE DEF g
  <2> QED BY <2>1 DEF Reserved
<1>11. IF Reserves(c, n, me.bud)
         THEN /\ Take(c, n)
              /\ Become(x, IF me.i = Len(me.ix) THEN Grant(g, Until(g.long)) ELSE [g EXCEPT !.i = @ + 1])
         ELSE Become(x, Undo(me)) /\ UNCHANGED bal
  BY <1>2, <1>8
<1> HIDE DEF g
<1>12. /\ me.i = Len(me.ix) => Follows(comp, now, Grant(g, Until(g.long)), g)
       /\ me.i # Len(me.ix) => Follows(comp, now, [g EXCEPT !.i = @ + 1], g)
       /\ \/ Follows(comp, now, Undo(me), me)
          \/ Calm(comp) /\ me.bud >= Forever /\ Fits(comp, me.items[k])
  <2> HIDE DEF me, w
  <2> QED BY <1>1, <1>2, <1>6, <1>10, ReserveSteps
<1>13. Core(comp, g) /\ Adds(g, me, k)
  <2> HIDE DEF me, k, v
  <2> QED BY <1>1, <1>3, <1>4, <1>9, <1>10, GetsCore
<1>14. CASE Reserves(c, n, me.bud)
  <2> DEFINE m == IF me.i = Len(me.ix) THEN Grant(g, Until(g.long)) ELSE [g EXCEPT !.i = @ + 1]
  <2>1. Take(c, n) /\ Follows(comp, now, m, g) /\ Become(x, m)
    BY <1>11, <1>12, <1>14
  <2> HIDE DEF m, k
  <2>2. Fine(comp, now, m) /\ Keeps(m, g)
    BY <2>1 DEF Follows
  <2> QED BY <1>2, <1>3, <1>4, <1>13, <2>1, <2>2, TakesOne
<1>15. CASE ~Reserves(c, n, me.bud)
  <2>1. Become(x, Undo(me)) /\ UNCHANGED <<comp, now, bal, hold, ad, gone>>
    BY <1>2, <1>11, <1>15
  <2>2. ASSUME Calm(comp), me.bud >= Forever, Fits(comp, me.items[k])
        PROVE  FALSE
    <3>1. Paused(c) = 0
      <4> HIDE DEF c
      <4> QED BY <1>1, <1>5, <2>2, WaitsAreNumbers
    <3>2. comp.native[c]
      BY <1>5, <2>2 DEF Calm, Constituents
    <3>3. ~Impossible(c, n)
      <4>1. n <= comp.cap[c] /\ comp.cap[c] \in Nat
        <5>1. comp.cap[c] \in Nat
          <6> HIDE DEF c
          <6> QED BY <1>1, <1>5, Part
        <5> QED BY <2>2, <5>1 DEF Fits
      <4> HIDE DEF c, n
      <4> QED BY <1>5, <4>1 DEF Impossible
    <3> QED BY <1>15, <2>2, <3>1, <3>2, <3>3 DEF Reserves, Within
  <2>3. Follows(comp, now, Undo(me), me)
    BY <1>12, <2>2
  <2> QED BY <1>3, <2>1, <2>3, Quiet
<1> QED BY <1>14, <1>15

LEMMA UndoOneSteps ==
  ASSUME CompositeInv, NEW x \in Callers, UndoOne(x)
  PROVE  Stepped(x)
<1> DEFINE me == cl[x]
           k == me.ix[me.i]
           none == Nothing
           g == [me EXCEPT !.got[k] = none]
           m == IF me.i = me.stop THEN NotTaken(g) ELSE [g EXCEPT !.i = @ + 1]
<1>1. Ledger /\ Fine(comp, now, me)
  BY LiveCaller
<1>2. me.pc = "undo" /\ GiveBack(me, k) /\ Become(x, m) /\ UNCHANGED <<comp, now, hold, ad>>
  BY DEF UndoOne
<1>3. /\ k \in DOMAIN me.items /\ me.got[k] # Nothing /\ Core(comp, me)
      /\ \A r : Gets(comp, r, me, k, Nothing) =>
           /\ me.i = me.stop => Follows(comp, now, NotTaken(r), r)
           /\ me.i # me.stop => Follows(comp, now, [r EXCEPT !.i = @ + 1], r)
  <2> HIDE DEF me
  <2> QED BY <1>1, <1>2, UndoSteps
<1>4. none \in Nat \cup {Nothing} /\ 0 \in Nat
  OBVIOUS
<1>5. Gets(comp, g, me, k, none)
  <2> HIDE DEF me, k, none
  <2> QED BY <1>3, <1>4, GotFields
<1> HIDE DEF g
<1>6. Core(comp, g) /\ Adds(me, g, k)
  <2>1. none = Nothing
    OBVIOUS
  <2> HIDE DEF me, k, none
  <2> QED BY <1>3, <1>4, <1>5, <2>1, GetsCore
<1>7. Follows(comp, now, m, g)
  BY <1>3, <1>5
<1> HIDE DEF m, k
<1>8. Fine(comp, now, m) /\ Keeps(m, g)
  BY <1>7 DEF Follows
<1> QED BY <1>2, <1>3, <1>6, <1>8, GivesBackOne

LEMMA FreedAdds ==
  ASSUME NEW f, NEW me, Core(f, me), NEW k \in DOMAIN me.items, me.got[k] # Nothing,
         NEW m, Freed(f, m, me, k)
  PROVE  Core(f, m) /\ Adds(me, m, k)
<1> DEFINE none == Nothing
<1>1. none \in Nat \cup {Nothing} /\ none = Nothing
  OBVIOUS
<1>2. /\ m \in CallSet(f) /\ m.items = me.items /\ m.got = [me.got EXCEPT ![k] = none]
      /\ m.held = me.held \ {k}
  BY DEF Freed
<1> HIDE DEF none
<1>3. Adds(me, m, k)
  BY <1>1, <1>2, GotAdds
<1>4. Len(m.got) = Len(me.got)
  <2> DEFINE s == me.got
  <2>1. s \in Seq(Nat \cup {Nothing}) /\ m.got = [s EXCEPT ![k] = none]
    BY <1>2, CoreParts
  <2> HIDE DEF s
  <2>2. Len([s EXCEPT ![k] = none]) = Len(s)
    BY <2>1
  <2> QED BY <2>1, <2>2 DEF s
<1> QED BY <1>2, <1>3, <1>4 DEF Core

LEMMA FreeOneSteps ==
  ASSUME CompositeInv, NEW x \in Callers, FreeOne(x)
  PROVE  Stepped(x)
<1> DEFINE me == cl[x]
           k == Min(me.held)
           g == [me EXCEPT !.got[k] = Nothing, !.held = @ \ {k}]
           m == IF g.held # {} THEN g
                ELSE IF me.ret = "move"
                  THEN Loop([g EXCEPT !.due = 0, !.sw = g.sw + 1], "look", "none", All(me))
                ELSE Done
<1>1. Ledger /\ Fine(comp, now, me)
  BY LiveCaller
<1>2. me.pc = "free" /\ GiveBack(me, k) /\ Become(x, m) /\ UNCHANGED <<comp, now, hold, ad>>
  BY DEF FreeOne
<1>3. /\ k \in DOMAIN me.items /\ me.got[k] # Nothing /\ Core(comp, me)
      /\ \A r : Freed(comp, r, me, k) =>
           /\ r.held # {} => Follows(comp, now, r, r)
           /\ r.held = {} /\ me.ret = "move" =>
                Follows(comp, now, Loop([r EXCEPT !.due = 0, !.sw = r.sw + 1], "look", "none", All(me)), r)
           /\ r.held = {} /\ me.ret # "move" => Follows(comp, now, Done, r)
  <2> HIDE DEF me
  <2> QED BY <1>1, <1>2, FreeSteps
<1>4. Freed(comp, g, me, k)
  <2> HIDE DEF me, k
  <2> QED BY <1>3, FreedFields
<1> HIDE DEF g
<1>5. Core(comp, g) /\ Adds(me, g, k)
  <2> HIDE DEF me, k
  <2> QED BY <1>3, <1>4, FreedAdds
<1>6. Follows(comp, now, m, g)
  BY <1>3, <1>4
<1> HIDE DEF m, k
<1>7. Fine(comp, now, m) /\ Keeps(m, g)
  BY <1>6 DEF Follows
<1> QED BY <1>2, <1>3, <1>5, <1>7, GivesBackOne

LEMMA ReserveBottleneckSteps ==
  ASSUME CompositeInv, NEW x \in Callers, ReserveBottleneck(x)
  PROVE  Stepped(x)
<1> DEFINE me == cl[x]
           k == me.best
           c == me.items[k].c
           n == me.items[k].n
           w == TimeUntil(c, n)
           h == WithBottleneck(me, k, now + w)
           m == Again(h, w)
<1>1. Ledger /\ Fine(comp, now, me) /\ now \in Nat
  BY LiveCaller, Shape
<1>2. /\ me.pc = "one" /\ UNCHANGED <<comp, now, hold, ad, gone>>
      /\ \/ Take(c, n) /\ Become(x, m)
         \/ Become(x, Again(me, me.long)) /\ UNCHANGED bal
  BY DEF ReserveBottleneck, WithBottleneck
<1>3. /\ k \in DOMAIN me.items /\ me.got[k] = Nothing /\ Core(comp, me)
      /\ Follows(comp, now, Again(me, me.long), me)
      /\ w \in Nat => Bottled(comp, h, me, k, now + w) /\ Follows(comp, now, m, h)
  <2>1. k = me.best /\ h = WithBottleneck(me, k, now + w) /\ m = Again(h, w)
    OBVIOUS
  <2> HIDE DEF me, k, w, h, m
  <2>2. /\ k \in DOMAIN me.items /\ me.got[k] = Nothing /\ Core(comp, me)
        /\ Follows(comp, now, Again(me, me.long), me)
        /\ \A d \in Nat : \A g : g = WithBottleneck(me, k, now + d) =>
              Bottled(comp, g, me, k, now + d) /\ Follows(comp, now, Again(g, d), g)
    BY <1>1, <1>2, <2>1, BottleneckSteps
  <2> QED BY <2>1, <2>2, Zenon
<1>4. c \in Constituents /\ n \in Nat
  <2>1. me.items[k] \in Entries(comp)
    BY <1>3, CoreParts
  <2> QED BY <2>1 DEF Entries, Constituents
<1>5. w \in Nat
  <2> HIDE DEF c, n
  <2> QED BY <1>1, <1>4, WaitsAreNumbers
<1> HIDE DEF h, m
<1>6. CASE Take(c, n) /\ Become(x, m)
  <2> DEFINE v == now + w
  <2>1. v \in Nat /\ v \in Nat \cup {Nothing}
    <3> HIDE DEF w
    <3> QED BY <1>1, <1>5
  <2>2. Bottled(comp, h, me, k, v) /\ Follows(comp, now, m, h)
    <3> HIDE DEF me, w
    <3> QED BY <1>3, <1>5
  <2> HIDE DEF v, k
  <2>3. Adds(h, me, k)
    <3> HIDE DEF me
    <3>1. h.items = me.items /\ h.got = [me.got EXCEPT ![k] = v]
      BY <2>2 DEF Bottled
    <3> QED BY <1>3, <2>1, <3>1, GotAdds
  <2>4. Core(comp, h)
    BY <2>2 DEF Bottled, Settled
  <2>5. Fine(comp, now, m) /\ Keeps(m, h)
    BY <2>2 DEF Follows
  <2> QED BY <1>2, <1>3, <1>6, <2>3, <2>4, <2>5, TakesOne
<1>7. CASE Become(x, Again(me, me.long)) /\ UNCHANGED bal
  <2>1. UNCHANGED <<comp, now, bal, hold, ad, gone>>
    BY <1>2, <1>7
  <2> QED BY <1>3, <1>7, <2>1, Quiet
<1> QED BY <1>2, <1>6, <1>7

LEMMA AskTakesStep ==
  ASSUME CompositeInv, NEW x \in Callers, Ask(x)
  PROVE  Stepped(x)
<1> DEFINE me == cl[x]
           b == Left(me)
           a == [me EXCEPT !.bud = b]
           m == IF a.held = {} THEN Loop(a, "look", "none", All(a))
                ELSE IF a.due <= now /\ Rest(a) = <<>> THEN Grant(a, now)
                ELSE IF a.due <= now THEN Loop(a, "rest", "none", Rest(a))
                ELSE IF ~Within(a.due - now, a.bud) THEN Release(a, "end")
                ELSE Again(a, a.due - now)
<1>1. Ledger /\ Fine(comp, now, me) /\ now \in Nat
  BY LiveCaller, Shape
<1>2. a.pc = "ask" /\ a.until <= now /\ Become(x, m) /\ UNCHANGED <<comp, now, bal, hold, ad, gone>>
  BY DEF Ask
<1>3. me \in CallSet(comp) /\ me.dl \in Nat
  BY <1>1 DEF Fine, CallSet
<1>4. b \in Nat
  <2> HIDE DEF me
  <2> QED BY <1>1, <1>3, Constants DEF Left, MaxOf
<1>5. Budgeted(comp, a, me, b)
  <2> HIDE DEF me, b
  <2> QED BY <1>3, <1>4, BudgetFields
<1> HIDE DEF a
<1>6. me.pc = "ask" /\ me.until <= now
  BY <1>2, <1>5 DEF Budgeted
<1>7. /\ Keeps(a, me)
      /\ a.held = {} => Follows(comp, now, Loop(a, "look", "none", All(a)), a)
      /\ a.held # {} /\ a.due <= now /\ Rest(a) = <<>> => Follows(comp, now, Grant(a, now), a)
      /\ a.held # {} /\ a.due <= now /\ Rest(a) # <<>> =>
           Follows(comp, now, Loop(a, "rest", "none", Rest(a)), a)
      /\ Follows(comp, now, Release(a, "end"), a)
      /\ ~(a.due <= now) => Follows(comp, now, Again(a, a.due - now), a)
  <2> HIDE DEF me
  <2> QED BY <1>1, <1>5, <1>6, AskSteps
<1>8. Follows(comp, now, m, a)
  BY <1>7
<1>9. a.items = me.items /\ a.got = me.got
  BY <1>5 DEF Budgeted, SameCall
<1> HIDE DEF m
<1>10. Follows(comp, now, m, me)
  BY <1>8, <1>9 DEF Follows, Keeps
<1>11. Core(comp, me)
  BY <1>1, <1>6, FineParts
<1> QED BY <1>2, <1>10, <1>11, Quiet

LEMMA ReturnTakesStep ==
  ASSUME CompositeInv, NEW x \in Callers, Return(x)
  PROVE  Stepped(x)
<1> DEFINE me == cl[x]
           p == IF me.op = "wait" THEN Max({Paused(me.items[k].c) : k \in DOMAIN me.items}) ELSE 0
           m == IF p = 0 THEN [Clear(me) EXCEPT !.pc = "ok", !.until = 0, !.due = 0, !.sw = 0, !.dl = 0]
                ELSE IF ~Within(p, Left(me)) THEN Release(me, "end")
                ELSE [me EXCEPT !.until = now + p, !.naps = TRUE]
<1>1. Ledger /\ Fine(comp, now, me)
  BY LiveCaller
<1>2. me.pc = "grant" /\ me.until <= now /\ Become(x, m) /\ UNCHANGED <<comp, now, bal, hold, ad, gone>>
  BY DEF Return
<1>3. Core(comp, me)
  BY <1>1, <1>2, FineParts
<1>4. p \in Nat
  <2>1. Max({Paused(me.items[k].c) : k \in DOMAIN me.items}) \in Nat
    <3> HIDE DEF me
    <3> QED BY <1>1, <1>3, LongestPause
  <2> QED BY <2>1
<1> HIDE DEF p
<1>5. Follows(comp, now, m, me)
  <2>1. /\ Follows(comp, now, [Clear(me) EXCEPT !.pc = "ok", !.until = 0, !.due = 0, !.sw = 0, !.dl = 0], me)
        /\ Follows(comp, now, Release(me, "end"), me)
        /\ Follows(comp, now, [me EXCEPT !.until = now + p, !.naps = TRUE], me)
    <3> HIDE DEF me
    <3> QED BY <1>1, <1>2, <1>4, ReturnSteps
  <2> QED BY <2>1
<1> HIDE DEF m
<1> QED BY <1>2, <1>3, <1>5, Quiet

(* A caller that has no call going on has nothing. *)
LEMMA NoneWith ==
  ASSUME NEW me, me.items = <<>>, me.got = <<>>, NEW c
  PROVE  With(me, c) = 0
<1>1. Having(me, c) = {}
  BY DEF Having, Taken
<1>2. With(me, c) = Total(CostsOf(me), {})
  BY <1>1, SumIsTotal DEF With, Having
<1>3. \A g : Total(g, {}) = 0
  BY TotalZero
<1> QED BY <1>2, <1>3

LEMMA StartTakesStep ==
  ASSUME CompositeInv, NEW x \in Callers, NEW op \in comp.ops, NEW r \in comp.reqs,
         NEW d \in comp.timeouts, Start(x, op, r, d)
  PROVE  Stepped(x)
<1> DEFINE me == cl[x]
           a == NewCall(op, r, d)
           m == CASE op = "try"     -> Loop(a, "peek", "try", All(a))
                  [] op = "reserve" -> Loop(a, "fits", "reserve", All(a))
                  [] op = "wait"    -> StepAt(a, now, 0)
<1>1. Ledger /\ Fine(comp, now, me) /\ ad \in Seq(Work(comp))
  BY LiveCaller
<1>2. me.pc = "idle" /\ a.items # <<>> /\ Become(x, m) /\ UNCHANGED <<comp, now, bal, hold, ad, gone>>
  BY DEF Start
<1>3. a.items = Items(r)
  BY DEF NewCall, Idle
<1>4. op \in {"try", "wait", "reserve"}
  BY <1>1, Shape
<1>5. /\ Core(comp, a) /\ \A k \in DOMAIN a.items : a.got[k] = Nothing
      /\ Follows(comp, now, Loop(a, "peek", "try", All(a)), a)
      /\ Follows(comp, now, Loop(a, "fits", "reserve", All(a)), a)
      /\ Follows(comp, now, StepAt(a, now, 0), a)
  <2>1. Items(r) # <<>>
    BY <1>2, <1>3
  <2> QED BY <1>1, <2>1, StartSteps
<1> HIDE DEF a
<1>6. Follows(comp, now, m, a)
  BY <1>4, <1>5
<1> HIDE DEF m
<1>7. Fine(comp, now, m) /\ Keeps(m, a)
  BY <1>6 DEF Follows
<1>8. \A c : With(m, c) = 0
  <2>1. \A c : With(m, c) = With(a, c)
    BY <1>5, <1>7, KeepsWith
  <2>2. ASSUME NEW c PROVE With(a, c) = 0
    <3>1. Having(a, c) = {}
      BY <1>5, CoreParts DEF Having, Taken
    <3>2. With(a, c) = Total(CostsOf(a), {})
      BY <3>1, SumIsTotal DEF With, Having
    <3>3. \A g : Total(g, {}) = 0
      BY TotalZero
    <3> QED BY <3>2, <3>3
  <2> QED BY <2>1, <2>2
<1>9. \A c : With(me, c) = 0
  <2>1. me.items = <<>> /\ Len(me.got) = Len(me.items) /\ me.got \in Seq(Nat \cup {Nothing})
    BY <1>1, <1>2 DEF Fine, Place, CallSet
  <2> DEFINE s == me.got
  <2>2. Len(s) = 0 /\ s \in Seq(Nat \cup {Nothing})
    BY <2>1
  <2> HIDE DEF s
  <2>3. s = <<>>
    BY <2>2
  <2> QED BY <2>1, <2>3, NoneWith DEF s
<1>10. /\ comp' = comp /\ now' = now /\ hold' = hold /\ bal' = bal /\ gone' = gone /\ ad' = ad
       /\ cl' = [cl EXCEPT ![x] = m]
  BY <1>2 DEF Become
<1>11. Even(m, me)
  BY <1>8, <1>9, <1>10 DEF Even
<1>12. /\ bal \in [Constituents -> Int] /\ \A c \in Constituents : bal[c] <= comp.cap[c]
       /\ gone \in [Constituents -> Nat]
  BY <1>1 DEF Ledger
<1> QED BY <1>1, <1>7, <1>10, <1>11, <1>12 DEF Stepped

LEMMA StartsStep ==
  ASSUME CompositeInv, NEW x \in Callers, HybridStart(x) \/ MultiStart(x) \/ LayeredStart(x)
  PROVE  Stepped(x)
<1>1. PICK op \in comp.ops, r \in comp.reqs, d \in comp.timeouts : Start(x, op, r, d)
  BY DEF HybridStart, MultiStart, LayeredStart
<1> QED BY <1>1, StartTakesStep

(* What is used is gone. *)
LEMMA UseUpSteps ==
  ASSUME CompositeInv, NEW x \in Callers, UseUp(x)
  PROVE  Stepped(x)
<1> DEFINE me == cl[x]
           m == Done
<1>1. Ledger /\ Fine(comp, now, me) /\ ad \in Seq(Work(comp)) /\ now \in Nat
  BY LiveCaller, Shape
<1>2. /\ me.pc = "ok" /\ Become(x, m) /\ UNCHANGED <<comp, now, bal, hold, ad>>
      /\ gone' = [c \in Constituents |->
           gone[c] + SumOver(CostsOf(me), {k \in DOMAIN me.items : me.items[k].c = c})]
  BY DEF UseUp
<1>3. Core(comp, me) /\ Place(now, me)
  BY <1>1, <1>2, FineParts
<1>4. \A k \in DOMAIN me.items : me.got[k] # Nothing
  BY <1>2, <1>3 DEF Place
<1>5. \A c : With(me, c) = SumOver(CostsOf(me), {k \in DOMAIN me.items : me.items[k].c = c})
             /\ With(me, c) \in Nat
  <2> HIDE DEF me
  <2> QED BY <1>3, <1>4, WholeWith, WithIsNat
<1>6. \A c : With(m, c) = 0
  <2>1. m.items = <<>> /\ m.got = <<>>
    BY DEF Done, Idle
  <2> HIDE DEF m
  <2> QED BY <2>1, NoneWith
<1>7. Fine(comp, now, m)
  BY <1>1, Ended
<1> HIDE DEF m, me
<1>8. gone' = [c \in Constituents |-> gone[c] + With(me, c)]
  BY <1>2, <1>5
<1>9. \A c \in Constituents : gone[c] \in Nat /\ With(me, c) \in Nat
  BY <1>1, <1>5 DEF Ledger
<1>10. gone' \in [Constituents -> Nat] /\ \A c \in Constituents : gone'[c] = gone[c] + With(me, c)
  BY <1>8, <1>9
<1>11. /\ comp' = comp /\ now' = now /\ hold' = hold /\ bal' = bal /\ ad' = ad
       /\ cl' = [cl EXCEPT ![x] = m]
  BY <1>2 DEF Become
<1>12. Even(m, me)
  <2> SUFFICES ASSUME NEW c \in Constituents
               PROVE  bal'[c] + gone'[c] + Returning(ad', c) + With(m, c)
                        = bal[c] + gone[c] + Returning(ad, c) + With(me, c)
    BY DEF Even
  <2> DEFINE R == Returning(ad, c)
             W == With(me, c)
             V == With(m, c)
  <2>1. R \in Nat /\ bal[c] \in Int /\ gone[c] \in Nat
    BY <1>1, ReturningNat, Part
  <2>2. W \in Nat /\ V = 0 /\ gone'[c] = gone[c] + W
    BY <1>6, <1>9, <1>10
  <2> HIDE DEF R, W, V
  <2>3. bal[c] + gone'[c] + R + V = bal[c] + gone[c] + R + W
    BY <2>1, <2>2
  <2> QED BY <1>11, <2>3 DEF R, W, V
<1>13. /\ bal \in [Constituents -> Int] /\ \A c \in Constituents : bal[c] <= comp.cap[c]
  BY <1>1 DEF Ledger
<1> QED BY <1>1, <1>7, <1>10, <1>11, <1>12, <1>13 DEF Stepped, me

LEMMA UnusedSteps ==
  ASSUME CompositeInv, NEW x \in Callers, Unused(x) \/ Cancel(x)
  PROVE  Stepped(x)
<1> DEFINE me == cl[x]
           m == Release(me, "end")
<1>1. Ledger /\ Fine(comp, now, me) /\ now \in Nat
  BY LiveCaller, Shape
<1>2. me.pc \in {"ok", "ask", "grant"} /\ Become(x, m) /\ UNCHANGED <<comp, now, bal, hold, ad, gone>>
  BY DEF Unused, Cancel
<1>3. Core(comp, me) /\ Place(now, me) /\ Steady(comp, me)
  BY <1>1, <1>2, FineParts
<1>4. HasHeld(me)
  BY <1>2, <1>3 DEF Place, HasHeld
<1>5. Follows(comp, now, m, me)
  <2> HIDE DEF me
  <2> QED BY <1>1, <1>3, <1>4, ReleaseFine
<1> HIDE DEF m
<1> QED BY <1>2, <1>3, <1>5, Quiet

-----------------------------------------------------------------------------
(* What is about to be refunded. *)

Owes(e, c) == IF e.op = "refund" /\ e.c = c THEN e.n ELSE 0
Owed(s, c) == [k \in 1..Len(s) |-> Owes(s[k], c)]

LEMMA OwesNat ==
  ASSUME NEW f, NEW e \in Work(f), NEW c
  PROVE  Owes(e, c) \in Nat
<1>1. e.n \in Nat
  BY DEF Work, Jobs
<1> QED BY <1>1 DEF Owes

LEMMA ReturningAll ==
  ASSUME NEW f, NEW s \in Seq(Work(f)), NEW c
  PROVE  /\ Returning(s, c) = Total(Owed(s, c), 1..Len(s))
         /\ Len(s) \in Nat /\ IsFiniteSet(1..Len(s)) /\ DOMAIN s = 1..Len(s)
         /\ \A k \in 1..Len(s) : /\ Owed(s, c)[k] = Owes(s[k], c) /\ Owed(s, c)[k] \in Nat
                                 /\ s[k] \in Work(f)
<1> DEFINE g == [k \in DOMAIN s |-> s[k].n]
           D == 1..Len(s)
           S == {k \in D : s[k].op = "refund" /\ s[k].c = c}
           h == [k \in D |-> IF k \in S THEN g[k] ELSE 0]
<1>1. Len(s) \in Nat /\ DOMAIN s = 1..Len(s) /\ \A k \in 1..Len(s) : s[k] \in Work(f)
  OBVIOUS
<1>2. IsFiniteSet(1..Len(s))
  BY <1>1, FS_Interval
<1>3. \A k \in 1..Len(s) : Owed(s, c)[k] = Owes(s[k], c)
  BY DEF Owed
<1>4. \A k \in 1..Len(s) : Owes(s[k], c) \in Nat
  BY <1>1, OwesNat
<1>5. Returning(s, c) = Total(g, S)
  BY <1>1, SumIsTotal DEF Returning
<1>6. Total(g, S) = Total(h, D)
  <2>1. S \subseteq D
    OBVIOUS
  <2> HIDE DEF g, S, D
  <2> QED BY <2>1, TotalPart
<1>7. \A k \in D : h[k] = Owed(s, c)[k]
  BY <1>1, <1>3 DEF Owes
<1>8. Total(h, D) = Total(Owed(s, c), D)
  <2> HIDE DEF h, D
  <2> QED BY <1>7, TotalSame
<1> QED BY <1>1, <1>2, <1>3, <1>4, <1>5, <1>6, <1>8

LEMMA ReturningNone ==
  ASSUME NEW f, NEW s \in Seq(Work(f)), NEW c, \A k \in 1..Len(s) : Owes(s[k], c) = 0
  PROVE  Returning(s, c) = 0
<1>1. \A k \in 1..Len(s) : Owed(s, c)[k] = 0
  BY ReturningAll
<1>2. Total(Owed(s, c), 1..Len(s)) = 0
  BY <1>1, TotalZero
<1> QED BY <1>2, ReturningAll

LEMMA ReturningEmpty ==
  ASSUME NEW c
  PROVE  Returning(<<>>, c) = 0
<1> DEFINE s == <<>>
<1>1. s \in Seq(Work(comp)) /\ \A k \in 1..Len(s) : Owes(s[k], c) = 0
  OBVIOUS
<1> HIDE DEF s
<1>2. Returning(s, c) = 0
  BY <1>1, ReturningNone
<1> QED BY <1>2 DEF s

LEMMA ReturningAppend ==
  ASSUME NEW f, NEW s \in Seq(Work(f)), NEW e \in Work(f), NEW c
  PROVE  Returning(Append(s, e), c) = Returning(s, c) + Owes(e, c)
<1> DEFINE a == Append(s, e)
           n == Len(s)
           w == Owed(a, c)
           v == Owed(s, c)
<1>1. a \in Seq(Work(f)) /\ Len(a) = n + 1 /\ a[n + 1] = e /\ \A k \in 1..n : a[k] = s[k]
  OBVIOUS
<1>2. /\ Returning(s, c) = Total(v, 1..n) /\ n \in Nat /\ IsFiniteSet(1..n)
      /\ \A k \in 1..n : v[k] = Owes(s[k], c)
  BY ReturningAll
<1>3. /\ Returning(a, c) = Total(w, 1..Len(a))
      /\ \A k \in 1..Len(a) : w[k] = Owes(a[k], c) /\ w[k] \in Nat
  <2> HIDE DEF a
  <2> QED BY <1>1, ReturningAll
<1> HIDE DEF a, n, w, v
<1>4. 1..Len(a) = (1..n) \cup {n + 1} /\ (1..n) \cap {n + 1} = {} /\ n + 1 \in 1..Len(a)
  BY <1>1, <1>2
<1>5. Total(w, (1..n) \cup {n + 1}) = Total(w, 1..n) + Total(w, {n + 1})
  <2>1. IsFiniteSet({n + 1})
    BY FS_Singleton
  <2>2. \A k \in (1..n) \cup {n + 1} : w[k] \in Nat
    BY <1>3, <1>4
  <2> QED BY <1>2, <1>4, <2>1, <2>2, TotalUnion
<1>6. Total(w, {n + 1}) = Owes(e, c)
  <2>1. w[n + 1] = Owes(e, c) /\ w[n + 1] \in Nat
    BY <1>1, <1>3, <1>4
  <2> QED BY <2>1, TotalOne
<1>7. Total(w, 1..n) = Total(v, 1..n)
  <2>1. \A k \in 1..n : w[k] = v[k]
    <3>1. \A k \in 1..n : k \in 1..Len(a)
      BY <1>4
    <3> QED BY <1>1, <1>2, <1>3, <3>1
  <2> QED BY <2>1, TotalSame
<1> QED BY <1>2, <1>3, <1>4, <1>5, <1>6, <1>7 DEF a

LEMMA HeadTail ==
  ASSUME NEW f, NEW s \in Seq(Work(f)), s # <<>>, NEW c
  PROVE  /\ Head(s) \in Work(f) /\ Tail(s) \in Seq(Work(f))
         /\ Returning(s, c) = Owes(Head(s), c) + Returning(Tail(s), c)
<1> DEFINE e == Head(s)
           t == Tail(s)
           n == Len(t)
           w == Owed(s, c)
           v == Owed(t, c)
<1>1. /\ e \in Work(f) /\ t \in Seq(Work(f)) /\ Len(s) = n + 1 /\ n \in Nat
      /\ e = s[1] /\ \A k \in 1..n : t[k] = s[k + 1]
  OBVIOUS
<1>2. /\ Returning(t, c) = Total(v, 1..n) /\ IsFiniteSet(1..n)
      /\ \A k \in 1..n : v[k] = Owes(t[k], c) /\ v[k] \in Nat
  <2> HIDE DEF t
  <2> QED BY <1>1, ReturningAll
<1>3. /\ Returning(s, c) = Total(w, 1..Len(s))
      /\ \A k \in 1..Len(s) : w[k] = Owes(s[k], c) /\ w[k] \in Nat
  BY ReturningAll
<1> HIDE DEF e, t, n, w, v
<1>4. Shift(1..n, 1) = 2..Len(s) /\ 1..Len(s) = {1} \cup (2..Len(s)) /\ 1 \in 1..Len(s)
  <2>1. ASSUME NEW k \in 2..Len(s) PROVE k \in Shift(1..n, 1)
    <3>1. k - 1 \in 1..n /\ k = (k - 1) + 1
      BY <1>1
    <3> QED BY <3>1 DEF Shift
  <2>2. ASSUME NEW k \in Shift(1..n, 1) PROVE k \in 2..Len(s)
    BY <1>1 DEF Shift
  <2>3. 1..Len(s) = {1} \cup (2..Len(s)) /\ 1 \in 1..Len(s)
    BY <1>1
  <2> QED BY <2>1, <2>2, <2>3
<1>5. IsFiniteSet(2..Len(s)) /\ IsFiniteSet({1}) /\ {1} \cap (2..Len(s)) = {}
  <2>1. IsFiniteSet(2..Len(s))
    BY <1>1, FS_Interval
  <2>2. IsFiniteSet({1})
    BY FS_Singleton
  <2>3. {1} \cap (2..Len(s)) = {}
    BY <1>1
  <2> QED BY <2>1, <2>2, <2>3
<1>6. Total(w, {1} \cup (2..Len(s))) = Total(w, {1}) + Total(w, 2..Len(s))
  <2>1. \A k \in {1} \cup (2..Len(s)) : w[k] \in Nat
    BY <1>3, <1>4
  <2> QED BY <1>5, <2>1, TotalUnion
<1>7. Total(w, {1}) = Owes(e, c)
  <2>1. w[1] = Owes(e, c) /\ w[1] \in Nat
    BY <1>1, <1>3, <1>4
  <2> QED BY <2>1, TotalOne
<1>8. Total(v, 1..n) = Total(w, Shift(1..n, 1))
  <2>1. ASSUME NEW k \in 1..n PROVE v[k] \in Nat /\ w[k + 1] = v[k]
    <3>1. k + 1 \in 1..Len(s)
      BY <1>1
    <3> QED BY <1>1, <1>2, <1>3, <3>1
  <2> DEFINE D == 1..n
             one == 1
  <2>2. D \subseteq Nat /\ one \in Nat /\ IsFiniteSet(D)
    BY <1>1, <1>2
  <2>3. \A k \in D : v[k] \in Nat /\ w[k + one] = v[k]
    BY <2>1
  <2> HIDE DEF D, one
  <2>4. Total(v, D) = Total(w, Shift(D, one))
    BY <2>2, <2>3, TotalShift
  <2> QED BY <2>4 DEF D, one
<1> QED BY <1>1, <1>2, <1>3, <1>4, <1>6, <1>7, <1>8 DEF e, t

LEMMA Prefixed ==
  ASSUME NEW f, NEW e \in Work(f), NEW s \in Seq(Work(f)), NEW c
  PROVE  /\ <<e>> \o s \in Seq(Work(f))
         /\ Returning(<<e>> \o s, c) = Owes(e, c) + Returning(s, c)
<1> DEFINE a == <<e>> \o s
<1>1. a \in Seq(Work(f)) /\ a # <<>> /\ Head(a) = e
  OBVIOUS
<1>2. Tail(a) = s
  OBVIOUS
<1> HIDE DEF a
<1>3. Returning(a, c) = Owes(Head(a), c) + Returning(Tail(a), c)
  BY <1>1, HeadTail
<1> QED BY <1>1, <1>2, <1>3 DEF a

(* Dropping what owes nothing owes as much. *)
LEMMA ReturningKeep ==
  ASSUME NEW f, NEW s \in Seq(Work(f)), NEW S, NEW c,
         \A k \in 1..Len(s) : s[k] \notin S => Owes(s[k], c) = 0
  PROVE  Keep(s, S) \in Seq(Work(f)) /\ Returning(Keep(s, S), c) = Returning(s, c)
<1> DEFINE g == Filtered(s, S)
           w == Owed(s, c)
           L == Len(s)
           Right(n) == g[n] \in Seq(Work(f)) /\ Returning(g[n], c) = Total(w, 1..n)
           bad == {n \in 0..L : ~Right(n)}
<1>1. /\ L \in Nat /\ Returning(s, c) = Total(w, 1..L)
      /\ \A k \in 1..L : w[k] = Owes(s[k], c) /\ w[k] \in Nat /\ s[k] \in Work(f)
  BY ReturningAll
<1>2. /\ g[0] = <<>> /\ \A i \in 1..L : g[i] = IF s[i] \in S THEN Append(g[i - 1], s[i]) ELSE g[i - 1]
  BY FilteredKeeps DEF Filters
<1> HIDE DEF g, w
<1>3. bad = {}
  <2> SUFFICES ASSUME bad # {} PROVE FALSE
    OBVIOUS
  <2>1. bad \subseteq Nat
    BY <1>1
  <2>2. PICK m \in bad : \A i \in bad : m <= i
    <3> HIDE DEF bad
    <3> QED BY <2>1, LeastNumber
  <2>3. m \in 0..L /\ ~Right(m)
    OBVIOUS
  <2>4. m # 0
    <3>1. Total(w, 1..0) = 0
      BY TotalZero
    <3>2. g[0] \in Seq(Work(f)) /\ Returning(g[0], c) = 0
      BY <1>2, ReturningEmpty
    <3> QED BY <2>3, <3>1, <3>2
  <2>5. m - 1 \in 0..L /\ m \in 1..L /\ m \in Nat /\ m - 1 < m /\ m - 1 \in Nat
    BY <1>1, <2>3, <2>4
  <2>6. Right(m - 1)
    <3>1. m - 1 \notin bad
      <4> HIDE DEF bad
      <4> QED BY <2>2, <2>5
    <3> QED BY <2>5, <3>1
  <2>7. Total(w, 1..m) = Total(w, 1..(m - 1)) + Owes(s[m], c)
    <3>1. 1..m = (1..(m - 1)) \cup {m} /\ (1..(m - 1)) \cap {m} = {}
      BY <2>5
    <3>2. IsFiniteSet(1..(m - 1)) /\ IsFiniteSet({m})
      <4>1. IsFiniteSet(1..(m - 1))
        BY <2>5, FS_Interval
      <4>2. IsFiniteSet({m})
        BY FS_Singleton
      <4> QED BY <4>1, <4>2
    <3>3. \A k \in (1..(m - 1)) \cup {m} : w[k] \in Nat
      BY <1>1, <2>5
    <3>4. Total(w, (1..(m - 1)) \cup {m}) = Total(w, 1..(m - 1)) + Total(w, {m})
      BY <3>1, <3>2, <3>3, TotalUnion
    <3>5. Total(w, {m}) = Owes(s[m], c)
      <4>1. w[m] \in Nat /\ w[m] = Owes(s[m], c)
        BY <1>1, <2>5
      <4> QED BY <4>1, TotalOne
    <3> QED BY <3>1, <3>4, <3>5
  <2> DEFINE p == g[m - 1]
             e == s[m]
             T == Total(w, 1..(m - 1))
  <2>8. p \in Seq(Work(f)) /\ e \in Work(f) /\ Returning(p, c) = T /\ Owes(e, c) \in Nat
    BY <1>1, <2>5, <2>6
  <2>9. g[m] = IF e \in S THEN Append(p, e) ELSE p
    BY <1>2, <2>5
  <2>10. Total(w, 1..m) = T + Owes(e, c) /\ (e \notin S => Owes(e, c) = 0)
    BY <2>5, <2>7
  <2>11. T \in Nat
    <3>1. Returning(p, c) \in Nat
      <4> HIDE DEF p
      <4> QED BY <2>8, ReturningNat
    <3> QED BY <2>8, <3>1
  <2> HIDE DEF p, e, T
  <2>12. CASE e \in S
    <3>1. Append(p, e) \in Seq(Work(f)) /\ Returning(Append(p, e), c) = T + Owes(e, c)
      BY <2>8, ReturningAppend, Appended
    <3> QED BY <2>3, <2>9, <2>10, <2>12, <3>1
  <2>13. CASE e \notin S
    BY <2>3, <2>8, <2>9, <2>10, <2>11, <2>13
  <2> QED BY <2>12, <2>13
<1>4. Right(L)
  BY <1>1, <1>3
<1> QED BY <1>1, <1>4 DEF Keep, g

LEMMA PrefixTotal ==
  ASSUME NEW n \in Nat \ {0}, NEW w, \A k \in 1..n : w[k] \in Nat
  PROVE  /\ Total(w, 1..n) = Total(w, 1..(n - 1)) + w[n]
         /\ Total(w, 1..n) \in Nat /\ Total(w, 1..(n - 1)) \in Nat
<1>1. 1..n = (1..(n - 1)) \cup {n} /\ (1..(n - 1)) \cap {n} = {}
  OBVIOUS
<1>2. IsFiniteSet(1..(n - 1))
  BY FS_Interval
<1>3. IsFiniteSet({n})
  BY FS_Singleton
<1>4. \A k \in (1..(n - 1)) \cup {n} : w[k] \in Nat
  BY <1>1
<1>5. /\ Total(w, (1..(n - 1)) \cup {n}) = Total(w, 1..(n - 1)) + Total(w, {n})
      /\ Total(w, 1..(n - 1)) \in Nat /\ Total(w, (1..(n - 1)) \cup {n}) \in Nat
  BY <1>1, <1>2, <1>3, <1>4, TotalUnion
<1>6. Total(w, {n}) = w[n]
  <2>1. w[n] \in Nat
    OBVIOUS
  <2> QED BY <2>1, TotalOne
<1> QED BY <1>1, <1>5, <1>6

(* The total of sums is the sum of the totals. *)
Adding(L, w, u, v) == \A k \in 1..L : u[k] \in Nat /\ v[k] \in Nat /\ w[k] = u[k] + v[k]

LEMMA TotalAdd ==
  ASSUME NEW L \in Nat, NEW w, NEW u, NEW v, Adding(L, w, u, v)
  PROVE  Total(w, 1..L) = Total(u, 1..L) + Total(v, 1..L)
<1> DEFINE Sums(n) == Total(w, 1..n) = Total(u, 1..n) + Total(v, 1..n)
           bad == {n \in 0..L : ~Sums(n)}
<1>1. bad = {}
  <2> SUFFICES ASSUME bad # {} PROVE FALSE
    OBVIOUS
  <2>1. bad \subseteq Nat
    OBVIOUS
  <2>2. PICK m \in bad : \A i \in bad : m <= i
    <3> HIDE DEF bad
    <3> QED BY <2>1, LeastNumber
  <2>3. m \in 0..L /\ ~Sums(m)
    OBVIOUS
  <2>4. m # 0
    <3>1. Total(w, 1..0) = 0 /\ Total(u, 1..0) = 0 /\ Total(v, 1..0) = 0
      BY TotalZero
    <3> QED BY <2>3, <3>1
  <2>5. m - 1 \in 0..L /\ m \in 1..L /\ m \in Nat \ {0} /\ m - 1 < m /\ m - 1 \in Nat
    BY <2>3, <2>4
  <2>6. Sums(m - 1)
    <3>1. m - 1 \notin bad
      <4> HIDE DEF bad
      <4> QED BY <2>2, <2>5
    <3> QED BY <2>5, <3>1
  <2>7. \A k \in 1..m : u[k] \in Nat /\ v[k] \in Nat /\ w[k] \in Nat /\ w[k] = u[k] + v[k]
    BY <2>5 DEF Adding
  <2>8. /\ Total(w, 1..m) = Total(w, 1..(m - 1)) + w[m]
        /\ Total(u, 1..m) = Total(u, 1..(m - 1)) + u[m] /\ Total(u, 1..(m - 1)) \in Nat
        /\ Total(v, 1..m) = Total(v, 1..(m - 1)) + v[m] /\ Total(v, 1..(m - 1)) \in Nat
    BY <2>5, <2>7, PrefixTotal
  <2>9. m \in 1..m
    BY <2>5
  <2> QED BY <2>3, <2>6, <2>7, <2>8, <2>9
<1> QED BY <1>1

Does(f, e, op, c, n) == e \in Work(f) /\ e.op = op /\ e.c = c /\ e.n = n

LEMMA DoIsWork ==
  ASSUME NEW f, NEW op \in AdOps, NEW c \in DOMAIN f.cap, NEW n \in Nat,
         op # "excess", Calm(f) => op # "pause"
  PROVE  Does(f, Do(op, c, n), op, c, n)
<1> DEFINE e == Do(op, c, n)
<1>1. e.op = op /\ e.c = c /\ e.n = n
  BY DEF Do
<1>2. e \in Jobs(f)
  BY Constants DEF Do, Jobs
<1> HIDE DEF e
<1>3. e \in Work(f)
  BY <1>1, <1>2 DEF Work
<1> QED BY <1>1, <1>3 DEF e, Does

(* A settlement gives back and uses up what the caller has, to the unit. *)
LEMMA SettleSteps ==
  ASSUME CompositeInv, NEW x \in Callers, NEW actual \in comp.actuals, Settle(x, actual)
  PROVE  Stepped(x)
<1> DEFINE me == cl[x]
           m == Done
           used == [k \in DOMAIN me.items |-> CostFor(comp.table, comp.table.dims[k].name, actual)]
           todo == [k \in DOMAIN me.items |->
                 IF used[k] < me.items[k].n THEN Do("refund", me.items[k].c, me.items[k].n - used[k])
                                            ELSE Do("charge", me.items[k].c, used[k] - me.items[k].n)]
           paid == [k \in DOMAIN me.items |-> MinOf(used[k], me.items[k].n)]
           some == {e \in ToSet(todo) : e.n > 0}
           L == Len(me.items)
           costs == CostsOf(me)
           H(c) == {k \in DOMAIN me.items : me.items[k].c = c}
<1>1. Ledger /\ Fine(comp, now, me) /\ ad \in Seq(Work(comp)) /\ now \in Nat
  BY LiveCaller, Shape
<1>2. /\ me.pc = "ok" /\ ad = <<>> /\ comp.kind = "multi"
      /\ ad' = Keep(todo, some)
      /\ gone' = [c \in Constituents |-> gone[c] + SumOver(paid, H(c))]
      /\ Become(x, m) /\ UNCHANGED <<comp, now, bal, hold>>
  BY DEF Settle
<1>3. Core(comp, me) /\ Place(now, me)
  BY <1>1, <1>2, FineParts
<1>4. \A k \in DOMAIN me.items : me.got[k] # Nothing
  BY <1>2, <1>3 DEF Place
<1>5. \A c : With(me, c) = SumOver(costs, H(c)) /\ With(me, c) \in Nat
  <2>1. \A c : With(me, c) = SumOver(CostsOf(me), {k \in DOMAIN me.items : me.items[k].c = c})
               /\ With(me, c) \in Nat
    <3> HIDE DEF me
    <3> QED BY <1>3, <1>4, WholeWith, WithIsNat
  <2> QED BY <2>1
<1>6. \A c : With(m, c) = 0
  <2>1. m.items = <<>> /\ m.got = <<>>
    BY DEF Done, Idle
  <2> HIDE DEF m
  <2> QED BY <2>1, NoneWith
<1>7. Fine(comp, now, m)
  BY <1>1, Ended
<1> HIDE DEF m
<1>8. actual \in Seq(Costings)
  <2>1. ValidParts(comp)
    BY <1>1, Shape DEF Valid
  <2> QED BY <1>2, <2>1 DEF ValidParts
<1>9. L \in Nat /\ DOMAIN me.items = 1..L
  BY <1>3, CoreParts
<1>10. ASSUME NEW k \in 1..L
       PROVE  /\ me.items[k].c \in Constituents /\ me.items[k].n \in Nat /\ used[k] \in Nat
              /\ costs[k] = me.items[k].n /\ paid[k] = MinOf(used[k], me.items[k].n)
              /\ todo[k] = IF used[k] < me.items[k].n
                             THEN Do("refund", me.items[k].c, me.items[k].n - used[k])
                             ELSE Do("charge", me.items[k].c, used[k] - me.items[k].n)
  <2>1. me.items[k] \in Entries(comp)
    BY <1>3, <1>9, <1>10, CoreParts
  <2>2. me.items[k].c \in Constituents /\ me.items[k].n \in Nat
    BY <2>1 DEF Entries, Constituents
  <2>3. used[k] \in Nat
    <3>1. used[k] = CostFor(comp.table, comp.table.dims[k].name, actual)
      BY <1>9, <1>10
    <3> QED BY <1>8, <3>1, CostIsNat
  <2>4. costs[k] = me.items[k].n
    BY <1>9, <1>10 DEF CostsOf
  <2>5. paid[k] = MinOf(used[k], me.items[k].n)
    BY <1>9, <1>10
  <2> HIDE DEF used
  <2>6. todo[k] = IF used[k] < me.items[k].n
                    THEN Do("refund", me.items[k].c, me.items[k].n - used[k])
                    ELSE Do("charge", me.items[k].c, used[k] - me.items[k].n)
    BY <1>9, <1>10
  <2> QED BY <2>2, <2>3, <2>4, <2>5, <2>6
<1>11. todo = [k \in 1..L |-> todo[k]] /\ DOMAIN todo = 1..L
  BY <1>9
<1> HIDE DEF me, used, todo, paid, some, costs, L
<1>12. ASSUME NEW k \in 1..L
       PROVE  /\ todo[k] \in Work(comp)
              /\ paid[k] \in Nat /\ todo[k].n \in Nat
              /\ \A c : /\ Owes(todo[k], c) \in Nat
                        /\ costs[k] = paid[k] + (IF todo[k].op = "refund" THEN todo[k].n ELSE 0)
                        /\ todo[k].c = me.items[k].c
  <2> DEFINE q == me.items[k].c
             n == me.items[k].n
             u == used[k]
  <2>1. /\ q \in Constituents /\ n \in Nat /\ u \in Nat /\ costs[k] = n /\ paid[k] = MinOf(u, n)
        /\ todo[k] = IF u < n THEN Do("refund", q, n - u) ELSE Do("charge", q, u - n)
    BY <1>10
  <2>2. me.items[k].c = q
    OBVIOUS
  <2>3. q \in DOMAIN comp.cap /\ "refund" \in AdOps /\ "charge" \in AdOps
    BY <2>1 DEF Constituents, AdOps
  <2> HIDE DEF q, n, u
  <2>4. CASE u < n
    <3> DEFINE d == n - u
    <3>1. d \in Nat /\ n = u + d /\ paid[k] = u
      BY <2>1, <2>4 DEF MinOf
    <3>2. todo[k] = Do("refund", q, d)
      BY <2>1, <2>4
    <3> HIDE DEF d
    <3>3. todo[k] \in Work(comp) /\ todo[k].op = "refund" /\ todo[k].c = q /\ todo[k].n = d
      <4> DEFINE op == "refund"
      <4>1. op \in AdOps /\ op # "excess" /\ op # "pause" /\ todo[k] = Do(op, q, d)
        BY <2>3, <3>2
      <4> HIDE DEF op
      <4>2. Does(comp, Do(op, q, d), op, q, d)
        BY <2>3, <3>1, <4>1, DoIsWork
      <4> QED BY <4>1, <4>2 DEF op, Does
    <3>4. \A c : Owes(todo[k], c) \in Nat
      BY <3>3, OwesNat
    <3> QED BY <2>1, <2>2, <3>1, <3>3, <3>4
  <2>5. CASE ~(u < n)
    <3> DEFINE d == u - n
    <3>1. d \in Nat /\ paid[k] = n /\ n = n + 0
      BY <2>1, <2>5 DEF MinOf
    <3>2. todo[k] = Do("charge", q, d)
      BY <2>1, <2>5
    <3> HIDE DEF d
    <3>3. todo[k] \in Work(comp) /\ todo[k].op = "charge" /\ todo[k].c = q /\ todo[k].n = d
      <4> DEFINE op == "charge"
      <4>1. op \in AdOps /\ op # "excess" /\ op # "pause" /\ todo[k] = Do(op, q, d)
        BY <2>3, <3>2
      <4> HIDE DEF op
      <4>2. Does(comp, Do(op, q, d), op, q, d)
        BY <2>3, <3>1, <4>1, DoIsWork
      <4> QED BY <4>1, <4>2 DEF op, Does
    <3>4. \A c : Owes(todo[k], c) \in Nat
      BY <3>3, OwesNat
    <3> QED BY <2>1, <2>2, <3>1, <3>3, <3>4
  <2> QED BY <2>4, <2>5
<1>13. todo \in Seq(Work(comp)) /\ Len(todo) = L
  <2>1. todo \in [1..L -> Work(comp)]
    BY <1>11, <1>12
  <2> QED BY <1>9, <2>1
<1>14. ASSUME NEW c
       PROVE  ad' \in Seq(Work(comp)) /\ Returning(ad', c) = Returning(todo, c)
  <2>1. ASSUME NEW k \in 1..L, todo[k] \notin some
        PROVE  Owes(todo[k], c) = 0
    <3>1. todo[k] \in ToSet(todo)
      BY <1>11 DEF ToSet
    <3>2. ~(todo[k].n > 0) /\ todo[k].n \in Nat
      BY <1>12, <2>1, <3>1 DEF some
    <3>3. todo[k].n = 0
      BY <3>2
    <3> QED BY <3>3 DEF Owes
  <2> QED BY <1>2, <1>13, <2>1, ReturningKeep
<1>15. ASSUME NEW c
       PROVE  /\ With(me, c) = SumOver(paid, H(c)) + Returning(todo, c)
              /\ SumOver(paid, H(c)) \in Nat /\ Returning(todo, c) \in Nat
  <2> DEFINE D == 1..L
             F == [k \in D |-> IF k \in H(c) THEN costs[k] ELSE 0]
             P == [k \in D |-> IF k \in H(c) THEN paid[k] ELSE 0]
             O == Owed(todo, c)
  <2>1. H(c) \subseteq D
    BY <1>9
  <2>2. Returning(todo, c) = Total(O, D) /\ \A k \in D : O[k] = Owes(todo[k], c)
    BY <1>13, ReturningAll
  <2>3. ASSUME NEW k \in D
        PROVE  P[k] \in Nat /\ O[k] \in Nat /\ F[k] = P[k] + O[k]
    <3>1. /\ todo[k].c = me.items[k].c /\ paid[k] \in Nat /\ O[k] = Owes(todo[k], c)
          /\ O[k] \in Nat
          /\ costs[k] = paid[k] + (IF todo[k].op = "refund" THEN todo[k].n ELSE 0)
      BY <1>12, <2>2
    <3>2. k \in H(c) <=> me.items[k].c = c
      BY <1>9
    <3>3. CASE me.items[k].c = c
      <4>1. F[k] = costs[k] /\ P[k] = paid[k]
        BY <3>2, <3>3
      <4>2. O[k] = IF todo[k].op = "refund" THEN todo[k].n ELSE 0
        BY <3>1, <3>3 DEF Owes
      <4> QED BY <3>1, <4>1, <4>2
    <3>4. CASE me.items[k].c # c
      <4>1. F[k] = 0 /\ P[k] = 0
        BY <3>2, <3>4
      <4>2. O[k] = 0
        BY <3>1, <3>4 DEF Owes
      <4> QED BY <4>1, <4>2
    <3> QED BY <3>3, <3>4
  <2>4. Total(costs, H(c)) = Total(F, D) /\ Total(paid, H(c)) = Total(P, D)
    <3> HIDE DEF H, D
    <3> QED BY <2>1, TotalPart
  <2> HIDE DEF F, P, O
  <2>5. Total(F, D) = Total(P, D) + Total(O, D)
    <3>1. Adding(L, F, P, O)
      BY <2>3 DEF Adding
    <3>2. Total(F, 1..L) = Total(P, 1..L) + Total(O, 1..L)
      <4> HIDE DEF D
      <4> QED BY <1>9, <3>1, TotalAdd
    <3> QED BY <3>2
  <2>6. Total(P, D) \in Nat /\ Total(O, D) \in Nat
    <3>1. IsFiniteSet(D)
      BY <1>9, FS_Interval
    <3>2. \A k \in D : P[k] \in Nat /\ O[k] \in Nat /\ P[k] <= P[k] /\ O[k] <= O[k]
      BY <2>3
    <3> HIDE DEF D
    <3> QED BY <3>1, <3>2, TotalMono
  <2>7. SumOver(costs, H(c)) = Total(costs, H(c)) /\ SumOver(paid, H(c)) = Total(paid, H(c))
    BY SumIsTotal
  <2> HIDE DEF H
  <2> QED BY <1>5, <2>2, <2>4, <2>5, <2>6, <2>7
<1>16. gone' \in [Constituents -> Nat] /\ \A c \in Constituents : gone'[c] = gone[c] + SumOver(paid, H(c))
  <2>1. \A c \in Constituents : gone[c] \in Nat /\ SumOver(paid, H(c)) \in Nat
    BY <1>1, <1>15 DEF Ledger
  <2> HIDE DEF H
  <2> QED BY <1>2, <2>1
<1>17. /\ comp' = comp /\ now' = now /\ hold' = hold /\ bal' = bal
       /\ cl' = [cl EXCEPT ![x] = m]
  BY <1>2 DEF Become
<1>18. Even(m, me)
  <2> SUFFICES ASSUME NEW c \in Constituents
               PROVE  bal'[c] + gone'[c] + Returning(ad', c) + With(m, c)
                        = bal[c] + gone[c] + Returning(ad, c) + With(me, c)
    BY DEF Even
  <2> DEFINE R == Returning(ad, c)
             Q == Returning(ad', c)
             W == With(me, c)
             V == With(m, c)
             G == SumOver(paid, H(c))
  <2>1. R = 0 /\ bal[c] \in Int /\ gone[c] \in Nat
    BY <1>1, <1>2, ReturningEmpty, Part
  <2>2. V = 0 /\ gone'[c] = gone[c] + G
    BY <1>6, <1>16
  <2>3. W = G + Q /\ G \in Nat /\ Q \in Nat
    BY <1>14, <1>15
  <2> HIDE DEF R, W, V, G, Q
  <2>4. bal[c] + gone'[c] + Q + V = bal[c] + gone[c] + R + W
    BY <2>1, <2>2, <2>3
  <2> QED BY <1>17, <2>4 DEF R, W, V, Q
<1>19. /\ bal \in [Constituents -> Int] /\ \A c \in Constituents : bal[c] <= comp.cap[c]
  BY <1>1 DEF Ledger
<1> QED BY <1>7, <1>14, <1>16, <1>17, <1>18, <1>19 DEF Stepped, me

-----------------------------------------------------------------------------
(* The administrative calls. *)

Plain(f) == {e \in Work(f) : e.op # "refund"}

LEMMA PlainOwes ==
  ASSUME NEW f, NEW s \in Seq(Plain(f))
  PROVE  s \in Seq(Work(f)) /\ \A c : Returning(s, c) = 0
<1>1. Len(s) \in Nat /\ \A k \in 1..Len(s) : s[k] \in Plain(f)
  OBVIOUS
<1>2. \A k \in 1..Len(s) : s[k] \in Work(f) /\ s[k].op # "refund"
  BY <1>1 DEF Plain
<1>3. s \in Seq(Work(f))
  <2>1. s \in [1..Len(s) -> Work(f)]
    BY <1>2
  <2> QED BY <1>1, <2>1
<1>4. \A c : \A k \in 1..Len(s) : Owes(s[k], c) = 0
  BY <1>2 DEF Owes
<1> QED BY <1>3, <1>4, ReturningNone

LEMMA DoIsPlain ==
  ASSUME NEW f, NEW op \in {"pause", "resume", "drain"}, NEW c \in DOMAIN f.cap, NEW n \in Nat,
         Calm(f) => op = "resume"
  PROVE  Do(op, c, n) \in Plain(f) /\ <<Do(op, c, n)>> \in Seq(Plain(f))
<1>1. op \in AdOps /\ op # "excess" /\ op # "refund" /\ (Calm(f) => op # "pause")
  BY DEF AdOps
<1> DEFINE e == Do(op, c, n)
<1>2. Does(f, e, op, c, n)
  BY <1>1, DoIsWork
<1> HIDE DEF e
<1>3. e \in Plain(f)
  BY <1>1, <1>2 DEF Does, Plain
<1> QED BY <1>3 DEF e

LEMMA ReachedType ==
  ASSUME Ledger
  PROVE  Reached \in Seq(Constituents)
<1>1. ValidParts(comp) /\ comp.kind \in {"hybrid", "multi", "layered"}
  BY Shape DEF Valid
<1>2. CASE comp.kind = "hybrid"
  BY <1>1, <1>2 DEF Reached, HybridReached, ValidParts, Constituents
<1>3. CASE comp.kind = "multi"
  <2> DEFINE E == [name : STRING, limiter : Constituents]
             s == comp.table.dims
             g == MultiReached
  <2>1. s \in Seq(E)
    BY <1>1, <1>3 DEF ValidParts, Constituents
  <2>2. g = [k \in DOMAIN s |-> s[k].limiter]
    BY DEF MultiReached
  <2>3. \A e \in E : e.limiter \in Constituents
    OBVIOUS
  <2> HIDE DEF E, s, g
  <2>4. \A k \in DOMAIN s : s[k] \in E
    BY <2>1
  <2>5. DOMAIN g = DOMAIN s /\ g = [k \in DOMAIN s |-> g[k]] /\ \A k \in DOMAIN s : g[k] \in Constituents
    BY <2>2, <2>3, <2>4
  <2>6. g \in Seq(Constituents)
    BY <2>1, <2>5, MappedSeq
  <2> QED BY <1>3, <2>6 DEF Reached, g
<1>4. CASE comp.kind = "layered"
  <2>1. comp.global \in Constituents \cup {0}
    BY <1>1, <1>4 DEF ValidParts, Constituents
  <2>2. LayeredReached \in Seq(Constituents)
    BY <2>1 DEF LayeredReached
  <2> QED BY <1>4, <2>2 DEF Reached
<1> QED BY <1>1, <1>2, <1>3, <1>4

LEMMA ForEachPlain ==
  ASSUME Ledger, NEW op \in {"pause", "resume", "drain"}, NEW d \in Nat, Calm(comp) => op = "resume"
  PROVE  ForEach(op, d) \in Seq(Plain(comp))
<1> DEFINE s == Reached
           g == ForEach(op, d)
<1>1. s \in Seq(Constituents)
  BY ReachedType
<1>2. g = [k \in DOMAIN s |-> Do(op, s[k], d)]
  BY DEF ForEach
<1> HIDE DEF s, g
<1>3. \A k \in DOMAIN s : s[k] \in Constituents
  BY <1>1
<1>4. ASSUME NEW k \in DOMAIN s PROVE g[k] \in Plain(comp)
  <2>1. s[k] \in DOMAIN comp.cap
    BY <1>3 DEF Constituents
  <2>2. Do(op, s[k], d) \in Plain(comp)
    BY <2>1, DoIsPlain
  <2> QED BY <1>2, <2>2
<1>5. DOMAIN g = DOMAIN s /\ g = [k \in DOMAIN s |-> g[k]]
  BY <1>2
<1>6. g \in Seq(Plain(comp))
  BY <1>1, <1>4, <1>5, MappedSeq
<1> QED BY <1>6 DEF g

LEMMA DimensionType ==
  ASSUME Ledger, comp.kind = "multi", NEW name
  PROVE  Dimension(name) \in Constituents \cup {0}
<1> DEFINE E == [name : STRING, limiter : Constituents]
           s == comp.table.dims
           hits == {k \in DOMAIN s : s[k].name = Target(comp.table, name)}
<1>1. ValidParts(comp)
  BY Shape DEF Valid
<1>2. s \in Seq(E)
  BY <1>1 DEF ValidParts, Constituents
<1>3. Dimension(name) = IF hits = {} THEN 0 ELSE s[Min(hits)].limiter
  BY DEF Dimension
<1>4. \A e \in E : e.limiter \in Constituents
  OBVIOUS
<1> HIDE DEF E, s
<1>5. DOMAIN s = 1..Len(s) /\ Len(s) \in Nat /\ \A k \in DOMAIN s : s[k] \in E
  BY <1>2
<1>6. hits \subseteq Nat /\ hits \subseteq DOMAIN s
  BY <1>5
<1> HIDE DEF hits
<1>7. ASSUME hits # {} PROVE Min(hits) \in DOMAIN s
  <2>1. Min(hits) = CHOOSE i \in hits : \A j \in hits : i <= j
    BY Zenon DEF Min
  <2>2. Min(hits) \in hits
    BY <1>6, <1>7, <2>1, MinMember
  <2> QED BY <1>6, <2>2
<1> QED BY <1>3, <1>4, <1>5, <1>7

LEMMA ApplyPlain ==
  ASSUME Ledger, ~Calm(comp), NEW w \in Windows, NEW c \in Constituents \cup {0}, NEW p \in Nat
  PROVE  Apply(w, c, p) \in Seq(Plain(comp))
<1> DEFINE d == MinOf(w.reset, p)
           z == IF w.remaining = 0 /\ d > 0 THEN <<Do("pause", c, d)>> ELSE <<>>
           y == <<Do("drain", c, w.remaining)>>
           none == <<>>
<1>1. none \in Seq(Plain(comp))
  OBVIOUS
<1>2. w.remaining \in Nat \cup {Nothing} /\ w.reset \in Nat
  BY DEF Windows
<1>3. d \in Nat
  BY <1>2 DEF MinOf
<1>4. Apply(w, c, p) = IF c = 0 \/ w.remaining = Nothing THEN none ELSE y \o z
  BY DEF Apply
<1>5. CASE c = 0 \/ w.remaining = Nothing
  BY <1>1, <1>4, <1>5
<1>6. CASE ~(c = 0 \/ w.remaining = Nothing)
  <2> DEFINE n == w.remaining
             o == "pause"
             r == "drain"
  <2>1. c \in DOMAIN comp.cap /\ n \in Nat
    BY <1>2, <1>6 DEF Constituents
  <2>2. o \in {"pause", "resume", "drain"} /\ r \in {"pause", "resume", "drain"}
    OBVIOUS
  <2>3. z = (IF w.remaining = 0 /\ d > 0 THEN <<Do(o, c, d)>> ELSE none) /\ y = <<Do(r, c, n)>>
    OBVIOUS
  <2> HIDE DEF n, o, r, d, none, y, z
  <2>4. <<Do(o, c, d)>> \in Seq(Plain(comp)) /\ <<Do(r, c, n)>> \in Seq(Plain(comp))
    BY <1>3, <2>1, <2>2, DoIsPlain
  <2>5. y \in Seq(Plain(comp)) /\ z \in Seq(Plain(comp))
    BY <1>1, <2>3, <2>4
  <2>6. y \o z \in Seq(Plain(comp))
    BY <2>5, Joined
  <2> QED BY <1>4, <1>6, <2>6
<1> QED BY <1>5, <1>6

LEMMA ScriptPlain ==
  ASSUME Ledger, NEW call \in comp.calls
  PROVE  Script(call) \in Seq(Plain(comp))
<1>1. call.op \in {"pause", "resume", "sync"} /\ ValidCall(comp, call)
  BY Shape DEF Valid
<1>2. CASE call.op = "pause"
  <2> DEFINE o == "pause"
             d == call.d
  <2>1. d \in Nat /\ ~Calm(comp)
    BY <1>1, <1>2 DEF ValidCall, Calm
  <2>2. Script(call) = ForEach(o, d) /\ o \in {"pause", "resume", "drain"}
    BY <1>2 DEF Script, PauseFor
  <2> HIDE DEF o, d
  <2> QED BY <2>1, <2>2, ForEachPlain
<1>3. CASE call.op = "resume"
  <2> DEFINE o == "resume"
             d == 0
  <2>1. d \in Nat /\ (Calm(comp) => o = "resume")
    OBVIOUS
  <2>2. Script(call) = ForEach(o, d) /\ o \in {"pause", "resume", "drain"}
    BY <1>3 DEF Script, Resume
  <2> HIDE DEF o, d
  <2> QED BY <2>1, <2>2, ForEachPlain
<1>4. CASE call.op = "sync"
  <2> DEFINE i == call.info
             p == call.max_pause
             r == Dimension("requests")
             t == Dimension("tokens")
             u == Dimension("input_tokens")
             v == Dimension("output_tokens")
             after == MinOf(i.retry_after, p)
             A == Apply(i.requests, r, p)
             B == Apply(i.tokens, t, p)
             C == Apply(i.tokens, u, p)
             D == Apply(i.tokens, v, p)
             E == PauseFor(after)
             P == Seq(Plain(comp))
  <2>1. /\ comp.kind = "multi" /\ p \in Nat /\ i.requests \in Windows /\ i.tokens \in Windows
        /\ i.retry_after \in Nat /\ ~Calm(comp)
    BY <1>1, <1>4 DEF ValidCall, Calm
  <2>2. \A name : Dimension(name) \in Constituents \cup {0}
    BY <2>1, DimensionType
  <2>3. after \in Nat
    BY <2>1 DEF MinOf
  <2>4. A \in P /\ B \in P /\ C \in P /\ D \in P
    <3>1. r \in Constituents \cup {0} /\ t \in Constituents \cup {0} /\ u \in Constituents \cup {0}
          /\ v \in Constituents \cup {0}
      BY <2>2
    <3> HIDE DEF i, p, r, t, u, v
    <3> QED BY <2>1, <3>1, ApplyPlain
  <2>5. E \in P
    <3> DEFINE o == "pause"
    <3>1. o \in {"pause", "resume", "drain"} /\ E = ForEach(o, after)
      BY DEF PauseFor
    <3> HIDE DEF o, after, E
    <3> QED BY <2>1, <2>3, <3>1, ForEachPlain
  <2>6. Script(call) = A \o (IF t # 0 THEN B ELSE C \o D) \o (IF after > 0 THEN E ELSE <<>>)
    BY <1>4 DEF Script, SyncMulti
  <2> DEFINE none == <<>>
             F == IF t # 0 THEN B ELSE C \o D
             G == IF after > 0 THEN E ELSE none
  <2>7. none \in P
    OBVIOUS
  <2>8. Script(call) = A \o F \o G
    BY <2>6
  <2> HIDE DEF A, B, C, D, E, none, t, after
  <2>9. C \o D \in P
    BY <2>4, Joined
  <2>10. F \in P /\ G \in P
    BY <2>4, <2>5, <2>7, <2>9
  <2> HIDE DEF F, G
  <2>11. A \o F \in P
    BY <2>4, <2>10, Joined
  <2>12. (A \o F) \o G \in P
    <3> DEFINE H == A \o F
    <3>1. H \in P
      BY <2>11
    <3> HIDE DEF H
    <3>2. H \o G \in P
      BY <2>10, <3>1, Joined
    <3> QED BY <3>2 DEF H
  <2> QED BY <2>8, <2>12
<1> QED BY <1>1, <1>2, <1>3, <1>4

-----------------------------------------------------------------------------
(* The steps of an administrative call, of the others and of the clock. *)

SameCalls ==
  /\ cl' = [x \in Callers |-> cl'[x]]
  /\ \A x \in Callers : /\ Fine(comp, now', cl'[x])
                        /\ cl'[x].items = cl[x].items /\ cl'[x].got = cl[x].got

Worked ==
  /\ comp' = comp /\ now' = now
  /\ bal' \in [Constituents -> Int] /\ \A c \in Constituents : bal'[c] <= comp.cap[c]
  /\ gone' \in [Constituents -> Nat] /\ hold' \in [Constituents -> Nat]
  /\ Calm(comp) => \A c \in Constituents : hold'[c] = 0
  /\ ad' \in Seq(Work(comp))
  /\ \A c \in Constituents : bal'[c] + gone'[c] + Returning(ad', c) = bal[c] + gone[c] + Returning(ad, c)
  /\ SameCalls

SameDue(s) == s \in Seq(Work(comp)) /\ \A c : Returning(s, c) = Returning(ad, c)

LEMMA Unmoved ==
  ASSUME CompositeInv, UNCHANGED <<comp, now, cl>>
  PROVE  comp' = comp /\ now' = now /\ SameCalls
BY DEF CompositeInv, SameCalls

LEMMA Handled ==
  ASSUME CompositeInv, ad # <<>>, Head(ad).op # "refund"
  PROVE  /\ Head(ad) \in Work(comp) /\ SameDue(Tail(ad)) /\ Tail(ad) \in Seq(Work(comp))
         /\ \A e \in Plain(comp) : SameDue(<<e>> \o Tail(ad))
<1> DEFINE h == Head(ad)
           t == Tail(ad)
<1>1. ad \in Seq(Work(comp))
  BY DEF CompositeInv
<1>2. h \in Work(comp) /\ t \in Seq(Work(comp)) /\ \A c : Returning(ad, c) = Owes(h, c) + Returning(t, c)
  BY <1>1, HeadTail
<1>3. \A c : Owes(h, c) = 0
  BY DEF Owes
<1> HIDE DEF h, t
<1>4. \A c : Returning(t, c) \in Nat
  BY <1>2, ReturningNat
<1>5. \A c : Returning(ad, c) = Returning(t, c)
  BY <1>2, <1>3, <1>4
<1>6. ASSUME NEW e \in Plain(comp)
      PROVE  <<e>> \o t \in Seq(Work(comp)) /\ \A c : Returning(<<e>> \o t, c) = Returning(ad, c)
  <2>1. e \in Work(comp) /\ \A c : Owes(e, c) = 0
    BY DEF Plain, Owes
  <2>2. <<e>> \o t \in Seq(Work(comp)) /\ \A c : Returning(<<e>> \o t, c) = Owes(e, c) + Returning(t, c)
    BY <1>2, <2>1, Prefixed
  <2> QED BY <1>4, <1>5, <2>1, <2>2
<1> QED BY <1>2, <1>5, <1>6 DEF SameDue, h, t

(* A step that does nothing but spend. *)
LEMMA Spends ==
  ASSUME CompositeInv, NEW q \in Constituents, NEW n \in Nat,
         Spend(q, n) \/ UNCHANGED <<bal, gone>>, UNCHANGED <<comp, now, hold, cl>>, SameDue(ad')
  PROVE  Worked
<1>1. Ledger /\ bal \in [Constituents -> Int] /\ gone \in [Constituents -> Nat] /\ hold \in [Constituents -> Nat]
      /\ (Calm(comp) => \A c \in Constituents : hold[c] = 0)
  BY DEF CompositeInv, Ledger
<1>2. comp' = comp /\ now' = now /\ SameCalls /\ hold' = hold
  BY Unmoved
<1>3. ad' \in Seq(Work(comp)) /\ ad \in Seq(Work(comp)) /\ \A c : Returning(ad', c) = Returning(ad, c)
  BY DEF SameDue, CompositeInv
<1>4. PICK k \in {0, n} : /\ bal' = [bal EXCEPT ![q] = bal[q] - k]
                          /\ gone' = [gone EXCEPT ![q] = gone[q] + k]
  <2>1. CASE Spend(q, n)
    BY <2>1 DEF Spend, Take
  <2>2. CASE UNCHANGED <<bal, gone>>
    <3>1. bal' = [bal EXCEPT ![q] = bal[q] - 0] /\ gone' = [gone EXCEPT ![q] = gone[q] + 0]
      BY <1>1, <2>2
    <3> QED BY <3>1
  <2> QED BY <2>1, <2>2
<1>5. k \in Nat /\ bal[q] \in Int /\ gone[q] \in Nat
  BY <1>1
<1>6. bal' \in [Constituents -> Int] /\ gone' \in [Constituents -> Nat]
  BY <1>1, <1>4, <1>5
<1>7. ASSUME NEW c \in Constituents
      PROVE  /\ bal'[c] <= comp.cap[c]
             /\ bal'[c] + gone'[c] + Returning(ad', c) = bal[c] + gone[c] + Returning(ad, c)
  <2>1. comp.cap[c] \in Nat /\ bal[c] \in Int /\ bal[c] <= comp.cap[c] /\ gone[c] \in Nat
    BY <1>1, Part
  <2>2. /\ bal'[c] = bal[c] - (IF c = q THEN k ELSE 0) /\ gone'[c] = gone[c] + (IF c = q THEN k ELSE 0)
    BY <1>1, <1>4, <1>5, <2>1
  <2> DEFINE R == Returning(ad, c)
  <2>3. R \in Nat /\ Returning(ad', c) = R
    BY <1>3, ReturningNat
  <2> HIDE DEF R
  <2>4. bal'[c] <= comp.cap[c]
    BY <1>5, <2>1, <2>2
  <2>5. bal'[c] + gone'[c] + R = bal[c] + gone[c] + R
    BY <1>5, <2>1, <2>2, <2>3
  <2> QED BY <2>3, <2>4, <2>5 DEF R
<1> QED BY <1>1, <1>2, <1>3, <1>6, <1>7 DEF Worked

LEMMA WorkParts ==
  ASSUME NEW e \in Work(comp)
  PROVE  /\ e \in Jobs(comp) /\ e.op \in AdOps /\ e.c \in Constituents /\ e.n \in Nat /\ e.saw \in Nat
         /\ e.left \in 0..Attempts
         /\ e.op = "excess" => e.left > 0
         /\ Calm(comp) => e.op # "pause"
<1>1. e \in Jobs(comp) /\ (e.op = "excess" => e.left > 0) /\ (Calm(comp) => e.op # "pause")
  BY DEF Work
<1> QED BY <1>1 DEF Jobs, Constituents

LEMMA TakePlain ==
  ASSUME NEW q \in Constituents, NEW n \in Nat
  PROVE  [Do("take", q, 0) EXCEPT !.saw = n] \in Plain(comp)
<1> DEFINE e == [Do("take", q, 0) EXCEPT !.saw = n]
<1>1. e = [op |-> "take", c |-> q, n |-> 0, left |-> Attempts, saw |-> n]
  BY DEF Do
<1>2. "take" \in AdOps /\ q \in DOMAIN comp.cap /\ Attempts \in 0..Attempts
  BY Constants DEF AdOps, Constituents
<1>3. e \in Jobs(comp) /\ e.op = "take"
  BY <1>1, <1>2 DEF Jobs
<1> HIDE DEF e
<1>4. e \in Plain(comp)
  BY <1>3 DEF Work, Plain
<1> QED BY <1>4 DEF e

LEMMA DoDrainSteps ==
  ASSUME CompositeInv, ad # <<>>, DoDrain
  PROVE  Worked
<1> DEFINE e == Head(ad)
           a == Available(e.c)
           r == [e EXCEPT !.op = "excess", !.saw = a - e.n]
<1>1. /\ e.op = "drain" /\ UNCHANGED <<comp, now, bal, hold, cl, gone>>
      /\ IF e.left = 0 \/ a <= e.n THEN ad' = Tail(ad) ELSE ad' = <<r>> \o Tail(ad)
  BY DEF DoDrain, Rather
<1>2. e \in Work(comp) /\ SameDue(Tail(ad)) /\ \A u \in Plain(comp) : SameDue(<<u>> \o Tail(ad))
  BY <1>1, Handled
<1>3. Ledger
  BY DEF CompositeInv
<1> HIDE DEF e
<1>4. e \in Jobs(comp) /\ e.c \in Constituents /\ e.n \in Nat /\ e.left \in 0..Attempts
  BY <1>2, WorkParts
<1>5. a \in Nat
  BY <1>3, <1>4, WaitsAreNumbers
<1>6. ASSUME ~(e.left = 0 \/ a <= e.n) PROVE r \in Plain(comp)
  <2> DEFINE s == a - e.n
  <2>1. s \in Nat /\ e.left > 0
    <3> HIDE DEF a
    <3> QED BY <1>4, <1>5, <1>6, Constants
  <2>2. r = [e EXCEPT !.op = "excess", !.saw = s]
    OBVIOUS
  <2> HIDE DEF s, r
  <2>3. r \in Jobs(comp) /\ r.op = "excess" /\ r.left = e.left
    BY <1>4, <2>1, <2>2 DEF Jobs, AdOps
  <2> QED BY <2>1, <2>3 DEF Plain, Work
<1>7. SameDue(ad')
  <2> HIDE DEF r, a
  <2> QED BY <1>1, <1>2, <1>6
<1> QED BY <1>1, <1>4, <1>7, Spends

LEMMA DoExcessSteps ==
  ASSUME CompositeInv, ad # <<>>, DoExcess
  PROVE  Worked
<1> DEFINE e == Head(ad)
           l == e.left - 1
           r == [e EXCEPT !.op = "drain", !.left = l, !.saw = 0]
<1>1. /\ e.op = "excess" /\ UNCHANGED <<comp, now, hold, cl>>
      /\ \/ Spend(e.c, e.saw) /\ ad' = Tail(ad)
         \/ ad' = <<[e EXCEPT !.op = "drain", !.left = @ - 1, !.saw = 0]>> \o Tail(ad) /\ UNCHANGED <<bal, gone>>
  BY DEF DoExcess, Rather
<1>2. e \in Work(comp) /\ SameDue(Tail(ad)) /\ \A u \in Plain(comp) : SameDue(<<u>> \o Tail(ad))
  BY <1>1, Handled
<1> HIDE DEF e
<1>3. /\ e \in Jobs(comp) /\ e.c \in Constituents /\ e.saw \in Nat /\ e.left \in 0..Attempts /\ e.left > 0
  BY <1>1, <1>2, WorkParts
<1>4. [e EXCEPT !.op = "drain", !.left = @ - 1, !.saw = 0] = r
  BY <1>3 DEF Jobs
<1>5. r \in Plain(comp)
  <2>1. l \in 0..Attempts
    BY <1>3, Constants
  <2> HIDE DEF l, r
  <2>2. r = [e EXCEPT !.op = "drain", !.left = l, !.saw = 0]
    BY DEF r
  <2>3. r \in Jobs(comp) /\ r.op = "drain"
    BY <1>3, <2>1, <2>2 DEF Jobs, AdOps
  <2> QED BY <2>3 DEF Plain, Work
<1>6. SameDue(ad') /\ (Spend(e.c, e.saw) \/ UNCHANGED <<bal, gone>>)
  <2> HIDE DEF r
  <2> QED BY <1>1, <1>2, <1>4, <1>5
<1> DEFINE q == e.c
           n == e.saw
<1>7. q \in Constituents /\ n \in Nat /\ (Spend(q, n) \/ UNCHANGED <<bal, gone>>)
  BY <1>3, <1>6
<1> HIDE DEF q, n
<1> QED BY <1>1, <1>6, <1>7, Spends

LEMMA DoTakeSteps ==
  ASSUME CompositeInv, ad # <<>>, DoTake
  PROVE  Worked
<1> DEFINE e == Head(ad)
           q == e.c
           n == e.saw
<1>1. /\ e.op = "take" /\ UNCHANGED <<comp, now, hold, cl>> /\ ad' = Tail(ad)
      /\ Spend(q, n) \/ UNCHANGED <<bal, gone>>
  BY DEF DoTake
<1>2. e \in Work(comp) /\ SameDue(ad')
  BY <1>1, Handled
<1> HIDE DEF e
<1>3. q \in Constituents /\ n \in Nat
  BY <1>2, WorkParts
<1> HIDE DEF q, n
<1> QED BY <1>1, <1>2, <1>3, Spends

LEMMA DoChargeSteps ==
  ASSUME CompositeInv, ad # <<>>, DoCharge
  PROVE  Worked
<1> DEFINE e == Head(ad)
           q == e.c
           chunk == MinOf(e.n, comp.cap[q])
           rest == [e EXCEPT !.n = @ - chunk]
           more == IF e.n > chunk THEN <<rest>> ELSE <<>>
           some == MinOf(Available(q), e.n)
           t == [Do("take", q, 0) EXCEPT !.saw = some]
<1>1. /\ e.op = "charge" /\ UNCHANGED <<comp, now, hold, cl>>
      /\ \/ Spend(q, e.n) /\ ad' = Tail(ad)
         \/ Spend(q, chunk) /\ ad' = more \o Tail(ad)
         \/ /\ IF some > 0 THEN ad' = <<t>> \o Tail(ad) ELSE ad' = Tail(ad)
            /\ UNCHANGED <<bal, gone>>
  BY DEF DoCharge, Rather
<1>2. /\ e \in Work(comp) /\ SameDue(Tail(ad)) /\ Tail(ad) \in Seq(Work(comp))
      /\ \A u \in Plain(comp) : SameDue(<<u>> \o Tail(ad))
  BY <1>1, Handled
<1>3. Ledger
  BY DEF CompositeInv
<1> HIDE DEF e
<1>4. e \in Jobs(comp) /\ q \in Constituents /\ e.n \in Nat
  BY <1>2, WorkParts
<1> HIDE DEF q
<1>5. comp.cap[q] \in Nat /\ Available(q) \in Nat
  BY <1>3, <1>4, Part, WaitsAreNumbers
<1>6. chunk \in Nat /\ some \in Nat /\ chunk <= e.n
  BY <1>4, <1>5 DEF MinOf
<1> HIDE DEF chunk, some
<1>7. t \in Plain(comp)
  BY <1>4, <1>6, TakePlain
<1>8. rest \in Plain(comp)
  <2> DEFINE d == e.n - chunk
  <2>1. d \in Nat
    BY <1>4, <1>6
  <2>2. rest = [e EXCEPT !.n = d]
    BY <1>4 DEF Jobs
  <2> HIDE DEF d, rest
  <2>3. rest \in Jobs(comp) /\ rest.op = "charge"
    BY <1>1, <1>4, <2>1, <2>2 DEF Jobs
  <2> QED BY <2>3 DEF Plain, Work
<1> HIDE DEF t, rest
<1>9. SameDue(more \o Tail(ad))
  <2>1. CASE e.n > chunk
    BY <1>2, <1>8, <2>1
  <2>2. CASE ~(e.n > chunk)
    <3>1. more \o Tail(ad) = Tail(ad)
      BY <1>2, <2>2
    <3> QED BY <1>2, <3>1
  <2> QED BY <2>1, <2>2
<1> HIDE DEF more
<1>10. SameDue(ad') /\ (Spend(q, e.n) \/ Spend(q, chunk) \/ UNCHANGED <<bal, gone>>)
  BY <1>1, <1>2, <1>7, <1>9
<1> DEFINE n == e.n
<1>11. n \in Nat /\ (Spend(q, n) \/ Spend(q, chunk) \/ UNCHANGED <<bal, gone>>)
  BY <1>4, <1>10
<1> HIDE DEF n
<1> QED BY <1>1, <1>4, <1>6, <1>10, <1>11, Spends

LEMMA DoPauseSteps ==
  ASSUME CompositeInv, ad # <<>>, DoPause
  PROVE  Worked
<1> DEFINE e == Head(ad)
           q == e.c
           n == e.n
           t == [Do("take", q, 0) EXCEPT !.saw = Available(q)]
<1>1. /\ e.op = "pause" /\ UNCHANGED <<comp, now, bal, cl, gone>>
      /\ \/ hold' = [hold EXCEPT ![q] = MaxOf(@, now + n)] /\ ad' = Tail(ad)
         \/ /\ \/ ad' = <<t>> \o Tail(ad)
               \/ ad' = Tail(ad)
            /\ UNCHANGED hold
  BY DEF DoPause, Rather
<1>2. e \in Work(comp) /\ SameDue(Tail(ad)) /\ \A u \in Plain(comp) : SameDue(<<u>> \o Tail(ad))
  BY <1>1, Handled
<1>3. Ledger /\ now \in Nat
  BY Shape DEF CompositeInv
<1> HIDE DEF e
<1>4. q \in Constituents /\ n \in Nat /\ ~Calm(comp)
  BY <1>1, <1>2, WorkParts
<1> HIDE DEF q, n
<1>5. t \in Plain(comp)
  <2>1. Available(q) \in Nat
    BY <1>3, <1>4, WaitsAreNumbers
  <2> QED BY <1>4, <2>1, TakePlain
<1> HIDE DEF t
<1>6. SameDue(ad')
  BY <1>1, <1>2, <1>5
<1>7. hold' \in [Constituents -> Nat]
  <2>1. hold \in [Constituents -> Nat] /\ hold[q] \in Nat
    BY <1>3, <1>4 DEF Ledger
  <2>2. MaxOf(hold[q], now + n) \in Nat
    BY <1>3, <1>4, <2>1 DEF MaxOf
  <2> QED BY <1>1, <1>4, <2>1, <2>2
<1>8. comp' = comp /\ now' = now /\ SameCalls /\ bal' = bal /\ gone' = gone
  BY <1>1, Unmoved
<1>9. /\ bal \in [Constituents -> Int] /\ \A c \in Constituents : bal[c] <= comp.cap[c]
      /\ gone \in [Constituents -> Nat]
  BY <1>3 DEF Ledger
<1>10. ad' \in Seq(Work(comp)) /\ \A c : Returning(ad', c) = Returning(ad, c)
  BY <1>6 DEF SameDue
<1> QED BY <1>4, <1>7, <1>8, <1>9, <1>10 DEF Worked

(* A resume wakes a sleeper, and changes nothing else of it. *)
Woken(f, m, me, u) ==
  /\ m \in CallSet(f) /\ SameCall(m, me) /\ m.until = u
  /\ m.pc = me.pc /\ m.held = me.held /\ m.due = me.due /\ m.sw = me.sw /\ m.naps = me.naps

LEMMA WokenFields ==
  ASSUME NEW f, NEW me \in CallSet(f), NEW u \in Nat
  PROVE  Woken(f, [me EXCEPT !.until = u], me, u)
BY DEF CallSet, SameCall, Woken

LEMMA WokenFine ==
  ASSUME NEW f, NEW t \in Nat, NEW me, Fine(f, t, me), me.pc \in {"ask", "grant"},
         me.pc = "grant" => me.naps, NEW m, Woken(f, m, me, t)
  PROVE  Fine(f, t, m)
<1>1. Core(f, me) /\ Place(t, me) /\ Patient(f, me)
  BY FineParts
<1>2. /\ m \in CallSet(f) /\ m.items = me.items /\ m.got = me.got /\ m.dl = me.dl /\ m.until = t
      /\ m.pc = me.pc /\ m.held = me.held /\ m.due = me.due /\ m.sw = me.sw
  BY DEF Woken, SameCall
<1>3. Len(m.got) = Len(m.items) /\ m.held \subseteq DOMAIN m.items /\ m.items # <<>>
  BY <1>1, <1>2 DEF Core
<1>4. CASE me.pc = "ask"
  <2>1. HasHeld(m) /\ HeldDue(m)
    BY <1>1, <1>2, <1>4 DEF Place, HasHeld, HeldDue
  <2>2. Light(t, m)
    BY <1>2, Constants DEF Light
  <2>3. Place(t, m)
    BY <1>2, <1>3, <1>4, <2>1, <2>2 DEF Place, Loops
  <2>4. Patient(f, m)
    BY <1>1, <1>2, <1>4 DEF Patient
  <2> QED BY <1>2, <1>3, <2>3, <2>4 DEF Fine
<1>5. CASE me.pc = "grant"
  <2>1. /\ m.held = DOMAIN m.items
        /\ \A k \in DOMAIN m.items : m.got[k] # Nothing /\ m.got[k] <= t
    BY <1>1, <1>2, <1>5 DEF Place
  <2>3. Place(t, m)
    BY <1>2, <1>3, <1>5, <2>1 DEF Place, Loops
  <2>4. Patient(f, m)
    BY <1>1, <1>2, <1>5 DEF Patient
  <2> QED BY <1>2, <1>3, <2>3, <2>4 DEF Fine
<1> QED BY <1>4, <1>5

LEMMA DoResumeSteps ==
  ASSUME CompositeInv, ad # <<>>, DoResume
  PROVE  Worked
<1> DEFINE e == Head(ad)
           q == e.c
<1>1. /\ e.op = "resume" /\ UNCHANGED <<comp, now, bal, gone>> /\ ad' = Tail(ad)
      /\ hold' = [hold EXCEPT ![q] = 0]
      /\ \E S \in SUBSET Sleepers :
           cl' = [x \in Callers |-> IF x \in S THEN [cl[x] EXCEPT !.until = now] ELSE cl[x]]
  BY DEF DoResume
<1>2. e \in Work(comp) /\ SameDue(ad')
  BY <1>1, Handled
<1>3. Ledger /\ now \in Nat
  BY Shape DEF CompositeInv
<1> HIDE DEF e
<1>4. q \in Constituents
  BY <1>2, WorkParts
<1> HIDE DEF q
<1>5. /\ hold' \in [Constituents -> Nat] /\ (Calm(comp) => \A c \in Constituents : hold'[c] = 0)
  <2>1. hold \in [Constituents -> Nat] /\ (Calm(comp) => \A c \in Constituents : hold[c] = 0)
    BY <1>3 DEF Ledger
  <2> QED BY <1>1, <1>4, <2>1
<1>6. PICK S \in SUBSET Sleepers :
        cl' = [x \in Callers |-> IF x \in S THEN [cl[x] EXCEPT !.until = now] ELSE cl[x]]
  BY <1>1
<1>7. ASSUME NEW x \in Callers
      PROVE  /\ Fine(comp, now, cl'[x])
             /\ cl'[x].items = cl[x].items /\ cl'[x].got = cl[x].got
  <2> DEFINE me == cl[x]
             m == [me EXCEPT !.until = now]
  <2>1. Fine(comp, now, me)
    BY LiveCaller
  <2>2. CASE x \in S
    <3>1. cl'[x] = m
      BY <1>6, <2>2
    <3>2. me.pc \in {"ask", "grant"} /\ (me.pc = "grant" => me.naps)
      BY <2>2 DEF Sleepers
    <3>3. me \in CallSet(comp)
      BY <2>1 DEF Fine
    <3>4. Woken(comp, m, me, now)
      <4> HIDE DEF me
      <4> QED BY <1>3, <3>3, WokenFields
    <3> HIDE DEF m, me
    <3>5. Fine(comp, now, m) /\ m.items = me.items /\ m.got = me.got
      BY <1>3, <2>1, <3>2, <3>4, WokenFine DEF Woken, SameCall
    <3> QED BY <3>1, <3>5 DEF me
  <2>3. CASE x \notin S
    <3>1. cl'[x] = me
      BY <1>6, <2>3
    <3> QED BY <2>1, <3>1
  <2> QED BY <2>2, <2>3
<1>8. cl' = [x \in Callers |-> cl'[x]]
  BY <1>6
<1>9. comp' = comp /\ now' = now /\ SameCalls /\ bal' = bal /\ gone' = gone
  BY <1>1, <1>7, <1>8 DEF SameCalls
<1>10. /\ bal \in [Constituents -> Int] /\ \A c \in Constituents : bal[c] <= comp.cap[c]
      /\ gone \in [Constituents -> Nat]
  BY <1>3 DEF Ledger
<1>11. ad' \in Seq(Work(comp)) /\ \A c : Returning(ad', c) = Returning(ad, c)
  BY <1>2 DEF SameDue
<1> QED BY <1>5, <1>9, <1>10, <1>11 DEF Worked

LEMMA DoRefundSteps ==
  ASSUME CompositeInv, ad # <<>>, DoRefund
  PROVE  Worked
<1> DEFINE e == Head(ad)
           t == Tail(ad)
           q == e.c
           n == e.n
           b == Back(q, n)
<1>1. /\ e.op = "refund" /\ UNCHANGED <<comp, now, hold, cl>> /\ ad' = t
      /\ bal' = [bal EXCEPT ![q] = bal[q] + b] /\ gone' = [gone EXCEPT ![q] = gone[q] + n - b]
  BY DEF DoRefund, Refund
<1>2. Ledger /\ ad \in Seq(Work(comp))
  BY DEF CompositeInv
<1>3. e \in Work(comp) /\ t \in Seq(Work(comp)) /\ \A c : Returning(ad, c) = Owes(e, c) + Returning(t, c)
  BY <1>2, HeadTail
<1> HIDE DEF e, t
<1>4. q \in Constituents /\ n \in Nat
  BY <1>3, WorkParts
<1>5. \A c : Owes(e, c) = IF c = q THEN n ELSE 0
  BY <1>1 DEF Owes
<1> HIDE DEF q, n
<1>6. b \in Nat /\ b <= n /\ bal[q] + b <= comp.cap[q]
  BY <1>2, <1>4, Backs
<1> HIDE DEF b
<1>7. /\ bal \in [Constituents -> Int] /\ gone \in [Constituents -> Nat] /\ hold \in [Constituents -> Nat]
      /\ (Calm(comp) => \A c \in Constituents : hold[c] = 0)
  BY <1>2 DEF Ledger
<1>8. bal' \in [Constituents -> Int] /\ gone' \in [Constituents -> Nat]
  <2>1. bal[q] + b \in Int /\ gone[q] + n - b \in Nat
    <3>1. bal[q] \in Int /\ gone[q] \in Nat
      BY <1>4, <1>7
    <3> QED BY <1>4, <1>6, <3>1
  <2> QED BY <1>1, <1>4, <1>7, <2>1
<1>9. ASSUME NEW c \in Constituents
      PROVE  /\ bal'[c] <= comp.cap[c]
             /\ bal'[c] + gone'[c] + Returning(ad', c) = bal[c] + gone[c] + Returning(ad, c)
  <2>1. comp.cap[c] \in Nat /\ bal[c] \in Int /\ bal[c] <= comp.cap[c] /\ gone[c] \in Nat
    BY <1>2, Part
  <2>2. /\ bal'[c] = bal[c] + (IF c = q THEN b ELSE 0)
        /\ gone'[c] = gone[c] + (IF c = q THEN n - b ELSE 0)
    BY <1>1, <1>4, <1>6, <1>7, <2>1
  <2>3. bal'[c] <= comp.cap[c]
    BY <1>6, <2>1, <2>2
  <2> DEFINE R == Returning(ad, c)
             Q == Returning(t, c)
  <2>4. Q \in Nat /\ R = (IF c = q THEN n ELSE 0) + Q
    BY <1>3, <1>5, ReturningNat
  <2> HIDE DEF R, Q
  <2>5. bal'[c] + gone'[c] + Q = bal[c] + gone[c] + R
    BY <1>4, <1>6, <2>1, <2>2, <2>4
  <2> QED BY <1>1, <2>3, <2>5 DEF R, Q
<1>10. comp' = comp /\ now' = now /\ SameCalls /\ hold' = hold /\ ad' = t
  BY <1>1, Unmoved
<1> QED BY <1>3, <1>7, <1>8, <1>9, <1>10 DEF Worked

LEMMA AdministerSteps ==
  ASSUME CompositeInv, NEW call \in comp.calls, Administer(call)
  PROVE  Worked
<1>1. ad = <<>> /\ ad' = Script(call) /\ UNCHANGED <<comp, now, bal, hold, cl, gone>>
  BY DEF Administer
<1>2. Ledger
  BY DEF CompositeInv
<1>3. ad' \in Seq(Plain(comp))
  BY <1>1, <1>2, ScriptPlain
<1>4. ad' \in Seq(Work(comp)) /\ \A c : Returning(ad', c) = 0
  BY <1>3, PlainOwes
<1>5. \A c : Returning(ad, c) = 0
  BY <1>1, ReturningEmpty
<1>6. comp' = comp /\ now' = now /\ SameCalls /\ bal' = bal /\ gone' = gone /\ hold' = hold
  BY <1>1, Unmoved
<1>7. /\ bal \in [Constituents -> Int] /\ \A c \in Constituents : bal[c] <= comp.cap[c]
      /\ gone \in [Constituents -> Nat] /\ hold \in [Constituents -> Nat]
      /\ (Calm(comp) => \A c \in Constituents : hold[c] = 0)
  BY <1>2 DEF Ledger
<1> QED BY <1>4, <1>5, <1>6, <1>7 DEF Worked

LEMMA RivalSteps ==
  ASSUME CompositeInv, NEW c \in comp.rivals, Rival(c)
  PROVE  Worked
<1> DEFINE n == 1
<1>1. Spend(c, n) /\ UNCHANGED <<comp, now, hold, cl>> /\ ad' = ad /\ n \in Nat
  BY DEF Rival
<1>2. c \in Constituents /\ ad \in Seq(Work(comp))
  BY Shape DEF CompositeInv
<1>3. SameDue(ad')
  BY <1>1, <1>2 DEF SameDue
<1> HIDE DEF n
<1> QED BY <1>1, <1>2, <1>3, Spends

LEMMA DoNextSteps ==
  ASSUME CompositeInv, DoNext
  PROVE  Worked
BY DoPauseSteps, DoResumeSteps, DoDrainSteps, DoExcessSteps, DoTakeSteps, DoChargeSteps, DoRefundSteps
   DEF DoNext

(* What is true of a caller stays true as time passes. *)
LEMMA FineLater ==
  ASSUME NEW f, NEW t \in Nat, NEW me, Fine(f, t, me)
  PROVE  Fine(f, t + 1, me)
<1> DEFINE u == t + 1
<1>1. me \in CallSet(f) /\ Len(me.got) = Len(me.items) /\ Place(t, me) /\ Patient(f, me)
      /\ me.held \subseteq DOMAIN me.items
  BY DEF Fine
<1>2. /\ me.items \in Seq(Entries(f)) /\ me.got \in Seq(Nat \cup {Nothing}) /\ me.ix \in Seq(Nat)
      /\ me.until \in Nat /\ me.due \in Nat /\ me.long \in Nat /\ me.i \in Nat
  BY <1>1 DEF CallSet
<1>3. \A k \in DOMAIN me.items : me.got[k] \in Int
  <2> DEFINE s == me.items
             g == me.got
  <2>1. s \in Seq(Entries(f)) /\ g \in Seq(Nat \cup {Nothing}) /\ Len(g) = Len(s)
    BY <1>1, <1>2
  <2> HIDE DEF s, g
  <2>2. DOMAIN s = DOMAIN g /\ \A k \in DOMAIN g : g[k] \in Nat \cup {Nothing}
    BY <2>1
  <2>3. \A k \in DOMAIN g : g[k] \in Int
    BY <2>2 DEF Nothing
  <2> QED BY <2>2, <2>3 DEF s, g
<1>4. u \in Nat /\ t <= u /\ (\A v \in Int : v <= t => v <= u)
      /\ (\A v \in Int : v <= t + me.long => v <= u + me.long)
  BY <1>2
<1>5. Matured(me, t) => Matured(me, u)
  BY <1>2, <1>4 DEF Matured
<1>6. ASSUME me.pc \in Loops
      PROVE  \A j \in 1..Len(me.ix) : me.got[me.ix[j]] \in Int
  <2>1. \A j \in 1..Len(me.ix) : me.ix[j] \in DOMAIN me.items
    BY <1>1, <1>6 DEF Place, Walks
  <2> QED BY <1>3, <2>1
<1>7. ASSUME me.pc \in Loops, NEW j \in 1..(me.i - 1)
      PROVE  j \in 1..Len(me.ix)
  <2>1. me.i \in 1..Len(me.ix)
    BY <1>1, <1>7 DEF Place, Walks
  <2>2. Len(me.ix) \in Nat
    <3> DEFINE s == me.ix
    <3>1. s \in Seq(Nat)
      BY <1>2
    <3> HIDE DEF s
    <3>2. Len(s) \in Nat
      BY <3>1
    <3> QED BY <3>2 DEF s
  <2> QED BY <2>1, <2>2
<1> HIDE DEF u
<1>8. me.pc = "ok" => \A k \in DOMAIN me.items : me.got[k] <= u
  BY <1>1, <1>3, <1>4 DEF Place
<1>9. me.pc = "grant" => \A k \in DOMAIN me.items :
        me.got[k] <= u \/ (~me.naps /\ (me.got[k] <= me.until \/ me.until >= Forever))
  <2> SUFFICES ASSUME me.pc = "grant", NEW k \in DOMAIN me.items
               PROVE  me.got[k] <= u \/ (~me.naps /\ (me.got[k] <= me.until \/ me.until >= Forever))
    OBVIOUS
  <2>1. me.got[k] <= t \/ (~me.naps /\ (me.got[k] <= me.until \/ me.until >= Forever))
    BY <1>1 DEF Place
  <2>2. me.got[k] <= t => me.got[k] <= u
    BY <1>3, <1>4
  <2> QED BY <2>1, <2>2
<1>10. me.pc = "ask" => Light(u, me)
  <2>1. me.until <= t + RaceBackoff => me.until <= u + RaceBackoff
    BY <1>2, <1>4, Constants
  <2>2. me.pc = "ask" => Light(t, me)
    BY <1>1 DEF Place
  <2> QED BY <2>1, <2>2 DEF Light
<1>11. me.pc \in Loops => Walks(me) /\ Matured(me, u)
  BY <1>1, <1>5 DEF Place
<1>12. me.pc = "commit" =>
       /\ me.ret \in {"try", "all", "rest"}
       /\ HasWalked(me, 1, me.i - 1)
       /\ \A j \in 1..(me.i - 1) : me.got[me.ix[j]] <= u
  <2> SUFFICES ASSUME me.pc = "commit"
               PROVE  /\ me.ret \in {"try", "all", "rest"}
                      /\ HasWalked(me, 1, me.i - 1)
                      /\ \A j \in 1..(me.i - 1) : me.got[me.ix[j]] <= u
    OBVIOUS
  <2>1. /\ me.ret \in {"try", "all", "rest"}
        /\ HasWalked(me, 1, me.i - 1)
        /\ \A j \in 1..(me.i - 1) : me.got[me.ix[j]] <= t
    BY <1>1 DEF Place
  <2>2. me.pc \in Loops
    BY DEF Loops
  <2>3. \A j \in 1..(me.i - 1) : me.got[me.ix[j]] <= u
    BY <1>4, <1>6, <1>7, <2>1, <2>2
  <2> QED BY <2>1, <2>3
<1>13. me.pc = "reserve" =>
       /\ me.ret \in {"reserve", "slack"}
       /\ HasWalked(me, 1, me.i - 1)
       /\ \A j \in 1..(me.i - 1) : me.got[me.ix[j]] <= u + me.long
  <2> SUFFICES ASSUME me.pc = "reserve"
               PROVE  /\ me.ret \in {"reserve", "slack"}
                      /\ HasWalked(me, 1, me.i - 1)
                      /\ \A j \in 1..(me.i - 1) : me.got[me.ix[j]] <= u + me.long
    OBVIOUS
  <2>1. /\ me.ret \in {"reserve", "slack"}
        /\ HasWalked(me, 1, me.i - 1)
        /\ \A j \in 1..(me.i - 1) : me.got[me.ix[j]] <= t + me.long
    BY <1>1 DEF Place
  <2>2. me.pc \in Loops
    BY DEF Loops
  <2>3. \A j \in 1..(me.i - 1) : me.got[me.ix[j]] <= u + me.long
    BY <1>4, <1>6, <1>7, <2>1, <2>2
  <2> QED BY <2>1, <2>3
<1>14. Place(u, me)
  BY <1>1, <1>8, <1>9, <1>10, <1>11, <1>12, <1>13, Zenon DEF Place
<1> QED BY <1>1, <1>14 DEF Fine, u

Ticked ==
  /\ comp' = comp /\ now' = now + 1 /\ now' \in 0..comp.until /\ hold' = hold /\ ad' = ad
  /\ bal' \in [Constituents -> Int] /\ \A c \in Constituents : bal'[c] <= comp.cap[c]
  /\ gone' \in [Constituents -> Nat]
  /\ \A c \in Constituents : bal'[c] + gone'[c] = bal[c] + gone[c] + comp.rate[c]
  /\ SameCalls

LEMMA TickSteps ==
  ASSUME CompositeInv, Tick
  PROVE  Ticked
<1> DEFINE b(c) == MinOf(comp.cap[c], bal[c] + comp.rate[c])
<1>1. /\ now < comp.until /\ now' = now + 1 /\ UNCHANGED <<comp, hold, cl, ad>>
      /\ bal' = [c \in Constituents |-> b(c)]
      /\ gone' = [c \in Constituents |-> gone[c] + bal[c] + comp.rate[c] - bal'[c]]
  BY DEF Tick
<1>2. Ledger /\ now \in Nat /\ comp.until \in Nat
  BY Shape DEF CompositeInv
<1>3. now' \in 0..comp.until
  BY <1>1, <1>2
<1>4. SameCalls
  <2>1. cl' = cl /\ cl = [x \in Callers |-> cl[x]] /\ now' = now + 1
    BY <1>1 DEF CompositeInv
  <2>2. ASSUME NEW x \in Callers
        PROVE  Fine(comp, now', cl'[x]) /\ cl'[x].items = cl[x].items /\ cl'[x].got = cl[x].got
    <3> DEFINE me == cl[x]
    <3>1. Fine(comp, now, me)
      BY LiveCaller
    <3>2. cl'[x] = me
      BY <2>1
    <3> HIDE DEF me
    <3>3. Fine(comp, now + 1, me)
      BY <1>2, <3>1, FineLater
    <3> QED BY <2>1, <3>2, <3>3 DEF me
  <2>3. cl' = [x \in Callers |-> cl'[x]]
    BY <2>1
  <2> QED BY <2>2, <2>3 DEF SameCalls
<1>5. ASSUME NEW c \in Constituents
      PROVE  /\ b(c) \in Int /\ b(c) <= comp.cap[c] /\ bal'[c] = b(c)
             /\ gone[c] + bal[c] + comp.rate[c] - b(c) \in Nat
             /\ gone'[c] = gone[c] + bal[c] + comp.rate[c] - b(c)
             /\ bal[c] \in Int /\ comp.rate[c] \in Nat /\ gone[c] \in Nat
  <2>1. /\ comp.cap[c] \in Nat /\ comp.rate[c] \in Nat
        /\ bal[c] \in Int /\ bal[c] <= comp.cap[c] /\ gone[c] \in Nat
    BY <1>2, Part
  <2>2. /\ b(c) \in Int /\ b(c) <= comp.cap[c] /\ b(c) <= bal[c] + comp.rate[c]
    BY <2>1 DEF MinOf
  <2>3. bal'[c] = b(c)
    BY <1>1
  <2>4. gone'[c] = gone[c] + bal[c] + comp.rate[c] - b(c)
    BY <1>1, <2>3
  <2> HIDE DEF b
  <2> QED BY <2>1, <2>2, <2>3, <2>4
<1> HIDE DEF b
<1>6. bal' \in [Constituents -> Int] /\ gone' \in [Constituents -> Nat]
  <2>1. \A c \in Constituents : bal'[c] = b(c) /\ b(c) \in Int
    BY <1>5
  <2>2. \A c \in Constituents : gone[c] + bal[c] + comp.rate[c] - bal'[c] \in Nat
    BY <1>5
  <2>3. bal' \in [Constituents -> Int]
    BY <1>1, <2>1
  <2>4. gone' \in [Constituents -> Nat]
    BY <1>1, <2>2
  <2> QED BY <2>3, <2>4
<1>7. \A c \in Constituents : bal'[c] <= comp.cap[c] /\ bal'[c] + gone'[c] = bal[c] + gone[c] + comp.rate[c]
  BY <1>5
<1>8. comp' = comp /\ hold' = hold /\ ad' = ad
  BY <1>1
<1> QED BY <1>1, <1>3, <1>4, <1>6, <1>7, <1>8 DEF Ticked

-----------------------------------------------------------------------------
(* The invariant. *)

LEMMA CompositeStarts ==
  ASSUME CompositeInit
  PROVE  CompositeInv
<1>1. /\ comp \in Composites /\ now = 0 /\ bal = comp.cap /\ ad = <<>>
      /\ hold = [c \in Constituents |-> 0] /\ gone = [c \in Constituents |-> 0]
      /\ cl = [x \in Callers |-> Idle]
  BY DEF CompositeInit, Constituents
<1>2. Valid(comp) /\ Forever \in Nat
  BY <1>1, CompositeAssumption
<1>3. now \in 0..comp.until /\ now \in Nat
  BY <1>1, <1>2 DEF Valid
<1>4. bal \in [Constituents -> Int] /\ \A c \in Constituents : bal[c] <= comp.cap[c]
  <2> DEFINE s == comp.cap
  <2>1. s \in Seq(Nat)
    BY <1>2 DEF Valid
  <2> HIDE DEF s
  <2>2. s \in [DOMAIN s -> Int] /\ \A c \in DOMAIN s : s[c] <= s[c]
    <3>1. s = [c \in DOMAIN s |-> s[c]] /\ \A c \in DOMAIN s : s[c] \in Nat
      BY <2>1
    <3> QED BY <3>1
  <2> QED BY <1>1, <2>2 DEF s, Constituents
<1>5. hold \in [Constituents -> Nat] /\ gone \in [Constituents -> Nat] /\ \A c \in Constituents : hold[c] = 0
  BY <1>1
<1>6. ad \in Seq(Work(comp))
  BY <1>1
<1>7. Fine(comp, now, Idle)
  BY <1>3, Ended
<1>8. cl = [x \in Callers |-> cl[x]] /\ \A x \in Callers : cl[x] = Idle
  BY <1>1
<1>9. Ledger
  BY <1>1, <1>3, <1>4, <1>5 DEF Ledger
<1> QED BY <1>6, <1>7, <1>8, <1>9 DEF CompositeInv

(* What the callers have of a constituent together. *)
Shares(calls, c) == [x \in Callers |-> With(calls[x], c)]

LEMMA AnyWith ==
  ASSUME NEW f, NEW t, NEW me, Fine(f, t, me), NEW c
  PROVE  With(me, c) \in Nat
<1>1. CASE me.pc \in {"idle", "done"}
  <2>1. me.items = <<>> /\ Len(me.got) = Len(me.items) /\ me.got \in Seq(Nat \cup {Nothing})
    BY <1>1 DEF Fine, Place, CallSet
  <2> DEFINE s == me.got
  <2>2. Len(s) = 0 /\ s \in Seq(Nat \cup {Nothing})
    BY <2>1
  <2> HIDE DEF s
  <2>3. s = <<>>
    BY <2>2
  <2> QED BY <2>1, <2>3, NoneWith DEF s
<1>2. CASE me.pc \notin {"idle", "done"}
  BY <1>2, FineParts, WithIsNat
<1> QED BY <1>1, <1>2

LEMMA SharesNat ==
  ASSUME NEW f, NEW t, NEW calls, \A x \in Callers : Fine(f, t, calls[x]), NEW c
  PROVE  /\ \A x \in Callers : Shares(calls, c)[x] = With(calls[x], c) /\ With(calls[x], c) \in Nat
         /\ Total(Shares(calls, c), Callers) \in Nat
<1> DEFINE g == Shares(calls, c)
<1>1. \A x \in Callers : With(calls[x], c) \in Nat
  BY AnyWith
<1>2. \A x \in Callers : g[x] = With(calls[x], c)
  BY DEF Shares
<1> HIDE DEF g
<1>3. \A x \in Callers : g[x] \in Nat /\ g[x] <= g[x]
  BY <1>1, <1>2
<1>4. Total(g, Callers) \in Nat
  BY <1>3, Constants, TotalMono
<1> QED BY <1>1, <1>2, <1>4 DEF g

(* The balance of a constituent. *)
Account(c) == bal[c] + gone[c] + Returning(ad, c) + Total(Shares(cl, c), Callers)
Balanced == \A c \in Constituents : Account(c) = comp.cap[c] + comp.rate[c] * now

LEMMA SteppedKeeps ==
  ASSUME CompositeInv, NEW x \in Callers, Stepped(x)
  PROVE  /\ CompositeInv' /\ comp' = comp /\ now' = now
         /\ \A c \in Constituents : Account(c)' = Account(c)
<1>1. PICK m : cl' = [cl EXCEPT ![x] = m] /\ Fine(comp, now, m) /\ Even(m, cl[x])
  BY DEF Stepped
<1>2. /\ comp' = comp /\ now' = now /\ hold' = hold
      /\ bal' \in [Constituents -> Int] /\ \A c \in Constituents : bal'[c] <= comp.cap[c]
      /\ gone' \in [Constituents -> Nat] /\ ad' \in Seq(Work(comp))
  BY DEF Stepped
<1>3. /\ Ledger /\ cl = [y \in Callers |-> cl[y]] /\ ad \in Seq(Work(comp))
      /\ \A y \in Callers : Fine(comp, now, cl[y])
  BY DEF CompositeInv
<1>4. /\ cl' = [y \in Callers |-> cl'[y]] /\ cl'[x] = m
      /\ \A y \in Callers : y # x => cl'[y] = cl[y]
  BY <1>1, <1>3
<1>5. \A y \in Callers : Fine(comp, now, cl'[y])
  BY <1>1, <1>3, <1>4
<1>6. Ledger'
  BY <1>2, <1>3 DEF Ledger, Constituents
<1>7. CompositeInv'
  BY <1>2, <1>4, <1>5, <1>6 DEF CompositeInv
<1>8. ASSUME NEW c \in Constituents
      PROVE  Account(c)' = Account(c)
  <2> DEFINE f == Shares(cl, c)
             g == Shares(cl', c)
             F == Total(f, Callers)
             G == Total(g, Callers)
             W == With(cl[x], c)
             V == With(m, c)
             R == Returning(ad, c)
             Q == Returning(ad', c)
  <2>1. /\ \A y \in Callers : f[y] = With(cl[y], c) /\ f[y] \in Nat
    <3>1. \A y \in Callers : Fine(comp, now, cl[y])
      BY <1>3
    <3>2. \A y \in Callers : Shares(cl, c)[y] = With(cl[y], c) /\ With(cl[y], c) \in Nat
      BY <3>1, SharesNat
    <3> QED BY <3>2
  <2>2. /\ \A y \in Callers : g[y] = With(cl'[y], c) /\ g[y] \in Nat
    <3> DEFINE new == cl'
    <3>1. \A y \in Callers : Fine(comp, now, new[y])
      BY <1>5
    <3> HIDE DEF new
    <3>2. \A y \in Callers : Shares(new, c)[y] = With(new[y], c) /\ With(new[y], c) \in Nat
      BY <3>1, SharesNat
    <3> QED BY <3>2 DEF new
  <2>3. /\ f[x] = W /\ g[x] = V /\ W \in Nat /\ V \in Nat /\ \A y \in Callers : y # x => g[y] = f[y]
    BY <1>4, <2>1, <2>2
  <2>4. R \in Nat /\ Q \in Nat
    BY <1>2, <1>3, ReturningNat
  <2>5. bal[c] \in Int /\ gone[c] \in Nat /\ bal'[c] \in Int /\ gone'[c] \in Nat
    BY <1>2, <1>3, Part
  <2>6. bal'[c] + gone'[c] + Q + V = bal[c] + gone[c] + R + W
    BY <1>1 DEF Even
  <2>7. Account(c) = bal[c] + gone[c] + R + F /\ Account(c)' = bal'[c] + gone'[c] + Q + G
    BY DEF Account, Shares
  <2> HIDE DEF f, g, W, V, R, Q
  <2>8. F \in Nat /\ G \in Nat /\ G = F - f[x] + g[x]
    BY <2>1, <2>2, <2>3, Constants, TotalChanged
  <2> HIDE DEF F, G
  <2>9. bal'[c] + gone'[c] + Q + G = bal[c] + gone[c] + R + F
    BY <2>3, <2>4, <2>5, <2>6, <2>8
  <2> QED BY <2>7, <2>9
<1> QED BY <1>2, <1>7, <1>8

LEMMA WorkedKeeps ==
  ASSUME CompositeInv, Worked
  PROVE  /\ CompositeInv' /\ comp' = comp /\ now' = now
         /\ \A c \in Constituents : Account(c)' = Account(c)
<1>1. /\ comp' = comp /\ now' = now
      /\ bal' \in [Constituents -> Int] /\ \A c \in Constituents : bal'[c] <= comp.cap[c]
      /\ gone' \in [Constituents -> Nat] /\ hold' \in [Constituents -> Nat]
      /\ (Calm(comp) => \A c \in Constituents : hold'[c] = 0)
      /\ ad' \in Seq(Work(comp))
      /\ SameCalls
  BY DEF Worked
<1>2. Ledger /\ ad \in Seq(Work(comp))
  BY DEF CompositeInv
<1>3. /\ cl' = [x \in Callers |-> cl'[x]]
      /\ \A x \in Callers : /\ Fine(comp, now, cl'[x])
                            /\ cl'[x].items = cl[x].items /\ cl'[x].got = cl[x].got
  BY <1>1 DEF SameCalls
<1>4. Ledger'
  BY <1>1, <1>2 DEF Ledger, Constituents
<1>5. CompositeInv'
  BY <1>1, <1>3, <1>4 DEF CompositeInv
<1>6. ASSUME NEW c \in Constituents
      PROVE  Account(c)' = Account(c)
  <2> DEFINE R == Returning(ad, c)
             Q == Returning(ad', c)
             F == Total(Shares(cl, c), Callers)
  <2>1. Shares(cl', c) = Shares(cl, c)
    <3>1. \A x \in Callers : With(cl'[x], c) = With(cl[x], c)
      BY <1>3 DEF With, CostsOf, Taken
    <3> QED BY <3>1 DEF Shares
  <2>2. bal'[c] + gone'[c] + Q = bal[c] + gone[c] + R
    BY DEF Worked
  <2>3. Account(c) = bal[c] + gone[c] + R + F /\ Account(c)' = bal'[c] + gone'[c] + Q + F
    BY <2>1 DEF Account, Shares
  <2>4. bal[c] + gone[c] + R \in Int /\ F \in Nat
    <3>1. R \in Nat /\ bal[c] \in Int /\ gone[c] \in Nat
      BY <1>2, ReturningNat, Part
    <3>2. F \in Nat
      <4>1. \A y \in Callers : Fine(comp, now, cl[y])
        BY DEF CompositeInv
      <4> QED BY <4>1, SharesNat
    <3> HIDE DEF R, F
    <3> QED BY <3>1, <3>2
  <2> HIDE DEF R, Q, F
  <2> QED BY <2>2, <2>3, <2>4
<1> QED BY <1>1, <1>5, <1>6

LEMMA TickedKeeps ==
  ASSUME CompositeInv, Ticked
  PROVE  /\ CompositeInv' /\ comp' = comp /\ now' = now + 1
         /\ \A c \in Constituents : Account(c)' = Account(c) + comp.rate[c]
<1>1. /\ comp' = comp /\ now' = now + 1 /\ now' \in 0..comp.until /\ hold' = hold /\ ad' = ad
      /\ bal' \in [Constituents -> Int] /\ \A c \in Constituents : bal'[c] <= comp.cap[c]
      /\ gone' \in [Constituents -> Nat]
      /\ SameCalls
  BY DEF Ticked
<1>2. Ledger /\ ad \in Seq(Work(comp))
  BY DEF CompositeInv
<1>3. /\ cl' = [x \in Callers |-> cl'[x]]
      /\ \A x \in Callers : /\ Fine(comp, now', cl'[x])
                            /\ cl'[x].items = cl[x].items /\ cl'[x].got = cl[x].got
  BY <1>1 DEF SameCalls
<1>4. Ledger'
  BY <1>1, <1>2 DEF Ledger, Constituents
<1>5. CompositeInv'
  BY <1>1, <1>2, <1>3, <1>4 DEF CompositeInv
<1>6. ASSUME NEW c \in Constituents
      PROVE  Account(c)' = Account(c) + comp.rate[c]
  <2> DEFINE R == Returning(ad, c)
             F == Total(Shares(cl, c), Callers)
  <2>1. Shares(cl', c) = Shares(cl, c)
    <3>1. \A x \in Callers : With(cl'[x], c) = With(cl[x], c)
      BY <1>3 DEF With, CostsOf, Taken
    <3> QED BY <3>1 DEF Shares
  <2>2. bal'[c] + gone'[c] = bal[c] + gone[c] + comp.rate[c]
    BY DEF Ticked
  <2>3. Account(c) = bal[c] + gone[c] + R + F /\ Account(c)' = bal'[c] + gone'[c] + R + F
    BY <1>1, <2>1 DEF Account, Shares
  <2>4. bal[c] \in Int /\ gone[c] \in Nat /\ R \in Nat /\ F \in Nat /\ comp.rate[c] \in Nat
    <3>1. R \in Nat /\ bal[c] \in Int /\ gone[c] \in Nat /\ comp.rate[c] \in Nat
      BY <1>2, ReturningNat, Part
    <3>2. F \in Nat
      <4>1. \A y \in Callers : Fine(comp, now, cl[y])
        BY DEF CompositeInv
      <4> QED BY <4>1, SharesNat
    <3> QED BY <3>1, <3>2
  <2> HIDE DEF R, F
  <2> QED BY <2>2, <2>3, <2>4
<1> QED BY <1>1, <1>5, <1>6

LEMMA CallerSteps ==
  ASSUME CompositeInv, NEW x \in comp.who, CallerNext(x)
  PROVE  x \in Callers /\ Stepped(x)
<1>1. x \in Callers
  BY Shape DEF CompositeInv
<1> QED BY <1>1, StartsStep, PeekOneSteps, CommitOneSteps, ReserveOneSteps, UndoOneSteps, FreeOneSteps,
           ReserveBottleneckSteps, AskTakesStep, ReturnTakesStep, UseUpSteps, UnusedSteps, SettleSteps
        DEF CallerNext

(* Every step keeps the invariant and the accounts. *)
LEMMA CompositeKept ==
  ASSUME CompositeInv, Balanced, [CompositeNext]_compositeVars
  PROVE  CompositeInv' /\ Balanced'
<1>1. ASSUME CompositeInv', comp' = comp, now' = now, \A c \in Constituents : Account(c)' = Account(c)
      PROVE  CompositeInv' /\ Balanced'
  BY <1>1 DEF Balanced, Constituents
<1>2. CASE UNCHANGED compositeVars
  <2>1. /\ comp' = comp /\ now' = now /\ bal' = bal /\ hold' = hold /\ cl' = cl /\ ad' = ad /\ gone' = gone
    BY <1>2 DEF compositeVars
  <2>2. CompositeInv'
    BY <2>1 DEF CompositeInv, Ledger, Constituents
  <2>3. \A c \in Constituents : Account(c)' = Account(c)
    BY <2>1 DEF Account, Shares
  <2> QED BY <1>1, <2>1, <2>2, <2>3
<1>3. CASE \E x \in comp.who : CallerNext(x)
  <2>1. PICK x \in comp.who : CallerNext(x)
    BY <1>3
  <2>2. x \in Callers /\ Stepped(x)
    BY <2>1, CallerSteps
  <2>3. CompositeInv' /\ comp' = comp /\ now' = now /\ \A c \in Constituents : Account(c)' = Account(c)
    BY <2>2, SteppedKeeps
  <2> QED BY <1>1, <2>3
<1>4. ASSUME Worked PROVE CompositeInv' /\ Balanced'
  <2>1. CompositeInv' /\ comp' = comp /\ now' = now /\ \A c \in Constituents : Account(c)' = Account(c)
    BY <1>4, WorkedKeeps
  <2> QED BY <1>1, <2>1
<1>5. CASE \E call \in comp.calls : Administer(call)
  BY <1>4, <1>5, AdministerSteps
<1>6. CASE DoNext
  BY <1>4, <1>6, DoNextSteps
<1>7. CASE \E c \in comp.rivals : Rival(c)
  BY <1>4, <1>7, RivalSteps
<1>8. CASE Tick
  <2>1. /\ CompositeInv' /\ comp' = comp /\ now' = now + 1
        /\ \A c \in Constituents : Account(c)' = Account(c) + comp.rate[c]
    BY <1>8, TickSteps, TickedKeeps
  <2>2. Ledger /\ now \in Nat
    BY Shape DEF CompositeInv
  <2>3. ASSUME NEW c \in Constituents
        PROVE  Account(c)' = comp.cap[c] + comp.rate[c] * (now + 1)
    <3> DEFINE A == Account(c)
               B == Account(c)'
               r == comp.rate[c]
               p == comp.cap[c]
    <3>1. r \in Nat /\ p \in Nat
      BY <2>2, Part
    <3>2. A = p + r * now /\ B = A + r
      BY <2>1 DEF Balanced
    <3> HIDE DEF A, B, r, p
    <3>3. r * (now + 1) = r * now + r /\ r * now \in Nat
      BY <2>2, <3>1, Products
    <3>4. B = p + r * (now + 1)
      BY <3>1, <3>2, <3>3
    <3> QED BY <3>4 DEF B, r, p
  <2> QED BY <2>1, <2>3 DEF Balanced, Constituents
<1> QED BY <1>2, <1>3, <1>5, <1>6, <1>7, <1>8 DEF CompositeNext

LEMMA BalancedStarts ==
  ASSUME CompositeInit
  PROVE  Balanced
<1>1. /\ now = 0 /\ bal = comp.cap /\ ad = <<>> /\ gone = [c \in Constituents |-> 0]
      /\ cl = [x \in Callers |-> Idle]
  BY DEF CompositeInit, Constituents
<1>2. Ledger
  BY CompositeStarts DEF CompositeInv
<1> SUFFICES ASSUME NEW c \in Constituents
             PROVE  Account(c) = comp.cap[c] + comp.rate[c] * now
  BY DEF Balanced
<1>3. comp.cap[c] \in Nat /\ comp.rate[c] \in Nat
  BY <1>2, Part
<1>4. Returning(ad, c) = 0
  BY <1>1, ReturningEmpty
<1>5. Total(Shares(cl, c), Callers) = 0
  <2>1. Idle.items = <<>> /\ Idle.got = <<>>
    BY DEF Idle
  <2>2. With(Idle, c) = 0
    BY <2>1, NoneWith
  <2>3. \A x \in Callers : Shares(cl, c)[x] = 0
    BY <1>1, <2>2 DEF Shares
  <2> QED BY <2>3, TotalZero
<1>6. comp.rate[c] * now = 0
  BY <1>1, <1>3
<1> QED BY <1>1, <1>3, <1>4, <1>5, <1>6 DEF Account

(* Every caller is where the algorithms of limiter.rs can have brought it  *)
(* (acquire_all, reserve_each, reserve_all, step_all, release_all), and    *)
(* the units of every constituent add up, whatever the interleaving.       *)
THEOREM CompositeIsSound == CompositeSpec => [](CompositeInv /\ Balanced)
<1>1. CompositeInit => CompositeInv /\ Balanced
  BY CompositeStarts, BalancedStarts
<1>2. CompositeInv /\ Balanced /\ [CompositeNext]_compositeVars => (CompositeInv /\ Balanced)'
  BY CompositeKept
<1> QED BY <1>1, <1>2, PTL DEF CompositeSpec

-----------------------------------------------------------------------------
(* What a request is charged. *)

(* An entry that is known is charged to one dimension. *)
Known(t, name) == Target(t, name) # ""
Found(t, name) == \E k \in DOMAIN t.dims : t.dims[k].name = name
Named(t, name) == {k \in DOMAIN t.aliases : t.aliases[k].name = name}

LEMMA TargetParts ==
  ASSUME NEW t, NEW name, Known(t, name)
  PROVE  \/ Found(t, name) /\ Target(t, name) = name
         \/ Named(t, name) # {} /\ Target(t, name) = t.aliases[Min(Named(t, name))].target
BY Zenon DEF Known, Target, Found, Named

LEMMA OneDimension ==
  ASSUME NEW t, NEW A, NEW B, t.dims \in Seq(A), t.aliases \in Seq(B), Builds(t),
         NEW name, Known(t, name)
  PROVE  \E k \in DOMAIN t.dims : /\ t.dims[k].name = Target(t, name)
                                  /\ \A j \in DOMAIN t.dims : t.dims[j].name = Target(t, name) => j = k
<1> DEFINE aka == Named(t, name)
           s == t.aliases
<1>1. (Found(t, name) /\ Target(t, name) = name) \/ (aka # {} /\ Target(t, name) = t.aliases[Min(aka)].target)
  BY TargetParts
<1>2. aka \subseteq Nat /\ aka \subseteq DOMAIN t.aliases
  <2>1. s \in Seq(B)
    OBVIOUS
  <2> HIDE DEF s
  <2>2. DOMAIN s \subseteq Nat
    BY <2>1
  <2> QED BY <2>2 DEF s, Named
<1>3. \E k \in DOMAIN t.dims : t.dims[k].name = Target(t, name)
  <2>1. CASE Found(t, name) /\ Target(t, name) = name
    BY <2>1 DEF Found
  <2>2. CASE aka # {} /\ Target(t, name) = t.aliases[Min(aka)].target
    <3>1. aka # {} /\ Target(t, name) = t.aliases[Min(aka)].target
      BY <2>2
    <3> HIDE DEF aka
    <3>2. Min(aka) = CHOOSE i \in aka : \A j \in aka : i <= j
      BY Zenon DEF Min
    <3>3. Min(aka) \in aka
      BY <1>2, <3>1, <3>2, MinMember
    <3>4. Min(aka) \in DOMAIN t.aliases
      BY <1>2, <3>3
    <3> QED BY <3>1, <3>4 DEF Builds
  <2> QED BY <1>1, <2>1, <2>2
<1>4. PICK k \in DOMAIN t.dims : t.dims[k].name = Target(t, name)
  BY <1>3
<1>5. \A j \in DOMAIN t.dims : t.dims[j].name = Target(t, name) => j = k
  BY <1>4, Zenon DEF Builds
<1> QED BY <1>4, <1>5

(* A part is at most the whole. *)
LEMMA PartOfTotal ==
  ASSUME NEW D, IsFiniteSet(D), NEW k \in D, NEW f, \A x \in D : f[x] \in Nat
  PROVE  f[k] <= Total(f, D) /\ Total(f, D) \in Nat
<1> DEFINE g == [x \in D |-> IF x = k THEN 0 ELSE f[x]]
<1>1. /\ \A x \in D : g[x] \in Nat
      /\ \A x \in D : x # k => g[x] = f[x]
      /\ g[k] = 0
  OBVIOUS
<1> HIDE DEF g
<1>2. Total(f, D) \in Nat /\ Total(g, D) \in Nat /\ Total(g, D) = Total(f, D) - f[k] + g[k]
  BY <1>1, TotalChanged
<1>3. f[k] \in Nat
  OBVIOUS
<1> QED BY <1>1, <1>2, <1>3

LEMMA PrefixBelow ==
  ASSUME NEW L \in Nat, NEW n \in 0..L, NEW f, \A x \in 1..L : f[x] \in Nat
  PROVE  Total(f, 1..n) <= Total(f, 1..L) /\ Total(f, 1..n) \in Nat /\ Total(f, 1..L) \in Nat
<1> DEFINE S == 1..n
           T == (n + 1)..L
<1>1. S \cup T = 1..L /\ S \cap T = {}
  OBVIOUS
<1>2. IsFiniteSet(S)
  BY FS_Interval
<1>3. IsFiniteSet(T)
  BY FS_Interval
<1>4. \A x \in S \cup T : f[x] \in Nat
  BY <1>1
<1> HIDE DEF S, T
<1>5. /\ Total(f, S) \in Nat /\ Total(f, T) \in Nat /\ Total(f, S \cup T) = Total(f, S) + Total(f, T)
  BY <1>1, <1>2, <1>3, <1>4, TotalUnion
<1>6. Total(f, S \cup T) = Total(f, 1..L)
  BY <1>1
<1>7. Total(f, S) = Total(f, 1..n)
  BY DEF S
<1> QED BY <1>5, <1>6, <1>7

LEMMA ChargesAddUp ==
  ASSUME NEW t, NEW A, NEW B, t.dims \in Seq(A), t.aliases \in Seq(B), Builds(t),
         NEW r \in Seq(Costings), \A k \in DOMAIN r : Known(t, r[k].name),
         TotalCost(r) <= U32Max
  PROVE  SumOver([k \in DOMAIN t.dims |-> CostFor(t, t.dims[k].name, r)], DOMAIN t.dims) = TotalCost(r)
<1> DEFINE L == Len(r)
           D == DOMAIN t.dims
           costs == [k \in DOMAIN r |-> r[k].n]
           up(k) == Charged(t, t.dims[k].name, r)
           H(n) == [k \in D |-> up(k)[n]]
           Right(n) == Total(H(n), D) = Total(costs, 1..n)
           bad == {n \in 0..L : ~Right(n)}
<1>1. /\ L \in Nat /\ DOMAIN r = 1..L
      /\ \A n \in 1..L : r[n].n \in Nat /\ costs[n] = r[n].n /\ costs[n] \in Nat
  <2>1. L \in Nat /\ DOMAIN r = 1..L /\ \A n \in 1..L : r[n] \in Costings
    OBVIOUS
  <2>2. \A n \in 1..L : r[n].n \in Nat
    BY <2>1 DEF Costings
  <2> QED BY <2>1, <2>2
<1>2. IsFiniteSet(D)
  <2> DEFINE s == t.dims
  <2>1. s \in Seq(A)
    OBVIOUS
  <2> HIDE DEF s
  <2>2. Len(s) \in Nat /\ DOMAIN s = 1..Len(s)
    BY <2>1
  <2>3. IsFiniteSet(1..Len(s))
    BY <2>2, FS_Interval
  <2> QED BY <2>2, <2>3 DEF s
<1>3. TotalCost(r) = Total(costs, 1..L) /\ U32Max \in Nat
  BY <1>1, SumIsTotal, Constants DEF TotalCost
<1>4. \A k \in D : Charges(t, t.dims[k].name, r, up(k), L)
  BY <1>1, ChargedAdds
<1>5. \A k \in D : \A n \in 0..L : up(k)[n] \in Nat
  BY ChargedNat
<1>6. ASSUME NEW n \in 0..L, NEW k \in D
      PROVE  H(n)[k] = up(k)[n] /\ H(n)[k] \in Nat
  BY <1>5
<1>7. ASSUME NEW k \in D
      PROVE  up(k)[0] = 0 /\ \A n \in 1..L :
               up(k)[n] = IF Target(t, r[n].name) = t.dims[k].name
                            THEN MinOf(U32Max, up(k)[n - 1] + r[n].n) ELSE up(k)[n - 1]
  <2>1. Charges(t, t.dims[k].name, r, up(k), L)
    BY <1>4
  <2> HIDE DEF up
  <2> QED BY <2>1 DEF Charges
<1> HIDE DEF costs, up, D
<1>8. bad = {}
  <2> SUFFICES ASSUME bad # {} PROVE FALSE
    OBVIOUS
  <2>1. bad \subseteq Nat
    BY <1>1
  <2>2. PICK m \in bad : \A i \in bad : m <= i
    <3> HIDE DEF bad
    <3> QED BY <2>1, LeastNumber
  <2>3. m \in 0..L /\ ~Right(m)
    OBVIOUS
  <2>4. m # 0
    <3>1. Total(costs, 1..0) = 0
      BY TotalZero
    <3>2. \A k \in D : H(0)[k] = 0
      BY <1>7
    <3>3. Total(H(0), D) = 0
      <4> HIDE DEF H
      <4> QED BY <3>2, TotalZero
    <3> QED BY <2>3, <3>1, <3>3
  <2>5. m - 1 \in 0..L /\ m \in 1..L /\ m \in Nat \ {0} /\ m - 1 < m /\ m - 1 \in Nat
    BY <1>1, <2>3, <2>4
  <2>6. Right(m - 1)
    <3>1. m - 1 \notin bad
      <4> HIDE DEF bad
      <4> QED BY <2>2, <2>5
    <3> QED BY <2>5, <3>1
  <2> DEFINE f == H(m - 1)
             g == H(m)
             n == r[m].n
             X == Target(t, r[m].name)
  <2>7. PICK q \in D : t.dims[q].name = X /\ \A j \in D : t.dims[j].name = X => j = q
    <3> DEFINE name == r[m].name
    <3>2. Known(t, name) /\ X = Target(t, name)
      BY <1>1, <2>5
    <3> HIDE DEF name, X
    <3> QED BY <3>2, OneDimension DEF D
  <2>8. /\ \A k \in D : f[k] = up(k)[m - 1] /\ f[k] \in Nat
        /\ \A k \in D : g[k] = up(k)[m] /\ g[k] \in Nat
    BY <1>6, <2>5
  <2>9. n \in Nat /\ costs[m] = n
    BY <1>1, <2>5
  <2>10. \A k \in D : g[k] = IF X = t.dims[k].name THEN MinOf(U32Max, f[k] + n) ELSE f[k]
    BY <1>7, <2>5, <2>8
  <2>11. Total(f, D) = Total(costs, 1..(m - 1))
    BY <2>6
  <2>12. Total(g, D) # Total(costs, 1..m)
    BY <2>3
  <2> HIDE DEF f, g, n, X, H
  <2>13. \A k \in D : k # q => g[k] = f[k]
    BY <2>7, <2>10
  <2>14. g[q] = MinOf(U32Max, f[q] + n)
    BY <2>7, <2>10
  <2>15. Total(g, D) = Total(f, D) - f[q] + g[q]
    <3>1. \A k \in D : f[k] \in Nat
      BY <2>8
    <3>2. \A k \in D : g[k] \in Nat
      BY <2>8
    <3> QED BY <1>2, <2>13, <3>1, <3>2, TotalChanged
  <2>16. f[q] <= Total(f, D) /\ Total(f, D) \in Nat /\ f[q] \in Nat
    BY <1>2, <2>7, <2>8, PartOfTotal
  <2>17. /\ Total(costs, 1..m) = Total(costs, 1..(m - 1)) + n
         /\ Total(costs, 1..m) <= Total(costs, 1..L)
         /\ Total(costs, 1..m) \in Nat /\ Total(costs, 1..L) \in Nat
    <3>1. \A k \in 1..m : costs[k] \in Nat
      BY <1>1, <2>5
    <3>2. Total(costs, 1..m) = Total(costs, 1..(m - 1)) + costs[m]
      BY <2>5, <3>1, PrefixTotal
    <3>3. m \in 0..L /\ \A k \in 1..L : costs[k] \in Nat
      BY <1>1, <2>5
    <3>4. Total(costs, 1..m) <= Total(costs, 1..L) /\ Total(costs, 1..m) \in Nat /\ Total(costs, 1..L) \in Nat
      BY <1>1, <3>3, PrefixBelow
    <3> QED BY <2>9, <3>2, <3>4
  <2>18. f[q] + n <= U32Max
    BY <1>3, <2>9, <2>11, <2>16, <2>17
  <2>19. g[q] = f[q] + n
    BY <1>3, <2>9, <2>14, <2>16, <2>18 DEF MinOf
  <2> QED BY <2>9, <2>11, <2>12, <2>15, <2>16, <2>17, <2>19
<1>9. Right(L)
  <2>1. L \in 0..L
    BY <1>1
  <2>2. L \notin bad
    BY <1>8
  <2> HIDE DEF H
  <2> QED BY <2>1, <2>2
<1> DEFINE sums == [k \in DOMAIN t.dims |-> CostFor(t, t.dims[k].name, r)]
<1>10. sums = H(L)
  BY DEF CostFor, up, D
<1>11. SumOver(sums, DOMAIN t.dims) = Total(H(L), D)
  <2>1. SumOver(sums, D) = Total(sums, D)
    BY SumIsTotal
  <2> QED BY <1>10, <2>1 DEF D
<1> QED BY <1>3, <1>9, <1>11

-----------------------------------------------------------------------------

LEMMA TypesHold ==
  ASSUME CompositeInv
  PROVE  CompositeTypeOK
<1>1. Ledger /\ ad \in Seq(Work(comp))
  BY DEF CompositeInv
<1>2. \A c \in Constituents : bal[c] <= comp.cap[c] /\ hold[c] \in Nat /\ gone[c] \in Nat
  BY <1>1, Part
<1>3. ASSUME NEW x \in Callers
      PROVE  /\ cl[x].pc \in Pcs
             /\ cl[x].held \subseteq DOMAIN cl[x].items
             /\ \A k \in DOMAIN cl[x].got : cl[x].got[k] \in {Nothing} \cup Nat
             /\ cl[x].pc \in Loops => /\ cl[x].i \in DOMAIN cl[x].ix
                                      /\ \A j \in DOMAIN cl[x].ix : cl[x].ix[j] \in DOMAIN cl[x].items
             /\ cl[x].pc = "undo" => cl[x].stop \in cl[x].i..Len(cl[x].ix)
             /\ cl[x].until \in Nat /\ cl[x].zw \in 0..RaceYields
  <2> DEFINE me == cl[x]
             g == me.got
             s == me.ix
  <2>1. /\ me \in CallSet(comp) /\ me.held \subseteq DOMAIN me.items /\ Place(now, me)
    BY LiveCaller DEF Fine
  <2>2. me.pc \in Pcs /\ g \in Seq(Nat \cup {Nothing}) /\ me.until \in Nat /\ s \in Seq(Nat) /\ me.i \in Nat
        /\ me.stop \in Nat /\ me.zw \in 0..RaceYields
    BY <2>1 DEF CallSet
  <2>3. \A k \in DOMAIN g : g[k] \in {Nothing} \cup Nat
    <3>1. g \in Seq(Nat \cup {Nothing})
      BY <2>2
    <3> HIDE DEF g
    <3>2. \A k \in DOMAIN g : g[k] \in Nat \cup {Nothing}
      BY <3>1
    <3> QED BY <3>2
  <2>4. DOMAIN s = 1..Len(s) /\ Len(s) \in Nat
    <3>1. s \in Seq(Nat)
      BY <2>2
    <3> HIDE DEF s
    <3> QED BY <3>1
  <2>5. me.pc \in Loops => Walks(me)
    BY <2>1 DEF Place
  <2>6. me.pc \in Loops => me.i \in DOMAIN s /\ \A j \in DOMAIN s : s[j] \in DOMAIN me.items
    BY <2>4, <2>5 DEF Walks
  <2>7. me.pc = "undo" => me.i <= me.stop /\ me.stop <= Len(s)
    BY <2>1 DEF Place
  <2>8. me.pc = "undo" => me.stop \in me.i..Len(s)
    BY <2>2, <2>4, <2>7
  <2> QED BY <2>1, <2>2, <2>3, <2>6, <2>8
<1>4. \A k \in DOMAIN ad : ad[k].c \in Constituents /\ ad[k].n \in Nat /\ ad[k].left \in 0..Attempts
  <2>1. \A k \in DOMAIN ad : ad[k] \in Work(comp)
    BY <1>1
  <2> QED BY <2>1, WorkParts
<1>5. now \in 0..comp.until
  BY <1>1 DEF Ledger
<1> QED BY <1>2, <1>3, <1>4, <1>5 DEF CompositeTypeOK

(* No unit is lost, and none is refunded that was not taken: of every      *)
(* constituent, the balance, what callers have, what is about to be        *)
(* refunded and what is gone make up what was ever there.  It covers       *)
(* refund_first after a refusal halfway, release_all on a switch or a      *)
(* drop, settle_costs, drain_to and the default charge.                    *)
THEOREM UnitsAreConserved == CompositeSpec => []UnitsConserved
<1>1. CompositeInv /\ Balanced => UnitsConserved
  <2> SUFFICES ASSUME CompositeInv, Balanced PROVE UnitsConserved
    OBVIOUS
  <2>1. CompositeTypeOK
    BY TypesHold
  <2>2. ASSUME NEW c \in Constituents
        PROVE  bal[c] + gone[c] + Returning(ad, c) + SumOver([x \in Callers |-> With(cl[x], c)], Callers)
                 = comp.cap[c] + comp.rate[c] * now
    <3>1. SumOver([x \in Callers |-> With(cl[x], c)], Callers) = Total(Shares(cl, c), Callers)
      BY SumIsTotal DEF Shares
    <3> QED BY <3>1 DEF Balanced, Account
  <2> QED BY <2>1, <2>2 DEF UnitsConserved
<1> QED BY <1>1, CompositeIsSound, PTL

(* acquire_all and step_all admit only with a grant of every constituent,  *)
(* and a wait only returns when the last of them has matured, although a   *)
(* resume may wake it early.                                               *)
THEOREM AdmittedByAll == CompositeSpec => []PassedAll
<1>1. CompositeInv => PassedAll
  <2> SUFFICES ASSUME CompositeInv, NEW x \in Callers, cl[x].pc = "ok", NEW k \in DOMAIN cl[x].items
               PROVE  cl[x].got[k] # Nothing /\ cl[x].got[k] <= now
    BY DEF PassedAll
  <2>1. Place(now, cl[x])
    BY LiveCaller DEF Fine
  <2> QED BY <2>1 DEF Place
<1> QED BY <1>1, CompositeIsSound, PTL

(* A waiter of step_all that sleeps on its bottleneck has nothing that     *)
(* matures before it wakes, but for the naps of at most RACE_BACKOFF that  *)
(* wait_with makes it take after lost races; without pauses and on Throttles, one that has  *)
(* no deadline never switches more often than MAX_SWITCHES.                *)
THEOREM WaitersHoldLittle == CompositeSpec => []HoldsBounded
<1>1. CompositeInv => HoldsNoMatured
  <2> SUFFICES ASSUME CompositeInv, NEW x \in Callers, Asleep(x), cl[x].pc = "ask", NEW k \in Taken(cl[x])
               PROVE  cl[x].until <= cl[x].got[k] \/ cl[x].until - now <= RaceBackoff
    BY DEF HoldsNoMatured
  <2> DEFINE me == cl[x]
  <2>1. Fine(comp, now, me) /\ now \in Nat
    BY LiveCaller, Shape
  <2>2. Core(comp, me) /\ Place(now, me)
    BY <2>1, FineParts
  <2>3. k \in DOMAIN me.items /\ me.got[k] # Nothing /\ me.until \in Nat
    BY <2>2, CoreParts DEF Taken
  <2>4. HasHeld(me) /\ HeldDue(me) /\ Light(now, me)
    BY <2>2 DEF Place
  <2>5. k \in me.held /\ me.got[k] = me.due
    BY <2>3, <2>4 DEF HasHeld, HeldDue
  <2>6. me.until <= me.due \/ me.until <= now + RaceBackoff
    BY <2>4, <2>5 DEF Light
  <2>7. me.until <= now + RaceBackoff => me.until - now <= RaceBackoff
    BY <2>1, <2>3, Constants
  <2> QED BY <2>5, <2>6, <2>7
<1>2. CompositeInv => SwitchesBounded
  <2> SUFFICES ASSUME CompositeInv, Unpaused, \A c \in Constituents : comp.native[c],
                      NEW x \in Callers, cl[x].dl >= Forever
               PROVE  cl[x].sw <= MaxSwitches
    BY DEF SwitchesBounded
  <2>1. \A call \in comp.calls : call.op \in {"pause", "resume", "sync"}
    BY Shape DEF Valid, CompositeInv
  <2>2. Calm(comp)
    BY <2>1 DEF Calm, Unpaused, Constituents
  <2>3. Patient(comp, cl[x])
    BY LiveCaller DEF Fine
  <2> QED BY <2>2, <2>3 DEF Patient
<1>3. CompositeInv => HoldsBounded
  BY <1>1, <1>2 DEF HoldsBounded
<1> QED BY <1>3, CompositeIsSound, PTL

(* A table that try_build accepts makes cost_for charge every entry of a   *)
(* request to exactly one dimension, through an alias or by name: for a    *)
(* total within u32, the dimensions' costs add up to the request's.        *)
THEOREM CostsAreCharged == CompositeSpec => []EveryCostCharged
<1>1. CompositeInv => EveryCostCharged
  <2> SUFFICES ASSUME CompositeInv, comp.kind = "multi", Built(comp.table), NEW r \in comp.reqs,
                      ~Unknown(comp.table, r), TotalCost(r) <= U32Max
               PROVE  SumOver([k \in DOMAIN comp.table.dims |-> CostFor(comp.table, comp.table.dims[k].name, r)],
                              DOMAIN comp.table.dims) = TotalCost(r)
    BY DEF EveryCostCharged
  <2> DEFINE t == comp.table
             A == [name : STRING, limiter : Constituents]
             B == [name : STRING, target : STRING]
  <2>1. ValidParts(comp)
    BY Shape DEF Valid, CompositeInv
  <2>2. t.dims \in Seq(A) /\ t.aliases \in Seq(B) /\ r \in Seq(Costings)
    BY <2>1 DEF ValidParts, Constituents
  <2>3. Builds(t) /\ \A k \in DOMAIN r : Known(t, r[k].name)
    BY Zenon DEF Built, Unknown, Known
  <2> HIDE DEF t, A, B
  <2>4. SumOver([k \in DOMAIN t.dims |-> CostFor(t, t.dims[k].name, r)], DOMAIN t.dims) = TotalCost(r)
    BY <2>2, <2>3, ChargesAddUp
  <2> QED BY <2>4 DEF t
<1> QED BY <1>1, CompositeIsSound, PTL

=============================================================================
