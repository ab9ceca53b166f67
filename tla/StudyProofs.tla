------------------------------ MODULE StudyProofs ------------------------------
(***************************************************************************)
(* Theorems about the components of Studies, for every value of their      *)
(* constants.  As in the other groups of commands, only the component in   *)
(* focus moves, so that each is argued alone.                              *)
(***************************************************************************)
EXTENDS Studies, TLAPS, FiniteSetTheorems, SequenceTheorems, WellFoundedInduction

(* A step of the whole leaves the focus, and is one of the component that  *)
(* has it, or leaves its variables.                                        *)
LEMMA FocusMoves ==
    ASSUME [StudiesNext]_studiesVars
    PROVE  /\ focus' = focus
           /\ focus = "features" => Reduced!FeatureNext \/ UNCHANGED featuresVars
           /\ focus = "calibration" => Calibrated!CalibrationNext \/ UNCHANGED calibrationVars
           /\ focus = "stream" => Stream!Next \/ UNCHANGED streamVars
           /\ focus = "controls" => Controls!ControlNext \/ UNCHANGED controlsVars
BY SMT DEF StudiesNext, StudiesMoves, studiesVars, controlsVars,
           featuresVars, calibrationVars, streamVars
-----------------------------------------------------------------------------
(***************************************************************************)
(* Least and greatest elements, and induction over 0..n for a property     *)
(* given as the set of its instances.                                      *)
(***************************************************************************)
LEMMA LeastElement ==
    ASSUME NEW S \in SUBSET Nat, S # {}
    PROVE  \E m \in S : \A n \in S : m <= n
<1>1. IsWellFoundedOn(OpToRel(<, Nat), Nat)
  BY NatLessThanWellFounded
<1>2. PICK m \in S : \A n \in S : ~(<<n, m>> \in OpToRel(<, Nat))
  BY <1>1, WFMin
<1>3. \A n \in S : ~(n < m)
  BY <1>2 DEF OpToRel
<1> QED BY <1>3

LEMMA UpToInduction ==
    ASSUME NEW n \in Nat, NEW S, 0 \in S,
           \A k \in 0..n : k \in S /\ k + 1 <= n => k + 1 \in S
    PROVE  \A k \in 0..n : k \in S
<1>1. SUFFICES ASSUME NEW b \in 0..n, b \notin S PROVE FALSE
  OBVIOUS
<1> DEFINE Bad == {k \in Nat : k <= n /\ k \notin S}
<1>2. Bad \in SUBSET Nat /\ Bad # {}
  BY <1>1
<1>3. PICK m \in Bad : \A k \in Bad : m <= k
  <2> HIDE DEF Bad
  <2> QED BY <1>2, LeastElement
<1>4. m # 0 /\ m - 1 \in 0..n /\ m - 1 \in S
  BY <1>3
<1> QED BY <1>3, <1>4

LEMMA GreatestElement ==
    ASSUME NEW b \in Nat, NEW S \in SUBSET (0..b), S # {}
    PROVE  \E m \in S : \A k \in S : k <= m
<1> DEFINE D == {b - k : k \in S}
<1>1. PICK d \in D : \A k \in D : d <= k
  <2>1. \A k \in S : k \in 0..b /\ b - k \in Nat
    OBVIOUS
  <2>2. D \in SUBSET Nat /\ D # {}
    BY <2>1
  <2> HIDE DEF D
  <2> QED BY <2>2, LeastElement
<1>2. PICK m \in S : d = b - m
  BY <1>1
<1>3. \A k \in S : d <= b - k
  BY <1>1
<1>4. \A k \in S : k \in 0..b
  OBVIOUS
<1> QED BY <1>2, <1>3, <1>4

LEMMA MaxIsGreatest ==
    ASSUME NEW b \in Nat, NEW S \in SUBSET (0..b), S # {}
    PROVE  /\ Reduced!Max(S) \in S /\ \A k \in S : k <= Reduced!Max(S)
           /\ Calibrated!Max(S) \in S /\ \A k \in S : k <= Calibrated!Max(S)
<1>1. PICK m \in S : \A k \in S : k <= m
  BY GreatestElement
<1>2. m \in S /\ \A k \in S : m >= k
  BY <1>1
<1>3. Reduced!Max(S) \in S /\ \A k \in S : Reduced!Max(S) >= k
  BY <1>2 DEF Reduced!Max
<1>4. Calibrated!Max(S) \in S /\ \A k \in S : Calibrated!Max(S) >= k
  BY <1>2 DEF Calibrated!Max
<1> QED BY <1>3, <1>4

-----------------------------------------------------------------------------
(***************************************************************************)
(* The elimination of redundant features.  A feature removed as an exact   *)
(* combination was determined, at that moment, by features that stayed;    *)
(* those of them that were removed later were determined in their turn,    *)
(* or were removed for a finite inflation.  So one completes what is kept  *)
(* backwards, from the last removal to the first.                          *)
(***************************************************************************)
Feature == Reduced!Range(FeatureColumns)

(* What determines the k-th feature removed, if anything does.             *)
ExplainedWhenRemoved(k) ==
    LET f == removed[k].feature
        left == Reduced!Range(remaining) \cup {removed[j].feature : j \in (k + 1)..Len(removed)}
    IN  \E h \in groups : h.vif = FeatureExact /\ f \in h.members /\ h.members \ {f} \subseteq left

FeatureInv ==
    /\ groups \in FeatureRedundancies
    /\ reduction \in {"idle", "reducing", "reduced"}
    /\ remaining \in Seq(Feature)
    /\ removed \in Seq([feature : Feature, vif : Nat])
    /\ Len(remaining) + Len(removed) = Len(FeatureColumns)
    /\ \A k \in 1..Len(removed) : removed[k].vif = FeatureExact => ExplainedWhenRemoved(k)

LEMMA FeatureConstants ==
    /\ FeatureColumns \in Seq(Feature)
    /\ FeatureExact \in Nat /\ FeatureExact > 1 /\ FeatureMinFeatures \in Nat
    /\ \A explained \in FeatureRedundancies : \A g \in explained : g.vif \in 1..FeatureExact
BY StudiesAssumption DEF StudiesAssumption, Reduced!FeatureAuditAssumption, Feature

(* The inflation of a feature is that of a group that is there as a whole, *)
(* or that of a feature nothing explains.                                  *)
LEMMA VifIsOfAGroup ==
    ASSUME groups \in FeatureRedundancies, NEW f, NEW S
    PROVE  /\ Reduced!Vif(f, S) \in 1..FeatureExact
           /\ Reduced!Vif(f, S) = FeatureExact =>
                 \E h \in groups : h.vif = FeatureExact /\ f \in h.members /\ h.members \subseteq S
<1> DEFINE vifs == {1} \cup {g.vif : g \in {h \in groups : f \in h.members /\ h.members \subseteq S}}
<1>1. vifs \in SUBSET (0..FeatureExact) /\ vifs # {} /\ \A v \in vifs : v \in 1..FeatureExact
  BY FeatureConstants
<1>2. Reduced!Vif(f, S) \in vifs
  <2>1. Reduced!Max(vifs) \in vifs
    <3> HIDE DEF vifs
    <3> QED BY <1>1, FeatureConstants, MaxIsGreatest
  <2> QED BY <2>1 DEF Reduced!Vif
<1> QED BY <1>1, <1>2, FeatureConstants

(* A table of features has a worst one.                                    *)
LEMMA WorstIsThere ==
    ASSUME groups \in FeatureRedundancies, NEW columns \in Seq(Feature), columns # <<>>
    PROVE  Reduced!Worst(columns) \in 1..Len(columns)
<1> DEFINE inflation(i) == Reduced!InflationOf(columns[i], Reduced!Range(columns))
           values == {inflation(i) : i \in 1..Len(columns)}
<1>1. \A i \in 1..Len(columns) : inflation(i) \in 0..FeatureExact
  BY VifIsOfAGroup, FeatureConstants DEF Reduced!InflationOf
<1>2. Len(columns) \in Nat /\ 1 \in 1..Len(columns) /\ DOMAIN columns = 1..Len(columns)
  OBVIOUS
<1> HIDE DEF inflation
<1>3. PICK v \in values : \A w \in values : w <= v
  <2>1. values \in SUBSET (0..FeatureExact) /\ values # {}
    BY <1>1, <1>2
  <2> HIDE DEF values
  <2> QED BY <2>1, FeatureConstants, GreatestElement
<1> DEFINE worst == {i \in 1..Len(columns) : inflation(i) = v}
<1>4. PICK m \in worst : \A i \in worst : m <= i
  <2>1. worst \in SUBSET Nat /\ worst # {}
    BY <1>3
  <2> HIDE DEF worst
  <2> QED BY <2>1, LeastElement
<1>5. \A j \in DOMAIN columns : inflation(j) < inflation(m) \/ (inflation(j) = inflation(m) /\ m <= j)
  <2> SUFFICES ASSUME NEW j \in 1..Len(columns)
               PROVE  inflation(j) < inflation(m) \/ (inflation(j) = inflation(m) /\ m <= j)
    BY <1>2
  <2>1. inflation(j) <= v /\ inflation(j) \in Nat /\ v \in Nat /\ inflation(m) = v
    BY <1>1, <1>3, <1>4
  <2>2. CASE inflation(j) = v
    BY <1>4, <2>1, <2>2
  <2>3. CASE inflation(j) # v
    BY <2>1, <2>3
  <2> QED BY <2>2, <2>3
<1>6. m \in DOMAIN columns
  BY <1>2, <1>4
<1>7. Reduced!Worst(columns) \in DOMAIN columns
  BY <1>5, <1>6 DEF Reduced!Worst, inflation
<1> QED BY <1>2, <1>7

LEMMA FunctionIsSeq ==
    ASSUME NEW n \in Nat, NEW S, NEW f \in [1..n -> S]
    PROVE  f \in Seq(S) /\ Len(f) = n
OBVIOUS

(* A sequence without its i-th element.                                    *)
LEMMA Dropped ==
    ASSUME NEW S, NEW s \in Seq(S), NEW i \in 1..Len(s)
    PROVE  LET t == SubSeq(s, 1, i - 1) \o SubSeq(s, i + 1, Len(s))
           IN  /\ t \in Seq(S) /\ Len(t) = Len(s) - 1
               /\ \A j \in 1..(Len(s) - 1) : t[j] = IF j < i THEN s[j] ELSE s[j + 1]
<1> DEFINE a == SubSeq(s, 1, i - 1)
           b == SubSeq(s, i + 1, Len(s))
           t == a \o b
<1>1. /\ a \in Seq(S) /\ Len(a) = i - 1 /\ \A j \in 1..(i - 1) : a[j] = s[j]
      /\ b \in Seq(S) /\ Len(b) = Len(s) - i /\ \A j \in 1..(Len(s) - i) : b[j] = s[i + j]
  OBVIOUS
<1> HIDE DEF a, b
<1>2. t \in Seq(S) /\ Len(t) = Len(a) + Len(b)
  BY <1>1, ConcatProperties
<1>3. \A j \in 1..Len(t) : t[j] = IF j <= Len(a) THEN a[j] ELSE b[j - Len(a)]
  BY <1>1, <1>2, ConcatProperties
<1> HIDE DEF t
<1>4. Len(a) = i - 1 /\ Len(t) = Len(s) - 1 /\ i \in Nat /\ Len(s) \in Nat
  BY <1>1, <1>2
<1>5. ASSUME NEW j \in 1..(Len(s) - 1) PROVE t[j] = IF j < i THEN s[j] ELSE s[j + 1]
  <2>1. CASE j < i
    <3>1. j \in 1..(i - 1) /\ j \in 1..Len(t) /\ j <= Len(a)
      BY <1>4, <2>1
    <3> QED BY <1>1, <1>3, <2>1, <3>1
  <2>2. CASE ~(j < i)
    <3>1. /\ j \in 1..Len(t) /\ ~(j <= Len(a)) /\ j - Len(a) \in 1..(Len(s) - i)
          /\ i + (j - Len(a)) = j + 1
      BY <1>4, <2>2
    <3> QED BY <1>1, <1>3, <2>2, <3>1
  <2> QED BY <2>1, <2>2
<1> QED BY <1>2, <1>4, <1>5 DEF t, a, b

LEMMA RemoveAtKeeps ==
    ASSUME NEW S, NEW s \in Seq(S), NEW i \in 1..Len(s)
    PROVE  LET t == Reduced!RemoveAt(s, i)
           IN  /\ t \in Seq(S) /\ Len(t) = Len(s) - 1
               /\ Reduced!Range(s) \subseteq Reduced!Range(t) \cup {s[i]}
<1> DEFINE t == Reduced!RemoveAt(s, i)
<1>1. /\ t \in Seq(S) /\ Len(t) = Len(s) - 1
      /\ \A j \in 1..(Len(s) - 1) : t[j] = IF j < i THEN s[j] ELSE s[j + 1]
  BY Dropped DEF Reduced!RemoveAt
<1> HIDE DEF t
<1>2. ASSUME NEW k \in 1..Len(s), k # i PROVE s[k] \in Reduced!Range(t)
  <2>1. DOMAIN t = 1..(Len(s) - 1)
    BY <1>1
  <2>2. CASE k < i
    <3>1. k \in 1..(Len(s) - 1)
      BY <2>2
    <3> QED BY <1>1, <2>1, <2>2, <3>1 DEF Reduced!Range
  <2>3. CASE k > i
    <3>1. k - 1 \in 1..(Len(s) - 1) /\ (k - 1) + 1 = k /\ ~(k - 1 < i)
      BY <2>3
    <3>2. t[k - 1] = s[k]
      BY <1>1, <3>1
    <3> QED BY <2>1, <3>1, <3>2 DEF Reduced!Range
  <2> QED BY <1>2, <2>2, <2>3
<1>3. Reduced!Range(s) \subseteq Reduced!Range(t) \cup {s[i]}
  BY <1>2 DEF Reduced!Range
<1> QED BY <1>1, <1>3 DEF t

LEMMA FeatureInvInit == Reduced!FeatureInit => FeatureInv
<1> SUFFICES ASSUME Reduced!FeatureInit PROVE FeatureInv
  OBVIOUS
<1>1. Len(removed) = 0 /\ Len(FeatureColumns) \in Nat
  BY FeatureConstants DEF Reduced!FeatureInit
<1> QED BY <1>1, FeatureConstants DEF FeatureInv, Reduced!FeatureInit

LEMMA RemoveWorstStep ==
    ASSUME FeatureInv, Reduced!RemoveWorst
    PROVE  FeatureInv'
<1> DEFINE i == Reduced!Worst(remaining)
           f == remaining[i]
           v == Reduced!InflationOf(f, Reduced!Range(remaining))
           r == [feature |-> f, vif |-> v]
           n == Len(removed)
<1>1. /\ groups' = groups /\ reduction' = reduction
      /\ removed' = Append(removed, r) /\ remaining' = Reduced!RemoveAt(remaining, i)
      /\ remaining # <<>>
  BY FeatureConstants DEF Reduced!RemoveWorst, FeatureInv
<1>2. i \in 1..Len(remaining) /\ f \in Feature
  BY <1>1, WorstIsThere DEF FeatureInv
<1>3. /\ v \in 1..FeatureExact
      /\ v = FeatureExact => \E h \in groups : /\ h.vif = FeatureExact /\ f \in h.members
                                               /\ h.members \subseteq Reduced!Range(remaining)
  BY VifIsOfAGroup DEF FeatureInv, Reduced!InflationOf
<1>4. r \in [feature : Feature, vif : Nat]
  BY <1>2, <1>3, FeatureConstants
<1>5. /\ remaining' \in Seq(Feature) /\ Len(remaining') = Len(remaining) - 1
      /\ Reduced!Range(remaining) \subseteq Reduced!Range(remaining') \cup {f}
  BY <1>1, <1>2, RemoveAtKeeps DEF FeatureInv
<1>6. /\ removed' \in Seq([feature : Feature, vif : Nat]) /\ Len(removed') = n + 1 /\ n \in Nat
      /\ removed'[n + 1] = r /\ \A k \in 1..n : removed'[k] = removed[k]
  BY <1>1, <1>4 DEF FeatureInv
<1> HIDE DEF i, n, v
<1>7. ASSUME NEW k \in 1..(n + 1), removed'[k].vif = FeatureExact
      PROVE  ExplainedWhenRemoved(k)'
  <2> DEFINE left == Reduced!Range(remaining) \cup {removed[j].feature : j \in (k + 1)..n}
             after == Reduced!Range(remaining') \cup {removed'[j].feature : j \in (k + 1)..(n + 1)}
  <2>1. CASE k = n + 1
    <3>1. PICK h \in groups : /\ h.vif = FeatureExact /\ f \in h.members
                              /\ h.members \subseteq Reduced!Range(remaining)
      BY <1>3, <1>6, <1>7, <2>1
    <3>2. h.members \ {f} \subseteq after
      BY <1>5, <3>1
    <3>3. removed'[k].feature = f
      BY <1>6, <2>1
    <3> QED BY <1>1, <1>6, <3>1, <3>2, <3>3 DEF ExplainedWhenRemoved
  <2>2. CASE k \in 1..n
    <3>1. PICK h \in groups : /\ h.vif = FeatureExact /\ removed[k].feature \in h.members
                              /\ h.members \ {removed[k].feature} \subseteq left
      BY <1>6, <1>7, <2>2 DEF FeatureInv, ExplainedWhenRemoved, n
    <3>2. left \subseteq after
      <4>1. n + 1 \in (k + 1)..(n + 1) /\ removed'[n + 1].feature = f
        BY <1>6, <2>2
      <4>2. \A j \in (k + 1)..n : j \in (k + 1)..(n + 1) /\ removed'[j].feature = removed[j].feature
        BY <1>6, <2>2
      <4> QED BY <1>5, <4>1, <4>2
    <3>3. h.members \ {removed'[k].feature} \subseteq after /\ removed'[k] = removed[k]
      BY <1>6, <2>2, <3>1, <3>2
    <3> HIDE DEF after, left
    <3>4. after = (Reduced!Range(remaining) \cup {removed[j].feature : j \in (k + 1)..Len(removed)})'
      BY <1>6 DEF after
    <3> QED BY <1>1, <3>1, <3>3, <3>4 DEF ExplainedWhenRemoved
  <2> QED BY <1>6, <2>1, <2>2
<1>8. Len(remaining') + Len(removed') = Len(FeatureColumns)
  <2>1. /\ Len(remaining) \in Nat /\ Len(removed) \in Nat
        /\ Len(remaining) + Len(removed) = Len(FeatureColumns)
    BY DEF FeatureInv
  <2>2. Len(remaining') = Len(remaining) - 1 /\ Len(removed') = Len(removed) + 1
    BY <1>5, <1>6 DEF n
  <2> QED BY <2>1, <2>2
<1> QED BY <1>1, <1>5, <1>6, <1>7, <1>8 DEF FeatureInv

LEMMA FeatureInvStep ==
    ASSUME FeatureInv, Reduced!FeatureNext \/ UNCHANGED featuresVars
    PROVE  FeatureInv'
<1>1. CASE /\ UNCHANGED <<groups, remaining, removed>>
           /\ reduction' \in {"idle", "reducing", "reduced"}
  BY <1>1 DEF FeatureInv, ExplainedWhenRemoved
<1>2. CASE Reduced!BeginReduction
  <2>1. /\ groups' = groups /\ reduction' = "reducing"
        /\ remaining' = FeatureColumns /\ removed' = <<>>
    BY <1>2 DEF Reduced!BeginReduction
  <2>2. Len(removed') = 0 /\ Len(FeatureColumns) \in Nat
    BY <2>1, FeatureConstants
  <2> QED BY <2>1, <2>2, FeatureConstants DEF FeatureInv
<1>3. CASE Reduced!RemoveWorst
  BY <1>3, RemoveWorstStep
<1>4. ASSUME \/ Reduced!AuditCollinearity \/ Reduced!FitReduced
             \/ Reduced!ClassifyCoefficient \/ Reduced!Explain \/ UNCHANGED featuresVars
      PROVE  /\ UNCHANGED <<groups, remaining, removed>>
             /\ reduction' \in {"idle", "reducing", "reduced"}
  BY <1>4 DEF FeatureInv, Reduced!AuditCollinearity, Reduced!FitReduced,
              Reduced!ClassifyCoefficient, Reduced!Explain, featuresVars
<1> QED BY <1>1, <1>2, <1>3, <1>4 DEF Reduced!FeatureNext

(* Completing a set n times.                                               *)
LEMMA CompletedIterates ==
    ASSUME NEW S
    PROVE  \E after \in [0..Len(FeatureColumns) -> SUBSET (S \cup UNION {g.members : g \in groups})] :
              /\ after[0] = S
              /\ \A n \in 1..Len(FeatureColumns) : after[n] = Reduced!Completed(after[n - 1])
              /\ Reduced!Determined(S) = after[Len(FeatureColumns)]
<1> DEFINE L == Len(FeatureColumns)
           All == S \cup UNION {g.members : g \in groups}
           Next(A) == Reduced!Completed(A)
           Upto(m, f) == /\ f[0] = S
                         /\ \A k \in 1..m : f[k] = Next(f[k - 1])
           Good == {m \in 0..L : \E f \in [0..m -> SUBSET All] : Upto(m, f)}
<1>0. L \in Nat
  BY FeatureConstants
<1>1. \A A \in SUBSET All : Next(A) \in SUBSET All
  BY DEF Reduced!Completed
<1> HIDE DEF L, All, Next
<1>2. 0 \in Good
  <2> DEFINE f == [k \in 0..0 |-> S]
  <2>1. f \in [0..0 -> SUBSET All] /\ Upto(0, f)
    BY DEF All
  <2> HIDE DEF f, Upto
  <2> QED BY <1>0, <2>1
<1>3. \A m \in 0..L : m \in Good /\ m + 1 <= L => m + 1 \in Good
  <2> SUFFICES ASSUME NEW m \in 0..L, m \in Good, m + 1 <= L PROVE m + 1 \in Good
    OBVIOUS
  <2>1. PICK f \in [0..m -> SUBSET All] : Upto(m, f)
    OBVIOUS
  <2> DEFINE last == Next(f[m])
             g == [k \in 0..(m + 1) |-> IF k = m + 1 THEN last ELSE f[k]]
  <2>0. m \in 0..m /\ m \in Nat
    BY <1>0
  <2>2. last \in SUBSET All
    BY <1>1, <2>0
  <2> HIDE DEF last
  <2>3. g \in [0..(m + 1) -> SUBSET All]
    BY <2>2
  <2>4. \A k \in 1..m : g[k] = f[k] /\ g[k - 1] = f[k - 1]
    <3> SUFFICES ASSUME NEW k \in 1..m PROVE g[k] = f[k] /\ g[k - 1] = f[k - 1]
      OBVIOUS
    <3>1. /\ k \in 0..(m + 1) /\ k - 1 \in 0..(m + 1) /\ k # m + 1 /\ k - 1 # m + 1
      BY <2>0
    <3> QED BY <3>1
  <2>5. g[m + 1] = last /\ g[m] = f[m] /\ g[0] = f[0]
    BY <2>0
  <2> HIDE DEF g
  <2>6. Upto(m + 1, g)
    <3>1. ASSUME NEW k \in 1..(m + 1) PROVE g[k] = Next(g[k - 1])
      <4>1. CASE k = m + 1
        BY <2>0, <2>5, <4>1 DEF last
      <4>2. CASE k # m + 1
        BY <2>0, <2>1, <2>4, <4>2
      <4> QED BY <4>1, <4>2
    <3> QED BY <2>1, <2>5, <3>1
  <2> HIDE DEF Upto
  <2> QED BY <1>0, <2>3, <2>6
<1>4. L \in Good
  <2>1. \A m \in 0..L : m \in Good
    <3> HIDE DEF Good
    <3> QED BY <1>0, <1>2, <1>3, UpToInduction
  <2> HIDE DEF Good
  <2> QED BY <1>0, <2>1
<1>5. PICK f \in [0..L -> SUBSET All] : Upto(L, f)
  BY <1>4
<1> DEFINE Body(h) == [n \in 0..L |-> IF n = 0 THEN S ELSE Next(h[n - 1])]
           after == CHOOSE h : h = Body(h)
<1>6. f = Body(f)
  BY <1>5
<1>7. after = Body(after)
  BY <1>6
<1>8. Reduced!Determined(S) = after[L]
  BY DEF Reduced!Determined, L, Next
<1> HIDE DEF after
<1>9. after[0] = S /\ \A n \in 1..L : after[n] = Next(after[n - 1])
  BY <1>0, <1>7
<1> DEFINE Typed == {n \in 0..L : after[n] \in SUBSET All}
<1>10. 0 \in Typed /\ \A k \in 0..L : k \in Typed /\ k + 1 <= L => k + 1 \in Typed
  <2>1. 0 \in Typed
    BY <1>0, <1>9 DEF All
  <2>2. ASSUME NEW k \in 0..L, after[k] \in SUBSET All, k + 1 <= L
        PROVE  after[k + 1] \in SUBSET All
    <3>1. k + 1 \in 1..L /\ (k + 1) - 1 = k
      BY <1>0, <2>2
    <3> QED BY <1>1, <1>9, <2>2, <3>1
  <2> QED BY <1>0, <2>1, <2>2
<1>11. \A k \in 0..L : k \in Typed
  <2> HIDE DEF Typed
  <2> QED BY <1>0, <1>10, UpToInduction
<1>12. after \in [0..L -> SUBSET All]
  BY <1>7, <1>11
<1> QED BY <1>8, <1>9, <1>12 DEF L, All, Next

(* Cardinality means the same in every module.                             *)
LEMMA ReducedCardinality == \A S : Reduced!Cardinality(S) = Cardinality(S)
BY DEF Reduced!Cardinality, Cardinality

(* A set is completed with what all but one of the members of an exact     *)
(* group determine, and loses nothing.                                     *)
LEMMA CompletedAdds ==
    ASSUME NEW S
    PROVE  /\ S \subseteq Reduced!Completed(S)
           /\ \A h \in groups : \A f :
                 h.vif = FeatureExact /\ f \in h.members /\ h.members \ {f} \subseteq S =>
                     f \in Reduced!Completed(S)
<1>1. S \subseteq Reduced!Completed(S)
  BY DEF Reduced!Completed
<1>2. ASSUME NEW h \in groups, NEW f, h.vif = FeatureExact, f \in h.members,
             h.members \ {f} \subseteq S, f \notin S
      PROVE  f \in Reduced!Completed(S)
  <2>1. h.members \ S = {f}
    BY <1>2
  <2>2. Reduced!Cardinality(h.members \ S) = 1
    BY <2>1, ReducedCardinality, FS_Singleton
  <2> QED BY <1>2, <2>2 DEF Reduced!Completed
<1> QED BY <1>1, <1>2

LEMMA NothingLost ==
    ASSUME FeatureInv
    PROVE  Reduced!RemovedFor(TRUE)
               \subseteq Reduced!Determined(Reduced!Range(remaining) \cup Reduced!RemovedFor(FALSE))
<1> DEFINE S == Reduced!Range(remaining) \cup Reduced!RemovedFor(FALSE)
           L == Len(FeatureColumns)
           m == Len(removed)
<1>0. L \in Nat /\ m \in Nat /\ m <= L /\ DOMAIN removed = 1..m
  <2>1. Len(remaining) \in Nat /\ m \in Nat /\ Len(remaining) + m = L /\ DOMAIN removed = 1..m
    BY DEF FeatureInv
  <2> QED BY <2>1
<1>1. PICK after \in [0..L -> SUBSET (S \cup UNION {g.members : g \in groups})] :
          /\ after[0] = S
          /\ \A n \in 1..L : after[n] = Reduced!Completed(after[n - 1])
          /\ Reduced!Determined(S) = after[L]
  BY CompletedIterates
<1>2. \A k \in 1..m : removed[k].vif # FeatureExact => removed[k].feature \in S
  BY <1>0 DEF Reduced!RemovedFor
<1>3. Reduced!Range(remaining) \subseteq S
  OBVIOUS
<1> HIDE DEF S, L, m
<1> DEFINE Good == {n \in 0..L : /\ S \subseteq after[n]
                                 /\ \A k \in 1..m : k > m - n => removed[k].feature \in after[n]}
<1>4. 0 \in Good
  BY <1>0, <1>1
<1>5. \A n \in 0..L : n \in Good /\ n + 1 <= L => n + 1 \in Good
  <2> SUFFICES ASSUME NEW n \in 0..L, n \in Good, n + 1 <= L PROVE n + 1 \in Good
    OBVIOUS
  <2>1. /\ n + 1 \in 1..L /\ n + 1 \in 0..L /\ (n + 1) - 1 = n
        /\ after[n + 1] = Reduced!Completed(after[n])
    BY <1>0, <1>1
  <2>2. S \subseteq after[n] /\ after[n] \subseteq after[n + 1]
    BY <2>1, CompletedAdds
  <2>3. ASSUME NEW k \in 1..m, k > m - (n + 1) PROVE removed[k].feature \in after[n + 1]
    <3>1. CASE k > m - n
      BY <2>2, <3>1
    <3>2. CASE removed[k].vif # FeatureExact
      BY <1>2, <2>2, <3>2
    <3>3. CASE k = m - n /\ removed[k].vif = FeatureExact
      <4>1. ExplainedWhenRemoved(k)
        BY <3>3 DEF FeatureInv, m
      <4>2. PICK h \in groups : /\ h.vif = FeatureExact /\ removed[k].feature \in h.members
                                /\ h.members \ {removed[k].feature} \subseteq
                                       Reduced!Range(remaining)
                                         \cup {removed[j].feature : j \in (k + 1)..m}
        BY <4>1 DEF ExplainedWhenRemoved, m
      <4>3. \A j \in (k + 1)..m : removed[j].feature \in after[n]
        BY <1>0, <3>3
      <4>4. h.members \ {removed[k].feature} \subseteq after[n]
        BY <1>3, <2>2, <4>2, <4>3
      <4> QED BY <2>1, <4>2, <4>4, CompletedAdds
    <3>4. k = m - n \/ k > m - n
      BY <1>0, <2>3
    <3> QED BY <3>1, <3>2, <3>3, <3>4
  <2> QED BY <2>1, <2>2, <2>3
<1>6. L \in Good
  <2>1. \A n \in 0..L : n \in Good
    <3> HIDE DEF Good
    <3> QED BY <1>0, <1>4, <1>5, UpToInduction
  <2> HIDE DEF Good
  <2> QED BY <1>0, <2>1
<1>7. \A k \in 1..m : removed[k].feature \in after[L]
  BY <1>0, <1>6
<1>8. Reduced!RemovedFor(TRUE) \subseteq after[L]
  BY <1>0, <1>7 DEF Reduced!RemovedFor
<1> QED BY <1>1, <1>8 DEF S

(***************************************************************************)
(* The elimination of redundant features, whatever groups of features      *)
(* explain one another.                                                    *)
(***************************************************************************)
THEOREM FeatureInvariant == StudiesSpec => [](focus = "features" => FeatureInv)
<1>1. FocusInit /\ StudiesInit => (focus = "features" => FeatureInv)
  BY FeatureInvInit DEF StudiesInit, FeaturesInit
<1>2. (focus = "features" => FeatureInv) /\ [StudiesNext]_studiesVars => (focus = "features" => FeatureInv)'
  BY FocusMoves, FeatureInvStep
<1> QED BY <1>1, <1>2, PTL DEF StudiesSpec

(***************************************************************************)
(* iteratively_reduce_by_vif(): a feature removed as an exact combination  *)
(* of others can be computed from what is kept and what was removed for a  *)
(* finite inflation, for any features and however the groups overlap.      *)
(***************************************************************************)
THEOREM ReductionsLoseNothing == StudiesSpec => []NothingLostByReduction
<1>1. (focus = "features" => FeatureInv) => NothingLostByReduction
  BY NothingLost DEF NothingLostByReduction, Reduced!NothingLostByReduction
<1> QED BY <1>1, FeatureInvariant, PTL

-----------------------------------------------------------------------------
(***************************************************************************)
(* Counting.                                                               *)
(***************************************************************************)
LEMMA Injected ==
    ASSUME NEW S, NEW T, IsFiniteSet(T), NEW f \in [S -> T],
           \A a, b \in S : f[a] = f[b] => a = b
    PROVE  Cardinality(S) <= Cardinality(T)
<1>1. f \in Injection(S, T)
  BY DEF Injection, IsInjective
<1> QED BY <1>1, FS_Injection

LEMMA CountOfPart ==
    ASSUME NEW n \in Nat, NEW T \in SUBSET (1..n)
    PROVE  IsFiniteSet(T) /\ Cardinality(T) \in 0..n
<1>1. IsFiniteSet(1..n) /\ Cardinality(1..n) = n
  BY FS_Interval
<1>2. IsFiniteSet(T) /\ Cardinality(T) <= n
  BY <1>1, FS_Subset
<1> QED BY <1>2, FS_CardinalityType

(* n values that count as n are different.                                 *)
LEMMA AllDifferent ==
    ASSUME NEW n \in Nat, NEW x \in [1..n -> Nat],
           Cardinality({x[i] : i \in 1..n}) = n
    PROVE  \A i, j \in 1..n : x[i] = x[j] => i = j
<1> DEFINE T == {x[i] : i \in 1..n}
<1>1. IsFiniteSet(1..n) /\ Cardinality(1..n) = n
  BY FS_Interval
<1>2. x \in Surjection(1..n, T)
  BY DEF Surjection
<1>3. x \in Injection(1..n, T)
  <2> HIDE DEF T
  <2>1. Cardinality(T) = Cardinality(1..n)
    BY <1>1 DEF T
  <2> QED BY <1>1, <1>2, <2>1, FS_Surjection
<1> QED BY <1>3 DEF Injection, IsInjective

(* Of n different values, n - k at most have k or more below them.         *)
Below(x, n, i) == {j \in 1..n : x[j] < x[i]}
LEMMA FewAreHigh ==
    ASSUME NEW n \in Nat, NEW x \in [1..n -> Nat], NEW k \in 0..n,
           \A i, j \in 1..n : x[i] = x[j] => i = j
    PROVE  Cardinality({i \in 1..n : Cardinality(Below(x, n, i)) >= k}) <= n - k
<1> DEFINE rank(i) == Cardinality(Below(x, n, i))
           S == {i \in 1..n : rank(i) >= k}
           f == [i \in S |-> rank(i)]
<1>1. \A i \in 1..n : IsFiniteSet(Below(x, n, i)) /\ rank(i) \in Nat
  BY CountOfPart DEF Below
<1>2. \A i \in 1..n : rank(i) <= n - 1
  <2> SUFFICES ASSUME NEW i \in 1..n PROVE rank(i) <= n - 1
    OBVIOUS
  <2>1. IsFiniteSet(1..n) /\ Cardinality(1..n) = n /\ i \in 1..n
    BY FS_Interval
  <2>2. IsFiniteSet((1..n) \ {i}) /\ Cardinality((1..n) \ {i}) = n - 1
    BY <2>1, FS_RemoveElement
  <2>3. Below(x, n, i) \in SUBSET ((1..n) \ {i})
    BY DEF Below
  <2> QED BY <2>2, <2>3, FS_Subset
<1>3. \A i, j \in 1..n : x[i] < x[j] => rank(i) < rank(j)
  <2> SUFFICES ASSUME NEW i \in 1..n, NEW j \in 1..n, x[i] < x[j] PROVE rank(i) < rank(j)
    OBVIOUS
  <2>1. Below(x, n, i) \cup {i} \in SUBSET Below(x, n, j) /\ i \notin Below(x, n, i)
    BY DEF Below
  <2>2. Cardinality(Below(x, n, i) \cup {i}) = rank(i) + 1
    BY <1>1, <2>1, FS_AddElement
  <2>3. Cardinality(Below(x, n, i) \cup {i}) <= rank(j)
    BY <1>1, <2>1, FS_Subset
  <2> QED BY <1>1, <2>2, <2>3
<1>4. f \in [S -> k..(n - 1)]
  <2>1. \A i \in S : rank(i) \in k..(n - 1)
    BY <1>1, <1>2
  <2> HIDE DEF rank
  <2> QED BY <2>1
<1>5. \A a, b \in S : f[a] = f[b] => a = b
  <2> SUFFICES ASSUME NEW a \in S, NEW b \in S, rank(a) = rank(b) PROVE a = b
    OBVIOUS
  <2>1. a \in 1..n /\ b \in 1..n /\ x[a] \in Nat /\ x[b] \in Nat
    OBVIOUS
  <2>2. ~(x[a] < x[b]) /\ ~(x[b] < x[a])
    BY <1>1, <1>3, <2>1
  <2>3. x[a] = x[b]
    BY <2>1, <2>2
  <2> QED BY <2>1, <2>3
<1>6. IsFiniteSet(k..(n - 1)) /\ Cardinality(k..(n - 1)) = n - k
  BY FS_Interval
<1>7. Cardinality(S) <= Cardinality(k..(n - 1))
  <2> HIDE DEF S, f
  <2> QED BY <1>4, <1>5, <1>6, Injected
<1> QED BY <1>6, <1>7

-----------------------------------------------------------------------------
(***************************************************************************)
(* Percentiles.  The percentile of a sample is no less than the element of *)
(* its rank, rounded down, in the sorted sample.                           *)
(***************************************************************************)
LEMMA CalibrationConstants ==
    /\ IsFiniteSet(CalibrationFeatures) /\ CalibrationFeatures # {}
    /\ CalibrationMaxLevel \in Nat /\ CalibrationMinSample \in Nat
    /\ CalibrationSizes \subseteq Nat /\ CalibrationNResamples \in Nat \ {0}
    /\ CalibrationReviewPercent \in 0..100 /\ CalibrationMaterialPercent \in 0..100
    /\ CalibrationReviewPercent <= CalibrationMaterialPercent
<1>1. /\ Calibrated!IsFiniteSet(CalibrationFeatures) /\ CalibrationFeatures # {}
      /\ {CalibrationMaxLevel, CalibrationMinSample} \cup CalibrationSizes \subseteq Nat
      /\ CalibrationNResamples \in Nat \ {0}
      /\ CalibrationReviewPercent \in 0..100
      /\ CalibrationMaterialPercent \in CalibrationReviewPercent..100
  BY StudiesAssumption DEF StudiesAssumption, Calibrated!CalibrationAssumption
<1>2. IsFiniteSet(CalibrationFeatures)
  BY <1>1, Zenon DEF Calibrated!IsFiniteSet, IsFiniteSet
<1> QED BY <1>1, <1>2

LEMMA CalibratedCardinality == \A S : Calibrated!Cardinality(S) = Cardinality(S)
BY DEF Calibrated!Cardinality, Cardinality

AtMostLevel(s, m, v) == {i \in 1..m : s[i] <= v}
BelowLevel(s, m, v) == {i \in 1..m : s[i] < v}

LEMMA SmallestIsThere ==
    ASSUME NEW m \in Nat, NEW s \in [1..m -> 0..CalibrationMaxLevel], NEW k \in 1..m
    PROVE  LET v == Calibrated!Smallest(s, k)
           IN  /\ v \in 0..CalibrationMaxLevel
               /\ Cardinality(BelowLevel(s, m, v)) < k
               /\ Cardinality(AtMostLevel(s, m, v)) >= k
<1> DEFINE V == 0..CalibrationMaxLevel
           Enough == {v \in V : Cardinality(AtMostLevel(s, m, v)) >= k}
<1>0. CalibrationMaxLevel \in Nat
  BY CalibrationConstants
<1>1. CalibrationMaxLevel \in Enough
  <2>1. AtMostLevel(s, m, CalibrationMaxLevel) = 1..m
    BY <1>0 DEF AtMostLevel
  <2>2. Cardinality(1..m) = m
    BY FS_Interval
  <2> QED BY <1>0, <2>1, <2>2
<1>2. PICK v \in Enough : \A w \in Enough : v <= w
  <2>1. Enough \in SUBSET Nat /\ Enough # {}
    BY <1>0, <1>1
  <2> HIDE DEF Enough
  <2> QED BY <2>1, LeastElement
<1>3. v \in V /\ v \in Nat
  BY <1>0, <1>2
<1>4. Cardinality(BelowLevel(s, m, v)) < k
  <2>1. CASE v = 0
    <3>1. BelowLevel(s, m, v) = {}
      BY <1>0, <2>1 DEF BelowLevel
    <3> QED BY <3>1, FS_EmptySet
  <2>2. CASE v # 0
    <3>1. v - 1 \in V /\ v - 1 \notin Enough
      BY <1>0, <1>2, <1>3, <2>2
    <3>2. BelowLevel(s, m, v) = AtMostLevel(s, m, v - 1)
      <4>1. \A i \in 1..m : s[i] \in Nat
        BY <1>0
      <4>2. \A i \in 1..m : s[i] < v <=> s[i] <= v - 1
        BY <1>3, <4>1
      <4> QED BY <4>2 DEF BelowLevel, AtMostLevel
    <3>3. AtMostLevel(s, m, v - 1) \in SUBSET (1..m)
      BY DEF AtMostLevel
    <3>4. Cardinality(AtMostLevel(s, m, v - 1)) \in 0..m
      BY <3>3, CountOfPart
    <3> QED BY <3>1, <3>2, <3>4
  <2> QED BY <2>1, <2>2
<1> DEFINE Is(u) == /\ Calibrated!Cardinality({i \in DOMAIN s : s[i] < u}) < k
                    /\ Calibrated!Cardinality({i \in DOMAIN s : s[i] <= u}) >= k
<1>5. \A u : Is(u) <=> /\ Cardinality(BelowLevel(s, m, u)) < k
                       /\ Cardinality(AtMostLevel(s, m, u)) >= k
  <2>1. DOMAIN s = 1..m
    OBVIOUS
  <2> QED BY <2>1, CalibratedCardinality DEF BelowLevel, AtMostLevel
<1>6. v \in Calibrated!Levels /\ Is(v)
  BY <1>2, <1>3, <1>4, <1>5 DEF Calibrated!Levels
<1>7. Calibrated!Smallest(s, k) = CHOOSE u \in Calibrated!Levels : Is(u)
  BY DEF Calibrated!Smallest
<1> HIDE DEF Is
<1>8. Calibrated!Smallest(s, k) \in Calibrated!Levels /\ Is(Calibrated!Smallest(s, k))
  BY <1>6, <1>7
<1> QED BY <1>5, <1>8 DEF Calibrated!Levels

LEMMA SmallestGrows ==
    ASSUME NEW m \in Nat, NEW s \in [1..m -> 0..CalibrationMaxLevel], NEW k \in 1..m, k + 1 <= m
    PROVE  Calibrated!Smallest(s, k) <= Calibrated!Smallest(s, k + 1)
<1> DEFINE v == Calibrated!Smallest(s, k)
           w == Calibrated!Smallest(s, k + 1)
<1>1. /\ v \in 0..CalibrationMaxLevel /\ Cardinality(BelowLevel(s, m, v)) < k
      /\ w \in 0..CalibrationMaxLevel /\ Cardinality(AtMostLevel(s, m, w)) >= k + 1
  BY SmallestIsThere
<1> HIDE DEF v, w
<1>2. SUFFICES ASSUME w < v PROVE FALSE
  BY <1>1, CalibrationConstants DEF v, w
<1>3. AtMostLevel(s, m, w) \in SUBSET BelowLevel(s, m, v)
  <2>1. \A i \in 1..m : s[i] \in Nat
    BY CalibrationConstants
  <2>2. v \in Nat /\ w \in Nat
    BY <1>1, CalibrationConstants
  <2> QED BY <1>2, <2>1, <2>2 DEF AtMostLevel, BelowLevel
<1>4. BelowLevel(s, m, v) \in SUBSET (1..m)
  BY DEF BelowLevel
<1>5. /\ IsFiniteSet(BelowLevel(s, m, v)) /\ Cardinality(BelowLevel(s, m, v)) \in Nat
  BY <1>4, CountOfPart
<1>6. Cardinality(AtMostLevel(s, m, w)) <= Cardinality(BelowLevel(s, m, v))
  BY <1>3, <1>5, FS_Subset
<1>7. Cardinality(AtMostLevel(s, m, w)) \in Nat
  BY <1>3, <1>4, CountOfPart
<1> QED BY <1>1, <1>5, <1>6, <1>7

(* The rank of a percentile, rounded down.                                 *)
Rank(m, percent) == ((m - 1) * percent) \div 100 + 1

LEMMA RankIsARank ==
    ASSUME NEW m \in Nat \ {0}, NEW p \in 0..100
    PROVE  /\ (m - 1) * p \in Nat /\ Rank(m, p) \in 1..m
           /\ ((m - 1) * p) % 100 \in 0..99
           /\ ((m - 1) * p) % 100 # 0 => Rank(m, p) + 1 <= m
           /\ ((m - 1) * p) \div 100 \in Nat
<1> DEFINE at == (m - 1) * p
<1>1. at \in Nat /\ at <= (m - 1) * 100
  OBVIOUS
<1> HIDE DEF at
<1>2. /\ at \div 100 \in Nat /\ at % 100 \in 0..99
      /\ at = 100 * (at \div 100) + (at % 100)
  BY <1>1
<1>3. at \div 100 <= m - 1 /\ (at % 100 # 0 => at \div 100 < m - 1)
  BY <1>1, <1>2
<1> QED BY <1>1, <1>2, <1>3 DEF at, Rank

LEMMA PercentileReachesRank ==
    ASSUME NEW m \in Nat \ {0}, NEW s \in Seq(0..CalibrationMaxLevel), Len(s) = m, NEW p \in 0..100
    PROVE  /\ Calibrated!Percentile(s, p) \in Int
           /\ Calibrated!Percentile(s, p) >= 100 * Calibrated!Smallest(s, Rank(m, p))
<1> DEFINE at == (m - 1) * p
           k == Rank(m, p)
           low == Calibrated!Smallest(s, k)
           high == Calibrated!Smallest(s, k + 1)
<1>1. s \in [1..m -> 0..CalibrationMaxLevel] /\ m \in Nat
  BY LenProperties
<1>2. /\ at \in Nat /\ k \in 1..m /\ at % 100 \in 0..99 /\ (at % 100 # 0 => k + 1 <= m)
      /\ k = at \div 100 + 1 /\ at \div 100 \in Nat
  <2>1. /\ at \in Nat /\ k \in 1..m /\ at % 100 \in 0..99 /\ (at % 100 # 0 => k + 1 <= m)
        /\ at \div 100 \in Nat
    BY RankIsARank, Zenon
  <2>2. k = at \div 100 + 1
    BY Zenon DEF Rank
  <2> QED BY <2>1, <2>2
<1> HIDE DEF at, k
<1>3. low \in Nat
  BY <1>1, <1>2, SmallestIsThere, CalibrationConstants
<1>4. Calibrated!Percentile(s, p) = IF at % 100 = 0 THEN 100 * low ELSE 100 * low + (at % 100) * (high - low)
  <2>1. at \div 100 + 2 = k + 1
    BY <1>2
  <2> QED BY <1>2, <2>1 DEF Calibrated!Percentile, at
<1>5. CASE at % 100 = 0
  BY <1>3, <1>4, <1>5 DEF k
<1>6. CASE at % 100 # 0
  <2>1. high \in Nat /\ low <= high
    <3>1. k + 1 \in 1..m
      BY <1>2, <1>6
    <3>2. high \in 0..CalibrationMaxLevel
      BY <1>1, <3>1, SmallestIsThere
    <3> QED BY <1>1, <1>2, <1>6, <3>2, SmallestGrows, CalibrationConstants
  <2> DEFINE rest == at % 100
             gap == high - low
  <2>2. rest \in Nat /\ gap \in Nat
    BY <1>2, <1>3, <2>1
  <2> HIDE DEF rest, gap
  <2>3. rest * gap \in Nat
    BY <2>2
  <2>4. Calibrated!Percentile(s, p) = 100 * low + rest * gap
    BY <1>4, <1>6 DEF rest, gap
  <2> QED BY <1>3, <2>3, <2>4 DEF k
<1> QED BY <1>5, <1>6

-----------------------------------------------------------------------------
(***************************************************************************)
(* The family-wise threshold.  A batch that raises a check has a largest   *)
(* PSI no less than the percentile of the others, so that as many of them  *)
(* are below it as the rank of the percentile says; and of different       *)
(* values only so many have that many below them.                          *)
(***************************************************************************)
Psi == [CalibrationFeatures -> 0..CalibrationMaxLevel]

LEMMA MaxPsiIsALevel ==
    ASSUME NEW psi \in Psi
    PROVE  Calibrated!MaxPsi(psi) \in 0..CalibrationMaxLevel
<1> DEFINE S == {psi[f] : f \in CalibrationFeatures}
<1>1. S \in SUBSET (0..CalibrationMaxLevel) /\ S # {}
  BY CalibrationConstants DEF Psi
<1> HIDE DEF S
<1>2. Calibrated!Max(S) \in S
  BY <1>1, CalibrationConstants, MaxIsGreatest
<1> QED BY <1>1, <1>2 DEF Calibrated!MaxPsi, S

(* The largest PSI of each of the resamples and of the batch.              *)
Largest == [j \in 1..(CalibrationNResamples + 1) |-> Calibrated!MaxPsi(Calibrated!Pool[j])]

LEMMA PoolOfAll ==
    ASSUME familyWise \in [1..CalibrationNResamples -> Psi], batch.psi \in Psi
    PROVE  /\ Calibrated!Pool \in Seq(Psi) /\ Len(Calibrated!Pool) = CalibrationNResamples + 1
           /\ DOMAIN Calibrated!Pool = 1..(CalibrationNResamples + 1)
           /\ Calibrated!Pool[CalibrationNResamples + 1] = batch.psi
           /\ \A j \in 1..CalibrationNResamples : Calibrated!Pool[j] = familyWise[j]
           /\ Largest \in [1..(CalibrationNResamples + 1) -> 0..CalibrationMaxLevel]
<1>1. familyWise \in Seq(Psi) /\ Len(familyWise) = CalibrationNResamples
  BY CalibrationConstants
<1>2. /\ Calibrated!Pool \in Seq(Psi) /\ Len(Calibrated!Pool) = CalibrationNResamples + 1
      /\ DOMAIN Calibrated!Pool = 1..(CalibrationNResamples + 1)
      /\ Calibrated!Pool[CalibrationNResamples + 1] = batch.psi
      /\ \A j \in 1..CalibrationNResamples : Calibrated!Pool[j] = familyWise[j]
  BY <1>1, CalibrationConstants DEF Calibrated!Pool
<1>3. \A j \in 1..(CalibrationNResamples + 1) : Calibrated!Pool[j] \in Psi
  BY <1>2
<1>4. Largest \in [1..(CalibrationNResamples + 1) -> 0..CalibrationMaxLevel]
  BY <1>3, MaxPsiIsALevel DEF Largest
<1> QED BY <1>2, <1>4

(* The statistics of all but one of them.                                  *)
Statistics(resamples) == [j \in DOMAIN resamples |-> Calibrated!FamilyStatistic(resamples[j])]

LEMMA StatisticsOfOthers ==
    ASSUME familyWise \in [1..CalibrationNResamples -> Psi], batch.psi \in Psi,
           NEW i \in 1..(CalibrationNResamples + 1)
    PROVE  LET w == Statistics(Calibrated!Without(i))
           IN  /\ w \in Seq(0..CalibrationMaxLevel) /\ Len(w) = CalibrationNResamples
               /\ \A j \in 1..CalibrationNResamples :
                     w[j] = IF j < i THEN Largest[j] ELSE Largest[j + 1]
<1> DEFINE N == CalibrationNResamples
           t == Calibrated!Without(i)
           w == Statistics(t)
<1>0. N \in Nat
  BY CalibrationConstants
<1>1. /\ t \in Seq(Psi) /\ Len(t) = N
      /\ \A j \in 1..N : t[j] = IF j < i THEN Calibrated!Pool[j] ELSE Calibrated!Pool[j + 1]
  <2>1. /\ Calibrated!Pool \in Seq(Psi) /\ Len(Calibrated!Pool) = N + 1
        /\ i \in 1..Len(Calibrated!Pool)
    BY PoolOfAll
  <2>2. Len(Calibrated!Pool) - 1 = N
    BY <1>0, <2>1
  <2> QED BY <2>1, <2>2, Dropped DEF Calibrated!Without
<1> HIDE DEF t
<1>2. DOMAIN t = 1..N /\ \A j \in 1..N : t[j] \in Psi
  BY <1>1
<1>3. w = [j \in 1..N |-> Calibrated!MaxPsi(t[j])]
  BY <1>2 DEF Statistics, Calibrated!FamilyStatistic
<1>4. w \in [1..N -> 0..CalibrationMaxLevel]
  BY <1>2, <1>3, MaxPsiIsALevel
<1>5. w \in Seq(0..CalibrationMaxLevel) /\ Len(w) = N
  <2> HIDE DEF w, N
  <2> QED BY <1>0, <1>4, FunctionIsSeq
<1>6. ASSUME NEW j \in 1..N PROVE w[j] = IF j < i THEN Largest[j] ELSE Largest[j + 1]
  <2>1. j \in 1..(N + 1) /\ j + 1 \in 1..(N + 1)
    BY <1>0
  <2>2. w[j] = Calibrated!MaxPsi(t[j])
    BY <1>3
  <2> HIDE DEF w
  <2> QED BY <1>1, <2>1, <2>2 DEF Largest
<1> QED BY <1>5, <1>6 DEF t

LEMMA RaisedIsHigh ==
    ASSUME familyWise \in [1..CalibrationNResamples -> Psi], batch.psi \in Psi,
           \A i, j \in 1..(CalibrationNResamples + 1) : Largest[i] = Largest[j] => i = j,
           NEW i \in 1..(CalibrationNResamples + 1), NEW p \in 0..100,
           100 * Largest[i] >= Calibrated!Percentile(Statistics(Calibrated!Without(i)), p)
    PROVE  Cardinality(Below(Largest, CalibrationNResamples + 1, i)) >= Rank(CalibrationNResamples, p)
<1> DEFINE N == CalibrationNResamples
           x == Largest
           w == Statistics(Calibrated!Without(i))
           k == Rank(N, p)
           low == Calibrated!Smallest(w, k)
           S == AtMostLevel(w, N, low)
           T == Below(x, N + 1, i)
           f == [j \in S |-> IF j < i THEN j ELSE j + 1]
<1>0. N \in Nat \ {0} /\ CalibrationMaxLevel \in Nat
  BY CalibrationConstants
<1>1. /\ w \in Seq(0..CalibrationMaxLevel) /\ Len(w) = N /\ w \in [1..N -> 0..CalibrationMaxLevel]
      /\ \A j \in 1..N : w[j] = IF j < i THEN x[j] ELSE x[j + 1]
  BY StatisticsOfOthers, LenProperties
<1>2. x \in [1..(N + 1) -> 0..CalibrationMaxLevel]
  BY PoolOfAll
<1>3. k \in 1..N
  BY <1>0, RankIsARank
<1> HIDE DEF w, x, k
<1>4. low \in 0..CalibrationMaxLevel /\ Cardinality(S) >= k
  BY <1>0, <1>1, <1>3, SmallestIsThere
<1>5. 100 * x[i] >= 100 * low
  <2>1. Calibrated!Percentile(w, p) >= 100 * low
    BY <1>0, <1>1, PercentileReachesRank DEF k
  <2>2. 100 * x[i] >= Calibrated!Percentile(w, p)
    BY DEF x, w
  <2>3. x[i] \in Nat /\ low \in Nat
    BY <1>0, <1>2, <1>4
  <2>4. Calibrated!Percentile(w, p) \in Int
    BY <1>0, <1>1, PercentileReachesRank
  <2> QED BY <2>1, <2>2, <2>3, <2>4
<1>6. ASSUME NEW j \in S
      PROVE  /\ j \in 1..N /\ f[j] \in 1..(N + 1) /\ f[j] # i /\ w[j] = x[f[j]] /\ w[j] <= low
  <2>1. j \in 1..N /\ w[j] <= low
    BY DEF AtMostLevel
  <2>2. f[j] = IF j < i THEN j ELSE j + 1
    OBVIOUS
  <2> HIDE DEF f
  <2>3. f[j] \in 1..(N + 1) /\ f[j] # i
    BY <1>0, <2>1, <2>2
  <2> QED BY <1>1, <2>1, <2>2, <2>3
<1>7. f \in [S -> T]
  <2>1. ASSUME NEW j \in S PROVE f[j] \in T
    <3>1. x[f[j]] <= low /\ f[j] \in 1..(N + 1) /\ f[j] # i
      BY <1>6
    <3>2. x[f[j]] # x[i]
      BY <3>1 DEF x
    <3>3. x[f[j]] \in Nat /\ x[i] \in Nat /\ low \in Nat
      BY <1>0, <1>2, <1>4, <3>1
    <3>4. x[f[j]] < x[i]
      BY <1>5, <3>1, <3>2, <3>3
    <3> QED BY <3>1, <3>4 DEF Below
  <2>2. f = [j \in S |-> f[j]]
    OBVIOUS
  <2> HIDE DEF f, S, T
  <2> QED BY <2>1, <2>2
<1>8. \A a, b \in S : f[a] = f[b] => a = b
  <2> SUFFICES ASSUME NEW a \in S, NEW b \in S, f[a] = f[b] PROVE a = b
    OBVIOUS
  <2>1. a \in 1..N /\ b \in 1..N
    BY DEF AtMostLevel
  <2> QED BY <2>1
<1>9. T \in SUBSET (1..(N + 1)) /\ S \in SUBSET (1..N)
  BY DEF Below, AtMostLevel
<1>10. IsFiniteSet(T) /\ Cardinality(T) \in Nat /\ Cardinality(S) \in Nat
  <2>1. N + 1 \in Nat /\ N \in Nat
    BY <1>0
  <2> HIDE DEF S, T
  <2> QED BY <1>9, <2>1, CountOfPart
<1>11. Cardinality(S) <= Cardinality(T)
  <2> HIDE DEF S, T, f
  <2> QED BY <1>7, <1>8, <1>10, Injected
<1>12. Cardinality(T) >= k
  BY <1>3, <1>4, <1>10, <1>11
<1> QED BY <1>12 DEF x, k

(* As many as the rank of the percentile leaves above it raise the checks  *)
(* of a given state.                                                       *)
LEMMA FewAreRaised ==
    ASSUME familyWise \in [1..CalibrationNResamples -> Psi], batch.psi \in Psi,
           \A i, j \in 1..(CalibrationNResamples + 1) : Largest[i] = Largest[j] => i = j,
           NEW p \in 0..100, NEW R \in SUBSET (1..(CalibrationNResamples + 1)),
           \A i \in R : Cardinality(Below(Largest, CalibrationNResamples + 1, i))
                            >= Rank(CalibrationNResamples, p)
    PROVE  Cardinality(R) <= Calibrated!AtMost(p)
<1> DEFINE n == CalibrationNResamples + 1
           k == Rank(CalibrationNResamples, p)
           T == {i \in 1..n : Cardinality(Below(Largest, n, i)) >= k}
<1>0. CalibrationNResamples \in Nat \ {0} /\ CalibrationMaxLevel \in Nat
  BY CalibrationConstants
<1>1. n \in Nat /\ k \in 0..n /\ Largest \in [1..n -> Nat]
  <2>1. k \in 1..CalibrationNResamples
    BY <1>0, RankIsARank
  <2>2. Largest \in [1..n -> 0..CalibrationMaxLevel]
    BY PoolOfAll
  <2> HIDE DEF k
  <2> QED BY <1>0, <2>1, <2>2
<1>2. Cardinality(T) <= n - k
  <2> HIDE DEF n, k
  <2>1. \A i, j \in 1..n : Largest[i] = Largest[j] => i = j
    BY DEF n
  <2> QED BY <1>1, <2>1, FewAreHigh
<1>3. R \in SUBSET T /\ T \in SUBSET (1..n)
  OBVIOUS
<1>4. IsFiniteSet(T) /\ Cardinality(T) \in Nat /\ Cardinality(R) \in Nat
  <2> HIDE DEF T, n
  <2>1. R \in SUBSET (1..n)
    BY <1>3
  <2> QED BY <1>1, <1>3, <2>1, CountOfPart
<1>5. Cardinality(R) <= Cardinality(T)
  <2> HIDE DEF T
  <2> QED BY <1>3, <1>4, FS_Subset
<1>6. n - k = Calibrated!AtMost(p)
  <2> DEFINE q == ((CalibrationNResamples - 1) * p) \div 100
  <2>1. q \in Nat
    BY <1>0, RankIsARank
  <2>2. k = q + 1 /\ Calibrated!AtMost(p) = CalibrationNResamples - q
    BY Zenon DEF Rank, Calibrated!AtMost
  <2> HIDE DEF q, k
  <2> QED BY <1>0, <2>1, <2>2
<1> HIDE DEF n, k, T
<1> QED BY <1>1, <1>2, <1>4, <1>5, <1>6

(* What a study has at hand: its own resamples, and the state of its last  *)
(* batch by their percentiles.                                             *)
CalibrationInv ==
    /\ study.kind \in {"none", "calibrated", "false_alerts", "sensitivity"}
    /\ study.kind \in {"none", "calibrated"} => batch = Calibrated!NoBatch
    /\ study.kind \in {"false_alerts", "sensitivity"} =>
          /\ familyWise \in [1..CalibrationNResamples -> Psi]
          /\ study.size \in CalibrationSizes
    /\ batch # Calibrated!NoBatch =>
          /\ batch.psi \in Psi /\ batch.size = study.size
          /\ batch.state = Calibrated!ClassifyState(Calibrated!MaxPsi(batch.psi),
                                                    Calibrated!FamilyCutoffs(familyWise), study.size)

LEMMA CalibrationInvInit == Calibrated!CalibrationInit => CalibrationInv
BY DEF Calibrated!CalibrationInit, CalibrationInv, Calibrated!NoStudy

LEMMA CalibrationInvStep ==
    ASSUME CalibrationInv, Calibrated!CalibrationNext \/ UNCHANGED calibrationVars
    PROVE  CalibrationInv'
<1>1. CASE UNCHANGED calibrationVars
  BY <1>1 DEF CalibrationInv, calibrationVars, Calibrated!ClassifyState, Calibrated!MaxPsi,
              Calibrated!FamilyCutoffs, Calibrated!FamilyStatistic
<1>2. CASE Calibrated!Calibrate
  BY <1>2 DEF CalibrationInv, Calibrated!Calibrate, Calibrated!NoStudy
<1>3. ASSUME NEW size \in CalibrationSizes, NEW kind \in {"false_alerts", "sensitivity"},
             Calibrated!BeginStudy(kind, size)
      PROVE  CalibrationInv'
  BY <1>3 DEF CalibrationInv, Calibrated!BeginStudy, Psi, Calibrated!Levels
<1>4. ASSUME NEW psi \in Psi, NEW auc, Calibrated!RunBatch(psi, auc) PROVE CalibrationInv'
  BY <1>4 DEF CalibrationInv, Calibrated!RunBatch
<1>5. ASSUME NEW psi \in Psi, Calibrated!RunPerturbed(psi) PROVE CalibrationInv'
  BY <1>5 DEF CalibrationInv, Calibrated!RunPerturbed
<1>6. CASE Calibrated!Report
  BY <1>6 DEF CalibrationInv, Calibrated!Report
<1>7. ASSUME Calibrated!CalibrationNext
      PROVE  \/ Calibrated!Calibrate
             \/ \E size \in CalibrationSizes, kind \in {"false_alerts", "sensitivity"} :
                   Calibrated!BeginStudy(kind, size)
             \/ \E psi \in Psi : \E auc : Calibrated!RunBatch(psi, auc)
             \/ \E psi \in Psi : Calibrated!RunPerturbed(psi)
             \/ Calibrated!Report
  BY <1>7, Zenon DEF Calibrated!CalibrationNext, Psi, Calibrated!Levels
<1> QED BY <1>1, <1>2, <1>3, <1>4, <1>5, <1>6, <1>7

(* A higher percentile has no lower rank; without the batch, its resamples. *)
LEMMA RankGrows ==
    ASSUME NEW m \in Nat \ {0}, NEW p \in 0..100, NEW q \in 0..100, p <= q
    PROVE  Rank(m, p) <= Rank(m, q)
<1> DEFINE a == (m - 1) * p
           b == (m - 1) * q
<1>1. a \in Nat /\ b \in Nat
  BY RankIsARank
<1>2. a <= b
  <2>1. m - 1 \in Nat /\ q - p \in Nat /\ b = a + (m - 1) * (q - p)
    OBVIOUS
  <2>2. \A x, y \in Nat : x * y \in Nat
    OBVIOUS
  <2>3. (m - 1) * (q - p) \in Nat
    BY <2>1, <2>2
  <2> HIDE DEF a, b
  <2> QED BY <1>1, <2>1, <2>3
<1> HIDE DEF a, b
<1>3. a \div 100 <= b \div 100
  BY <1>1, <1>2
<1>4. a \div 100 \in Nat /\ b \div 100 \in Nat
  BY <1>1
<1> QED BY <1>3, <1>4 DEF Rank, a, b

LEMMA WithoutTheBatch ==
    ASSUME familyWise \in [1..CalibrationNResamples -> Psi], batch.psi \in Psi
    PROVE  Calibrated!Without(CalibrationNResamples + 1) = familyWise
<1> DEFINE N == CalibrationNResamples
           t == Calibrated!Without(N + 1)
<1>0. N \in Nat
  BY CalibrationConstants
<1>1. /\ Calibrated!Pool \in Seq(Psi) /\ Len(Calibrated!Pool) = N + 1
      /\ \A j \in 1..N : Calibrated!Pool[j] = familyWise[j]
  BY PoolOfAll
<1>2. /\ t \in Seq(Psi) /\ Len(t) = N
      /\ \A j \in 1..N : t[j] = IF j < N + 1 THEN Calibrated!Pool[j] ELSE Calibrated!Pool[j + 1]
  <2>1. N + 1 \in 1..Len(Calibrated!Pool) /\ Len(Calibrated!Pool) - 1 = N
    BY <1>0, <1>1
  <2> QED BY <1>1, <2>1, Dropped DEF Calibrated!Without
<1> HIDE DEF t
<1>3. \A j \in 1..N : t[j] = familyWise[j]
  BY <1>0, <1>1, <1>2
<1>4. t = [j \in 1..N |-> t[j]] /\ familyWise = [j \in 1..N |-> familyWise[j]]
  BY <1>2
<1> QED BY <1>3, <1>4 DEF t

(* The bound on the family-wise rate.                                      *)
LEMMA FamilyWiseRate ==
    ASSUME CalibrationInv
    PROVE  Calibrated!FamilyWiseRateIsBounded
<1> SUFFICES ASSUME study.kind = "false_alerts", batch # Calibrated!NoBatch,
                    batch.size >= CalibrationMinSample,
                    Cardinality({Calibrated!MaxPsi(Calibrated!Pool[i]) : i \in DOMAIN Calibrated!Pool})
                        = Len(Calibrated!Pool)
             PROVE  /\ Cardinality(Calibrated!Raised({"review", "material_deviation"}))
                           <= Calibrated!AtMost(CalibrationReviewPercent)
                    /\ Cardinality(Calibrated!Raised({"material_deviation"}))
                           <= Calibrated!AtMost(CalibrationMaterialPercent)
                    /\ Calibrated!Fired(batch.state) =>
                           Len(Calibrated!Pool) \in Calibrated!Raised({"review", "material_deviation"})
  BY CalibratedCardinality DEF Calibrated!FamilyWiseRateIsBounded
<1> DEFINE N == CalibrationNResamples
           n == N + 1
           Raised(states) == Calibrated!Raised(states)
           State(i) == Calibrated!ClassifyState(Largest[i], Calibrated!FamilyCutoffs(Calibrated!Without(i)),
                                                study.size)
           Cut(i, p) == Calibrated!Percentile(Statistics(Calibrated!Without(i)), p)
<1>1. familyWise \in [1..N -> Psi] /\ batch.psi \in Psi /\ study.size \in Nat
      /\ study.size >= CalibrationMinSample
  BY CalibrationConstants DEF CalibrationInv
<1>2. /\ N \in Nat \ {0} /\ CalibrationMinSample \in Nat
      /\ CalibrationReviewPercent \in 0..100 /\ CalibrationMaterialPercent \in 0..100
      /\ CalibrationReviewPercent <= CalibrationMaterialPercent /\ CalibrationMaxLevel \in Nat
  BY CalibrationConstants
<1>3. /\ DOMAIN Calibrated!Pool = 1..n /\ Len(Calibrated!Pool) = n
      /\ Calibrated!Pool[n] = batch.psi
      /\ Largest \in [1..n -> 0..CalibrationMaxLevel]
  BY <1>1, PoolOfAll
<1>4. \A i, j \in 1..n : Largest[i] = Largest[j] => i = j
  <2>1. {Calibrated!MaxPsi(Calibrated!Pool[i]) : i \in DOMAIN Calibrated!Pool} = {Largest[i] : i \in 1..n}
    BY <1>3 DEF Largest
  <2>2. Cardinality({Largest[i] : i \in 1..n}) = n
    BY <1>3, <2>1
  <2>3. n \in Nat /\ Largest \in [1..n -> Nat]
    BY <1>2, <1>3
  <2> HIDE DEF n
  <2> QED BY <2>2, <2>3, AllDifferent
<1>5. ASSUME NEW states
      PROVE  Raised(states) = {i \in 1..n : State(i) \in states}
  <2>1. \A i \in 1..n : Largest[i] = Calibrated!MaxPsi(Calibrated!Pool[i])
    BY DEF Largest
  <2> QED BY <1>3, <2>1 DEF Calibrated!Raised
<1>6. ASSUME NEW i \in 1..n
      PROVE  /\ Calibrated!FamilyCutoffs(Calibrated!Without(i)) =
                    [review |-> Cut(i, CalibrationReviewPercent),
                     material |-> Cut(i, CalibrationMaterialPercent)]
             /\ Cut(i, CalibrationReviewPercent) \in Int /\ Cut(i, CalibrationMaterialPercent) \in Int
  <2> DEFINE w == Statistics(Calibrated!Without(i))
  <2>1. w \in Seq(0..CalibrationMaxLevel) /\ Len(w) = N
    BY <1>1, StatisticsOfOthers
  <2>2. w # <<>>
    <3> HIDE DEF w, N
    <3> QED BY <1>2, <2>1
  <2>3. Calibrated!FamilyCutoffs(Calibrated!Without(i)) = Calibrated!Cutoffs(w)
    BY DEF Calibrated!FamilyCutoffs, Statistics
  <2>4. Cut(i, CalibrationReviewPercent) \in Int /\ Cut(i, CalibrationMaterialPercent) \in Int
    <3> HIDE DEF w, N
    <3>1. /\ Calibrated!Percentile(w, CalibrationReviewPercent) \in Int
          /\ Calibrated!Percentile(w, CalibrationMaterialPercent) \in Int
      BY <1>2, <2>1, PercentileReachesRank
    <3> QED BY <3>1 DEF w
  <2> HIDE DEF w
  <2>5. Calibrated!Cutoffs(w) = [review |-> Calibrated!Percentile(w, CalibrationReviewPercent),
                                 material |-> Calibrated!Percentile(w, CalibrationMaterialPercent)]
    BY <2>2 DEF Calibrated!Cutoffs
  <2> QED BY <2>3, <2>4, <2>5 DEF w
<1>7. ASSUME NEW i \in 1..n
      PROVE  /\ State(i) = "material_deviation" => 100 * Largest[i] >= Cut(i, CalibrationMaterialPercent)
             /\ State(i) = "review" => 100 * Largest[i] >= Cut(i, CalibrationReviewPercent)
  <2> HIDE DEF Cut
  <2> QED BY <1>1, <1>2, <1>6 DEF Calibrated!ClassifyState
<1>8. ASSUME NEW i \in 1..n, NEW p \in 0..100, 100 * Largest[i] >= Cut(i, p)
      PROVE  Cardinality(Below(Largest, n, i)) >= Rank(N, p)
  BY <1>1, <1>4, <1>8, RaisedIsHigh
<1>9. Rank(N, CalibrationReviewPercent) <= Rank(N, CalibrationMaterialPercent)
  BY <1>2, RankGrows
<1>10. /\ Rank(N, CalibrationReviewPercent) \in Nat /\ Rank(N, CalibrationMaterialPercent) \in Nat
  <2>1. \A p \in 0..100 : Rank(N, p) \in 1..N
    BY <1>2, RankIsARank
  <2> DEFINE a == Rank(N, CalibrationReviewPercent)
             b == Rank(N, CalibrationMaterialPercent)
  <2>2. a \in 1..N /\ b \in 1..N
    BY <1>2, <2>1, Zenon
  <2> HIDE DEF a, b
  <2>3. a \in Nat /\ b \in Nat
    BY <2>2
  <2> QED BY <2>3 DEF a, b
<1>11. \A i \in 1..n : Cardinality(Below(Largest, n, i)) \in Nat
  <2> SUFFICES ASSUME NEW i \in 1..n PROVE Cardinality(Below(Largest, n, i)) \in Nat
    OBVIOUS
  <2>1. n \in Nat /\ Below(Largest, n, i) \in SUBSET (1..n)
    BY <1>2 DEF Below
  <2> HIDE DEF n
  <2> QED BY <2>1, CountOfPart
<1>12. Cardinality(Raised({"material_deviation"})) <= Calibrated!AtMost(CalibrationMaterialPercent)
  <2> DEFINE R == Raised({"material_deviation"})
  <2>1. R \in SUBSET (1..n)
    BY <1>5
  <2>2. \A i \in R : Cardinality(Below(Largest, n, i)) >= Rank(N, CalibrationMaterialPercent)
    <3> SUFFICES ASSUME NEW i \in R
                 PROVE  Cardinality(Below(Largest, n, i)) >= Rank(N, CalibrationMaterialPercent)
      OBVIOUS
    <3>1. i \in 1..n /\ State(i) = "material_deviation"
      BY <1>5
    <3> HIDE DEF State, Cut
    <3> QED BY <1>2, <1>7, <1>8, <3>1
  <2> HIDE DEF R
  <2>3. Cardinality(R) <= Calibrated!AtMost(CalibrationMaterialPercent)
    BY <1>1, <1>2, <1>4, <2>1, <2>2, FewAreRaised
  <2> QED BY <2>3 DEF R
<1>13. Cardinality(Raised({"review", "material_deviation"})) <= Calibrated!AtMost(CalibrationReviewPercent)
  <2> DEFINE R == Raised({"review", "material_deviation"})
  <2>1. R \in SUBSET (1..n)
    BY <1>5
  <2>2. \A i \in R : Cardinality(Below(Largest, n, i)) >= Rank(N, CalibrationReviewPercent)
    <3> SUFFICES ASSUME NEW i \in R
                 PROVE  Cardinality(Below(Largest, n, i)) >= Rank(N, CalibrationReviewPercent)
      OBVIOUS
    <3>1. i \in 1..n /\ State(i) \in {"review", "material_deviation"}
      BY <1>5
    <3> HIDE DEF State, Cut
    <3>2. \/ Cardinality(Below(Largest, n, i)) >= Rank(N, CalibrationReviewPercent)
          \/ Cardinality(Below(Largest, n, i)) >= Rank(N, CalibrationMaterialPercent)
      BY <1>2, <1>7, <1>8, <3>1
    <3> QED BY <1>9, <1>10, <1>11, <3>1, <3>2
  <2> HIDE DEF R
  <2>3. Cardinality(R) <= Calibrated!AtMost(CalibrationReviewPercent)
    BY <1>1, <1>2, <1>4, <2>1, <2>2, FewAreRaised
  <2> QED BY <2>3 DEF R
<1>14. Calibrated!Fired(batch.state) => n \in Raised({"review", "material_deviation"})
  <2>1. n \in 1..n /\ Largest[n] = Calibrated!MaxPsi(batch.psi)
    BY <1>2, <1>3 DEF Largest
  <2>2. Calibrated!Without(n) = familyWise
    BY <1>1, WithoutTheBatch
  <2>3. batch.state = State(n)
    BY <2>1, <2>2 DEF CalibrationInv
  <2>4. State(n) # "insufficient_sample" /\ State(n) \in {"insufficient_sample", "material_deviation",
                                                         "review", "within_reference_variability"}
    <3> HIDE DEF Cut
    <3> QED BY <1>1, <1>2, <1>6, <2>1 DEF Calibrated!ClassifyState
  <2> HIDE DEF State
  <2> QED BY <1>5, <2>1, <2>3, <2>4 DEF Calibrated!Fired
<1> QED BY <1>3, <1>12, <1>13, <1>14

(***************************************************************************)
(* The thresholds of the false alert study (monitoring/thresholds.py,      *)
(* calibration_study.py): a batch is judged by the resamples of its study. *)
(***************************************************************************)
THEOREM CalibrationInvariant == StudiesSpec => [](focus = "calibration" => CalibrationInv)
<1>1. FocusInit /\ StudiesInit => (focus = "calibration" => CalibrationInv)
  BY CalibrationInvInit DEF StudiesInit, CalibrationInit
<1>2. (focus = "calibration" => CalibrationInv) /\ [StudiesNext]_studiesVars
          => (focus = "calibration" => CalibrationInv)'
  BY FocusMoves, CalibrationInvStep
<1> QED BY <1>1, <1>2, PTL DEF StudiesSpec

(***************************************************************************)
(* calibration_study.py: of a batch without drift and the resamples behind *)
(* the family-wise threshold, whatever the features, the number of         *)
(* resamples and the percentiles, no more could have raised a check than   *)
(* the percentile leaves above it.                                         *)
(***************************************************************************)
THEOREM FamilyWiseRatesAreBounded == StudiesSpec => []FamilyWiseRateIsBounded
<1>1. (focus = "calibration" => CalibrationInv) => FamilyWiseRateIsBounded
  BY FamilyWiseRate DEF FamilyWiseRateIsBounded
<1> QED BY <1>1, CalibrationInvariant, PTL
-----------------------------------------------------------------------------
(***************************************************************************)
(* Repeating a step n times, from a first value.                           *)
(***************************************************************************)
Iterations(n, T, first, step) ==
    {f \in [0..n -> T] : f[0] = first /\ \A k \in 1..n : f[k] = step[k][f[k - 1]]}

LEMMA Iterated ==
    ASSUME NEW n \in Nat, NEW T, NEW first \in T, NEW step \in [1..n -> [T -> T]]
    PROVE  Iterations(n, T, first, step) # {}
<1> DEFINE Upto(m, f) == f[0] = first /\ \A k \in 1..m : f[k] = step[k][f[k - 1]]
           Good == {m \in 0..n : \E f \in [0..m -> T] : Upto(m, f)}
<1>1. 0 \in Good
  <2> DEFINE f == [k \in 0..0 |-> first]
  <2>1. f \in [0..0 -> T] /\ Upto(0, f)
    OBVIOUS
  <2> HIDE DEF f, Upto
  <2> QED BY <2>1
<1>2. \A m \in 0..n : m \in Good /\ m + 1 <= n => m + 1 \in Good
  <2> SUFFICES ASSUME NEW m \in 0..n, m \in Good, m + 1 <= n PROVE m + 1 \in Good
    OBVIOUS
  <2>1. PICK f \in [0..m -> T] : Upto(m, f)
    OBVIOUS
  <2> DEFINE last == step[m + 1][f[m]]
             g == [k \in 0..(m + 1) |-> IF k = m + 1 THEN last ELSE f[k]]
  <2>0. m \in 0..m /\ m \in Nat /\ m + 1 \in 1..n
    OBVIOUS
  <2>2. last \in T
    BY <2>0
  <2> HIDE DEF last
  <2>3. g \in [0..(m + 1) -> T]
    BY <2>2
  <2>4. \A k \in 1..m : g[k] = f[k] /\ g[k - 1] = f[k - 1]
    <3> SUFFICES ASSUME NEW k \in 1..m PROVE g[k] = f[k] /\ g[k - 1] = f[k - 1]
      OBVIOUS
    <3>1. k \in 0..(m + 1) /\ k - 1 \in 0..(m + 1) /\ k # m + 1 /\ k - 1 # m + 1
      BY <2>0
    <3> QED BY <3>1
  <2>5. g[m + 1] = last /\ g[m] = f[m] /\ g[0] = f[0]
    BY <2>0
  <2> HIDE DEF g
  <2>6. Upto(m + 1, g)
    <3>1. ASSUME NEW k \in 1..(m + 1) PROVE g[k] = step[k][g[k - 1]]
      <4>1. CASE k = m + 1
        BY <2>0, <2>5, <4>1 DEF last
      <4>2. CASE k # m + 1
        BY <2>0, <2>1, <2>4, <4>2
      <4> QED BY <4>1, <4>2
    <3> QED BY <2>1, <2>5, <3>1
  <2> HIDE DEF Upto
  <2> QED BY <2>0, <2>3, <2>6
<1> HIDE DEF Upto
<1>3. n \in Good
  <2>1. \A m \in 0..n : m \in Good
    <3> HIDE DEF Good
    <3> QED BY <1>1, <1>2, UpToInduction
  <2> HIDE DEF Good
  <2> QED BY <2>1
<1> QED BY <1>3 DEF Upto, Iterations

(***************************************************************************)
(* A monitoring run.  Every signal is of the batch it was raised for, so   *)
(* that the signals of a batch and a category are known from what was      *)
(* observed in it.                                                         *)
(***************************************************************************)
StreamInv ==
    /\ watched \subseteq Stream!Categories
    /\ observed \in Seq(Stream!Observation)
    /\ \A b \in 1..Len(observed) : Stream!Relevant(observed[b])
    /\ alerts = UNION {Stream!ProcessBatch(b, observed[b]) : b \in 1..Len(observed)}
    /\ \/ incidentReport = Stream!NoReport
       \/ /\ incidentReport.written /\ Len(observed) = StreamBatches
          /\ incidentReport.groups = Stream!BuildAlertGroups
          /\ incidentReport.incidents = Stream!BuildIncidents(Stream!BuildAlertGroups)

LEMMA StreamConstants ==
    /\ StreamBatches \in Nat /\ StreamWindow \in Nat \ {0}
    /\ Streams \subseteq SUBSET Stream!Categories
BY StudiesAssumption DEF StudiesAssumption, Stream!IncidentsAssumption

LEMMA StreamInvInit == Stream!Init => StreamInv
<1> SUFFICES ASSUME Stream!Init PROVE StreamInv
  OBVIOUS
<1>1. observed = <<>> /\ alerts = {} /\ watched \in Streams /\ incidentReport = Stream!NoReport
  BY DEF Stream!Init
<1>2. observed \in Seq(Stream!Observation) /\ Len(observed) = 0
  BY <1>1
<1>3. 1..Len(observed) = {}
  BY <1>2
<1> HIDE DEF Stream!Observation
<1> QED BY <1>1, <1>2, <1>3, StreamConstants DEF StreamInv

(* What a batch raises depends on it and on what is watched alone.         *)
LEMMA RaisedStays ==
    ASSUME UNCHANGED <<watched, calibrated>>, NEW b, NEW o
    PROVE  /\ Stream!ProcessBatch(b, o)' = Stream!ProcessBatch(b, o)
           /\ Stream!Relevant(o)' = Stream!Relevant(o)
           /\ Stream!Observation' = Stream!Observation
BY DEF Stream!ProcessBatch, Stream!QualitySignals, Stream!FamilySignals, Stream!CheckSignals,
       Stream!Checked, Stream!Graded, Stream!Thresholds, Stream!Relevant, Stream!Observation

LEMMA GroupsStay ==
    ASSUME UNCHANGED alerts
    PROVE  /\ Stream!BuildAlertGroups' = Stream!BuildAlertGroups
           /\ Stream!BuildIncidents(Stream!BuildAlertGroups)' = Stream!BuildIncidents(Stream!BuildAlertGroups)
BY DEF Stream!BuildAlertGroups, Stream!AlertGroup, Stream!SignalsOf, Stream!ConfirmedNext

(* An invariant of a step that keeps what is watched.                      *)
LEMMA StreamInvPrimed ==
    ASSUME UNCHANGED <<watched, calibrated>>, watched \subseteq Stream!Categories,
           observed' \in Seq(Stream!Observation),
           \A b \in 1..Len(observed') : Stream!Relevant(observed'[b]),
           alerts' = UNION {Stream!ProcessBatch(b, observed'[b]) : b \in 1..Len(observed')},
           \/ incidentReport' = Stream!NoReport
           \/ /\ incidentReport'.written /\ Len(observed') = StreamBatches
              /\ incidentReport'.groups = Stream!BuildAlertGroups'
              /\ incidentReport'.incidents = Stream!BuildIncidents(Stream!BuildAlertGroups)'
    PROVE  StreamInv'
<1>1. (watched \subseteq Stream!Categories)'
  BY DEF Stream!Categories
<1>2. (observed \in Seq(Stream!Observation))'
  <2>1. observed' \in Seq(Stream!Observation')
    BY RaisedStays, Zenon
  <2> QED BY <2>1
<1>3. (\A b \in 1..Len(observed) : Stream!Relevant(observed[b]))'
  BY RaisedStays
<1>4. (alerts = UNION {Stream!ProcessBatch(b, observed[b]) : b \in 1..Len(observed)})'
  <2>1. \A b \in 1..Len(observed') : Stream!ProcessBatch(b, observed[b])' = Stream!ProcessBatch(b, observed'[b])
    BY RaisedStays
  <2> QED BY <2>1
<1>5. (\/ incidentReport = Stream!NoReport
       \/ /\ incidentReport.written /\ Len(observed) = StreamBatches
          /\ incidentReport.groups = Stream!BuildAlertGroups
          /\ incidentReport.incidents = Stream!BuildIncidents(Stream!BuildAlertGroups))'
  BY DEF Stream!NoReport
<1> QED BY <1>1, <1>2, <1>3, <1>4, <1>5 DEF StreamInv

LEMMA StreamInvStep ==
    ASSUME StreamInv, Stream!Next \/ UNCHANGED streamVars
    PROVE  StreamInv'
<1>0. watched' = watched /\ calibrated' = calibrated
  BY DEF Stream!Next, Stream!Process, Stream!WriteReport, streamVars
<1>1. ASSUME UNCHANGED <<observed, alerts>>,
             \/ incidentReport' = incidentReport
             \/ /\ incidentReport'.written /\ Len(observed) = StreamBatches
                /\ incidentReport'.groups = Stream!BuildAlertGroups
                /\ incidentReport'.incidents = Stream!BuildIncidents(Stream!BuildAlertGroups)
      PROVE  StreamInv'
  <2>1. /\ Stream!BuildAlertGroups' = Stream!BuildAlertGroups
        /\ Stream!BuildIncidents(Stream!BuildAlertGroups)' = Stream!BuildIncidents(Stream!BuildAlertGroups)
    BY <1>1, GroupsStay
  <2>2. \/ incidentReport' = Stream!NoReport
        \/ /\ incidentReport'.written /\ Len(observed') = StreamBatches
           /\ incidentReport'.groups = Stream!BuildAlertGroups'
           /\ incidentReport'.incidents = Stream!BuildIncidents(Stream!BuildAlertGroups)'
    BY <1>1, <2>1 DEF StreamInv
  <2>3. /\ watched \subseteq Stream!Categories
        /\ observed' \in Seq(Stream!Observation)
        /\ \A b \in 1..Len(observed') : Stream!Relevant(observed'[b])
        /\ alerts' = UNION {Stream!ProcessBatch(b, observed'[b]) : b \in 1..Len(observed')}
    BY <1>1, Zenon DEF StreamInv
  <2> QED BY <1>0, <2>2, <2>3, StreamInvPrimed
<1>2. CASE Stream!Process
  <2>1. PICK o \in Stream!Observation :
           /\ Stream!Relevant(o)
           /\ alerts' = alerts \cup Stream!ProcessBatch(Len(observed) + 1, o)
           /\ observed' = Append(observed, o)
    BY <1>2 DEF Stream!Process
  <2>2. incidentReport' = incidentReport /\ Len(observed) < StreamBatches
    BY <1>2 DEF Stream!Process
  <2> DEFINE n == Len(observed)
             Of(b) == Stream!ProcessBatch(b, observed'[b])
  <2>3. observed \in Seq(Stream!Observation) /\ n \in Nat
    BY DEF StreamInv
  <2>4. /\ observed' \in Seq(Stream!Observation) /\ Len(observed') = n + 1
        /\ \A b \in 1..n : observed'[b] = observed[b]
        /\ observed'[n + 1] = o
    <3> HIDE DEF Stream!Observation
    <3> QED BY <2>1, <2>3
  <2>5. \A b \in 1..(n + 1) : Stream!Relevant(observed'[b])
    <3>1. \A b \in 1..n : Stream!Relevant(observed[b])
      BY DEF StreamInv
    <3>2. \A b \in 1..(n + 1) : b \in 1..n \/ b = n + 1
      BY <2>3
    <3> HIDE DEF Stream!Relevant, n
    <3> QED BY <2>1, <2>4, <3>1, <3>2
  <2>6. alerts' = UNION {Of(b) : b \in 1..(n + 1)}
    <3>1. alerts = UNION {Stream!ProcessBatch(b, observed[b]) : b \in 1..n}
      BY DEF StreamInv
    <3>2. \A b \in 1..n : Stream!ProcessBatch(b, observed[b]) = Of(b)
      BY <2>4
    <3>3. Of(n + 1) = Stream!ProcessBatch(n + 1, o)
      BY <2>4
    <3>4. 1..(n + 1) = (1..n) \cup {n + 1}
      BY <2>3
    <3> HIDE DEF n, Of
    <3>5. alerts = UNION {Of(b) : b \in 1..n}
      BY <3>1, <3>2
    <3> QED BY <2>1, <3>3, <3>4, <3>5 DEF n
  <2>7. incidentReport' = Stream!NoReport
    <3>1. Len(observed) # StreamBatches
      BY <2>2, <2>3, StreamConstants
    <3> QED BY <2>2, <3>1 DEF StreamInv
  <2>8. watched \subseteq Stream!Categories
    BY DEF StreamInv
  <2> QED BY <1>0, <2>4, <2>5, <2>6, <2>7, <2>8, StreamInvPrimed
<1>3. CASE Stream!WriteReport
  <2>1. /\ UNCHANGED <<observed, alerts>> /\ Len(observed) = StreamBatches
        /\ incidentReport'.written /\ incidentReport'.groups = Stream!BuildAlertGroups
        /\ incidentReport'.incidents = Stream!BuildIncidents(Stream!BuildAlertGroups)
    BY <1>3 DEF Stream!WriteReport
  <2> QED BY <1>1, <2>1
<1>4. CASE UNCHANGED streamVars
  BY <1>1, <1>4 DEF streamVars
<1> QED BY <1>2, <1>3, <1>4 DEF Stream!Next

(* The signals of a batch and a category are those it raised itself.       *)
Significant(b, c) == Stream!Significant(b, c)

LEMMA BatchOfSignal ==
    ASSUME NEW b, NEW o, NEW s \in Stream!ProcessBatch(b, o)
    PROVE  s.batch = b
BY DEF Stream!ProcessBatch, Stream!QualitySignals, Stream!FamilySignals, Stream!CheckSignals,
       Stream!Graded, Stream!BuildAlert, Stream!Signal, Stream!BlockedSignal

LEMMA SignalsRaised ==
    ASSUME StreamInv, NEW b \in 1..Len(observed), NEW c
    PROVE  Stream!SignalsOf(b, c) = {s \in Stream!ProcessBatch(b, observed[b]) : s.category = c}
<1>1. \A s \in alerts : \E k \in 1..Len(observed) : s \in Stream!ProcessBatch(k, observed[k])
  BY DEF StreamInv
<1>2. \A k \in 1..Len(observed) : \A s \in Stream!ProcessBatch(k, observed[k]) : s \in alerts
  BY DEF StreamInv
<1> QED BY <1>1, <1>2, BatchOfSignal DEF Stream!SignalsOf

LEMMA SignalsAreOfTheRun ==
    ASSUME StreamInv, NEW s \in alerts
    PROVE  s.batch \in 1..Len(observed) /\ s \in Stream!ProcessBatch(s.batch, observed[s.batch])
<1>1. PICK k \in 1..Len(observed) : s \in Stream!ProcessBatch(k, observed[k])
  BY DEF StreamInv
<1> QED BY <1>1, BatchOfSignal

(* What a batch raises, one signal at a time.                              *)
LEMMA Raises ==
    ASSUME NEW b, NEW o \in Stream!Observation, NEW s
    PROVE  s \in Stream!ProcessBatch(b, o) <=>
              \/ /\ "data_quality" \in watched /\ calibrated
                 /\ o.deviation["data_quality"] # "within" /\ ~o.few
                 /\ s = Stream!Signal(b, "data_quality", "data_quality", o.deviation["data_quality"])
              \/ o.blocked /\ s = Stream!Signal(b, "data_quality", "schema", "blocked_input")
              \/ /\ ~o.blocked /\ calibrated /\ o.family # "within" /\ ~o.few
                 /\ s = Stream!Signal(b, "feature_drift", "family", o.family)
              \/ /\ ~o.blocked
                 /\ \E c \in Stream!Checked(o) :
                       /\ o.deviation[c] # "within" /\ ~o.few
                       /\ s = Stream!Signal(b, c, c, o.deviation[c])
<1>1. /\ o.few \in BOOLEAN /\ o.blocked \in BOOLEAN /\ o.labels \in BOOLEAN
      /\ o.family \in Stream!Deviations /\ o.deviation \in [watched -> Stream!Deviations]
  BY DEF Stream!Observation
<1>2. ASSUME NEW c, NEW m, NEW d \in Stream!Deviations
      PROVE  s \in Stream!Graded(b, o, c, m, d) <=>
                 d # "within" /\ ~o.few /\ s = Stream!Signal(b, c, m, d)
  BY <1>1 DEF Stream!Graded, Stream!BuildAlert, Stream!ClassifyState, Stream!Deviations
<1>3. s \in Stream!QualitySignals(b, o) <=>
         /\ "data_quality" \in watched /\ calibrated
         /\ o.deviation["data_quality"] # "within" /\ ~o.few
         /\ s = Stream!Signal(b, "data_quality", "data_quality", o.deviation["data_quality"])
  BY <1>1, <1>2 DEF Stream!QualitySignals, Stream!Thresholds
<1>4. s \in Stream!FamilySignals(b, o) <=>
         /\ calibrated /\ o.family # "within" /\ ~o.few
         /\ s = Stream!Signal(b, "feature_drift", "family", o.family)
  BY <1>1, <1>2 DEF Stream!FamilySignals, Stream!Thresholds
<1>5. s \in Stream!CheckSignals(b, o) <=>
         \E c \in Stream!Checked(o) : /\ o.deviation[c] # "within" /\ ~o.few
                                      /\ s = Stream!Signal(b, c, c, o.deviation[c])
  <2>1. \A c \in Stream!Checked(o) : o.deviation[c] \in Stream!Deviations
    BY <1>1 DEF Stream!Checked
  <2> QED BY <1>2, <2>1 DEF Stream!CheckSignals
<1> QED BY <1>3, <1>4, <1>5 DEF Stream!ProcessBatch, Stream!BlockedSignal

Decisive(c, S) == IF c = "feature_drift" THEN {s \in S : s.metric = "family"} ELSE S

LEMMA SignificantIsDecisive ==
    ASSUME StreamInv, NEW b \in 1..Len(observed), NEW c
    PROVE  LET S == Stream!SignalsOf(b, c)
           IN  /\ Significant(b, c) <=> Decisive(c, S) # {} /\ ~Stream!HasStatus(S, "blocked_input")
               /\ Stream!HasStatus(S, "blocked_input") <=> c = "data_quality" /\ observed[b].blocked
<1> DEFINE o == observed[b]
           S == Stream!SignalsOf(b, c)
<1>1. /\ o \in Stream!Observation /\ Stream!Relevant(o) /\ watched \subseteq Stream!Categories
  BY DEF StreamInv
<1>2. /\ o.few \in BOOLEAN /\ o.blocked \in BOOLEAN /\ o.labels \in BOOLEAN
      /\ o.family \in Stream!Deviations /\ o.deviation \in [watched -> Stream!Deviations]
      /\ o.family # "within" => "feature_drift" \in watched
  BY <1>1 DEF Stream!Observation, Stream!Relevant
<1> HIDE DEF o
<1>3. S = {s \in Stream!ProcessBatch(b, o) : s.category = c}
  BY SignalsRaised DEF o
<1> HIDE DEF S
<1>4. Significant(b, c) <=>
         /\ c \in watched \cap Stream!Thresholds /\ ~o.few
         /\ c = "data_quality" \/ ~o.blocked
         /\ c \in Stream!Labelled => o.labels
         /\ CASE c = "feature_drift" -> calibrated /\ o.family # "within"
              [] c = "data_quality" -> ~o.blocked /\ o.deviation[c] # "within"
              [] OTHER -> o.deviation[c] # "within"
  BY DEF Significant, Stream!Significant, o
<1>5. Stream!HasStatus(S, "blocked_input") <=> c = "data_quality" /\ o.blocked
  <2>1. \A k \in Stream!Checked(o) : o.deviation[k] \in Stream!Deviations
    BY <1>2 DEF Stream!Checked
  <2>2. "data_quality" \in watched => o.deviation["data_quality"] \in Stream!Deviations
    BY <1>2
  <2>3. "blocked_input" \notin Stream!Deviations
    BY DEF Stream!Deviations
  <2>4. ASSUME NEW s \in S, s.status = "blocked_input" PROVE c = "data_quality" /\ o.blocked
    BY <1>1, <1>2, <1>3, <2>1, <2>2, <2>3, <2>4, Raises DEF Stream!Signal
  <2>5. ASSUME c = "data_quality", o.blocked PROVE \E s \in S : s.status = "blocked_input"
    <3> DEFINE s == Stream!Signal(b, "data_quality", "schema", "blocked_input")
    <3>1. s \in Stream!ProcessBatch(b, o)
      BY <1>1, <2>5, Raises
    <3>2. s.category = "data_quality" /\ s.status = "blocked_input"
      BY DEF Stream!Signal
    <3> QED BY <1>3, <2>5, <3>1, <3>2
  <2> QED BY <2>4, <2>5 DEF Stream!HasStatus
<1>6. CASE c = "feature_drift"
  <2>1. ASSUME NEW s \in S, s.metric = "family"
        PROVE  ~o.blocked /\ calibrated /\ o.family # "within" /\ ~o.few
    BY <1>1, <1>3, <1>6, <2>1, Raises DEF Stream!Signal, Stream!Checked, Stream!Categories
  <2>2. ASSUME ~o.blocked, calibrated, o.family # "within", ~o.few
        PROVE  \E s \in S : s.metric = "family"
    <3> DEFINE s == Stream!Signal(b, "feature_drift", "family", o.family)
    <3>1. s \in Stream!ProcessBatch(b, o)
      BY <1>1, <2>2, Raises
    <3>2. s.category = "feature_drift" /\ s.metric = "family"
      BY DEF Stream!Signal
    <3> QED BY <1>3, <1>6, <3>1, <3>2
  <2>3. Decisive(c, S) # {} <=> \E s \in S : s.metric = "family"
    BY <1>6 DEF Decisive
  <2>4. Significant(b, c) <=> ~o.blocked /\ calibrated /\ o.family # "within" /\ ~o.few
    BY <1>2, <1>4, <1>6 DEF Stream!Thresholds, Stream!Labelled
  <2> QED BY <1>5, <1>6, <2>1, <2>2, <2>3, <2>4 DEF S, o
<1>7. CASE c = "data_quality"
  <2>1. o.blocked \in BOOLEAN
    BY <1>2
  <2>2. CASE ~o.blocked
    <3>1. ASSUME NEW s \in S PROVE c \in watched /\ calibrated /\ o.deviation[c] # "within" /\ ~o.few
      BY <1>1, <1>3, <1>7, <2>2, <3>1, Raises DEF Stream!Signal, Stream!Checked
    <3>2. ASSUME c \in watched, calibrated, o.deviation[c] # "within", ~o.few PROVE S # {}
      <4> DEFINE s == Stream!Signal(b, "data_quality", "data_quality", o.deviation["data_quality"])
      <4>1. s \in Stream!ProcessBatch(b, o)
        BY <1>1, <1>7, <3>2, Raises
      <4>2. s.category = "data_quality"
        BY DEF Stream!Signal
      <4> QED BY <1>3, <1>7, <4>1, <4>2
    <3>3. Significant(b, c) <=> c \in watched /\ calibrated /\ o.deviation[c] # "within" /\ ~o.few
      BY <1>2, <1>4, <1>7, <2>2 DEF Stream!Thresholds, Stream!Labelled
    <3> QED BY <1>5, <1>7, <2>2, <3>1, <3>2, <3>3 DEF S, o, Decisive
  <2>3. CASE o.blocked
    BY <1>4, <1>5, <1>7, <2>3 DEF S, o
  <2> QED BY <2>1, <2>2, <2>3
<1>8. CASE c \notin {"feature_drift", "data_quality"}
  <2>1. ASSUME NEW s \in S
        PROVE  ~o.blocked /\ c \in Stream!Checked(o) /\ o.deviation[c] # "within" /\ ~o.few
    BY <1>1, <1>3, <1>8, <2>1, Raises DEF Stream!Signal
  <2>2. ASSUME ~o.blocked, c \in Stream!Checked(o), o.deviation[c] # "within", ~o.few PROVE S # {}
    <3> DEFINE s == Stream!Signal(b, c, c, o.deviation[c])
    <3>1. s \in Stream!ProcessBatch(b, o)
      BY <1>1, <2>2, Raises
    <3>2. s.category = c
      BY DEF Stream!Signal
    <3> QED BY <1>3, <3>1, <3>2
  <2>3. Significant(b, c) <=> ~o.blocked /\ c \in Stream!Checked(o) /\ o.deviation[c] # "within" /\ ~o.few
    BY <1>2, <1>4, <1>8 DEF Stream!Checked
  <2> QED BY <1>5, <1>8, <2>1, <2>2, <2>3 DEF S, o, Decisive
<1> QED BY <1>5, <1>6, <1>7, <1>8 DEF S, o

(* A batch is a link of a chain exactly when it is significant.            *)
LEMMA DecisiveIsSevere ==
    ASSUME NEW c, NEW S, NEW confirmed \in BOOLEAN
    PROVE  /\ Stream!HasStatus(S, "blocked_input") => Stream!GroupSeverity(c, S, confirmed) = "high"
           /\ ~Stream!HasStatus(S, "blocked_input") =>
                 /\ Stream!GroupSeverity(c, S, confirmed) # "low" <=> Decisive(c, S) # {}
                 /\ Stream!GroupSeverity(c, S, confirmed) = "high" => confirmed
                 /\ Stream!GroupSeverity(c, S, confirmed) # "blocked_input"
<1> DEFINE D == Decisive(c, S)
<1>1. Stream!GroupSeverity(c, S, confirmed) =
          IF Stream!HasStatus(S, "blocked_input") THEN "high"
          ELSE IF Stream!HasStatus(D, "material_deviation") /\ confirmed THEN "high"
          ELSE IF D # {} THEN "medium"
          ELSE "low"
  BY Zenon DEF Stream!GroupSeverity, Decisive
<1>2. /\ Stream!HasStatus(D, "material_deviation") => D # {}
      /\ Stream!HasStatus(D, "material_deviation") \in BOOLEAN
      /\ Stream!HasStatus(S, "blocked_input") \in BOOLEAN
  BY DEF Stream!HasStatus
<1> HIDE DEF D
<1> QED BY <1>1, <1>2 DEF D
LEMMA SignificantIsEligible ==
    ASSUME StreamInv, NEW b \in 1..Len(observed), NEW c
    PROVE  Stream!Eligible(Stream!BuildAlertGroups, c, b)
               = IF Significant(b, c) THEN {Stream!AlertGroup(b, c)} ELSE {}
<1> DEFINE o == observed[b]
           S == Stream!SignalsOf(b, c)
<1>1. S = {s \in Stream!ProcessBatch(b, o) : s.category = c}
  BY SignalsRaised
<1>2. Stream!Eligible(Stream!BuildAlertGroups, c, b)
          = {g \in {Stream!AlertGroup(b, c)} : S # {} /\ g.status # "blocked_input" /\ g.severity # "low"}
  <2>1. \A k, d : Stream!AlertGroup(k, d).batch = k /\ Stream!AlertGroup(k, d).category = d
    BY DEF Stream!AlertGroup
  <2>2. \A g : g \in Stream!BuildAlertGroups <=>
                  \E k, d : g = Stream!AlertGroup(k, d) /\ Stream!SignalsOf(k, d) # {}
    <3>1. \A s \in alerts : Stream!SignalsOf(s.batch, s.category) # {}
      BY DEF Stream!SignalsOf
    <3>2. \A k, d : \A s \in Stream!SignalsOf(k, d) : s \in alerts /\ s.batch = k /\ s.category = d
      BY DEF Stream!SignalsOf
    <3> QED BY <3>1, <3>2 DEF Stream!BuildAlertGroups
  <2> QED BY <2>1, <2>2 DEF Stream!Eligible
<1>3. /\ Stream!AlertGroup(b, c).status # "blocked_input" <=> ~Stream!HasStatus(S, "blocked_input")
      /\ ~Stream!HasStatus(S, "blocked_input") =>
            (Stream!AlertGroup(b, c).severity # "low" <=> Decisive(c, S) # {})
  <2>1. Stream!ConfirmedNext(b, c) \in BOOLEAN
    BY DEF Stream!ConfirmedNext
  <2> QED BY <2>1, DecisiveIsSevere DEF Stream!AlertGroup
<1>4. Significant(b, c) <=> Decisive(c, S) # {} /\ ~Stream!HasStatus(S, "blocked_input")
  BY SignificantIsDecisive
<1>5. Decisive(c, S) # {} => S # {}
  BY DEF Decisive
<1> HIDE DEF S
<1> QED BY <1>2, <1>3, <1>4, <1>5

(***************************************************************************)
(* Chains.  The significant batches of a category, as a chain is built:    *)
(* a stretch of them that nothing significant follows, and every maximal   *)
(* stretch before it that was long enough.                                 *)
(***************************************************************************)
Links(c, x, y) == {Stream!AlertGroup(i, c) : i \in x..y}
Stretch(c, x, y) == /\ x <= y /\ \A i \in x..y : Significant(i, c)
                    /\ x = 1 \/ ~Significant(x - 1, c)
MaximalRun(c, x, y) == /\ Stretch(c, x, y) /\ y - x + 1 >= StreamWindow
                       /\ y = StreamBatches \/ ~Significant(y + 1, c)
FoundBefore(c, z) == {Stream!IncidentFromRun(c, Links(c, q[1], q[2])) :
                         q \in {p \in (1..StreamBatches) \X (1..StreamBatches) :
                                    MaximalRun(c, p[1], p[2]) /\ p[2] < z}}

Chaining(c, b, acc) ==
    \/ acc.run = {} /\ acc.found = {} /\ \A i \in 1..b : ~Significant(i, c)
    \/ \E x \in 1..b : \E y \in x..b :
          /\ acc.run = Links(c, x, y) /\ Stretch(c, x, y)
          /\ acc.found = FoundBefore(c, x)
          /\ \A i \in (y + 1)..b : ~Significant(i, c)

LEMMA LinksOfAStretch ==
    ASSUME NEW c, NEW x \in Nat, NEW y \in Nat, x <= y
    PROVE  Cardinality(Links(c, x, y)) = y - x + 1
<1> DEFINE f == [i \in x..y |-> Stream!AlertGroup(i, c)]
<1>1. \A i : Stream!AlertGroup(i, c).batch = i
  BY DEF Stream!AlertGroup
<1>2. f \in Bijection(x..y, Links(c, x, y))
  <2>1. f \in [x..y -> Links(c, x, y)] /\ \A t \in Links(c, x, y) : \E i \in x..y : f[i] = t
    BY DEF Links
  <2>2. \A i, j \in x..y : f[i] = f[j] => i = j
    BY <1>1
  <2> HIDE DEF f
  <2> QED BY <2>1, <2>2 DEF Bijection, Injection, Surjection, IsInjective
<1>3. IsFiniteSet(x..y) /\ Cardinality(x..y) = y - x + 1
  BY FS_Interval
<1> HIDE DEF f
<1>4. ExistsBijection(x..y, Links(c, x, y))
  BY <1>2 DEF ExistsBijection
<1> QED BY <1>3, <1>4, FS_Bijection

(* What is found before a batch, once no significant batch lies between it *)
(* and a maximal stretch.                                                  *)
LEMMA FoundSoFar ==
    ASSUME NEW c, NEW z \in 1..(StreamBatches + 1), NEW x \in 1..(z - 1), NEW y \in x..(z - 1),
           Stretch(c, x, y), \A i \in (y + 1)..(z - 1) : ~Significant(i, c),
           y = StreamBatches \/ ~Significant(y + 1, c)
    PROVE  FoundBefore(c, z) = FoundBefore(c, x)
               \cup (IF y - x + 1 >= StreamWindow THEN {Stream!IncidentFromRun(c, Links(c, x, y))} ELSE {})
<1> DEFINE B == StreamBatches
           Before(t) == {p \in (1..B) \X (1..B) : MaximalRun(c, p[1], p[2]) /\ p[2] < t}
           Here == IF y - x + 1 >= StreamWindow THEN {<<x, y>>} ELSE {}
<1>0. B \in Nat /\ StreamWindow \in Nat
  BY StreamConstants
<1>1. Before(z) = Before(x) \cup Here
  <2>1. ASSUME NEW u \in 1..B, NEW v \in 1..B, MaximalRun(c, u, v), v < z, ~(v < x)
        PROVE  u = x /\ v = y /\ y - x + 1 >= StreamWindow
    <3>1. /\ u <= v /\ \A i \in u..v : Significant(i, c) /\ (u = 1 \/ ~Significant(u - 1, c))
          /\ v = B \/ ~Significant(v + 1, c)
          /\ v - u + 1 >= StreamWindow
      BY <2>1 DEF MaximalRun, Stretch
    <3>2. /\ x <= y /\ (x = 1 \/ ~Significant(x - 1, c)) /\ \A i \in x..y : Significant(i, c)
      BY DEF Stretch
    <3>3. v <= y
      BY <2>1, <3>1, <1>0
    <3>4. v = y
      <4>1. CASE v < y
        <5>1. v + 1 \in x..y /\ v # B
          BY <1>0, <2>1, <4>1
        <5> QED BY <3>1, <3>2, <5>1
      <4> QED BY <1>0, <3>3, <4>1
    <3>5. u = x
      <4>1. CASE u < x
        <5>1. x - 1 \in u..v /\ x # 1
          BY <1>0, <2>1, <4>1
        <5> QED BY <3>1, <3>2, <5>1
      <4>2. CASE x < u
        <5>1. u - 1 \in x..y /\ u # 1
          BY <1>0, <3>1, <3>4, <4>2
        <5> QED BY <3>1, <3>2, <5>1
      <4> QED BY <1>0, <4>1, <4>2
    <3> QED BY <3>1, <3>4, <3>5
  <2>2. y - x + 1 >= StreamWindow => MaximalRun(c, x, y)
    BY DEF MaximalRun
  <2>3. x \in 1..B /\ y \in 1..B /\ y < z /\ x < z
    BY <1>0
  <2>4. Before(z) \subseteq Before(x) \cup Here
    <3> SUFFICES ASSUME NEW p \in Before(z), p \notin Before(x) PROVE p \in Here
      OBVIOUS
    <3>1. p = <<p[1], p[2]>> /\ p[1] \in 1..B /\ p[2] \in 1..B /\ MaximalRun(c, p[1], p[2]) /\ p[2] < z
      OBVIOUS
    <3>2. ~(p[2] < x)
      BY <3>1
    <3>3. p[1] = x /\ p[2] = y /\ y - x + 1 >= StreamWindow
      BY <2>1, <3>1, <3>2
    <3> QED BY <3>1, <3>3
  <2>5. Before(x) \subseteq Before(z)
    <3> SUFFICES ASSUME NEW p \in Before(x) PROVE p \in Before(z)
      OBVIOUS
    <3>1. p \in (1..B) \X (1..B) /\ MaximalRun(c, p[1], p[2]) /\ p[2] < x
      OBVIOUS
    <3>2. p[2] < z
      BY <1>0, <2>3, <3>1
    <3> QED BY <3>1, <3>2
  <2>6. Here \subseteq Before(z)
    BY <2>2, <2>3
  <2> QED BY <2>4, <2>5, <2>6
<1>2. \A t : FoundBefore(c, t) = {Stream!IncidentFromRun(c, Links(c, q[1], q[2])) : q \in Before(t)}
  BY DEF FoundBefore
<1>3. {Stream!IncidentFromRun(c, Links(c, q[1], q[2])) : q \in Here}
          = IF y - x + 1 >= StreamWindow THEN {Stream!IncidentFromRun(c, Links(c, x, y))} ELSE {}
  <2>1. CASE y - x + 1 >= StreamWindow
    <3>1. Here = {<<x, y>>}
      BY <2>1
    <3> HIDE DEF Here
    <3> QED BY <2>1, <3>1
  <2>2. CASE ~(y - x + 1 >= StreamWindow)
    BY <2>2
  <2> QED BY <2>1, <2>2
<1> HIDE DEF Before, Here
<1> QED BY <1>1, <1>2, <1>3

LEMMA NothingFound ==
    ASSUME NEW c, NEW z, \A i \in 1..StreamBatches : i < z => ~Significant(i, c)
    PROVE  FoundBefore(c, z) = {}
<1> SUFFICES ASSUME NEW p \in (1..StreamBatches) \X (1..StreamBatches),
                    MaximalRun(c, p[1], p[2]), p[2] < z
             PROVE  FALSE
  BY DEF FoundBefore
<1>1. p[1] \in 1..StreamBatches /\ p[2] \in 1..StreamBatches
  OBVIOUS
<1>2. Significant(p[2], c)
  BY <1>1 DEF MaximalRun, Stretch
<1> QED BY <1>1, <1>2

LEMMA StreamCardinality == \A S : Stream!Cardinality(S) = Cardinality(S)
BY DEF Stream!Cardinality, Cardinality

(* A chain that nothing significant continues is flushed.                  *)
LEMMA Flushed ==
    ASSUME NEW c, NEW b \in 0..StreamBatches, NEW acc, Chaining(c, b, acc),
           b = StreamBatches \/ ~Stream!Continues(acc.run, b + 1)
    PROVE  Stream!Flush(c, acc) = FoundBefore(c, b + 1)
<1>0. StreamBatches \in Nat /\ StreamWindow \in Nat \ {0}
  BY StreamConstants
<1>1. CASE acc.run = {} /\ acc.found = {} /\ \A i \in 1..b : ~Significant(i, c)
  <2>1. FoundBefore(c, b + 1) = {}
    BY <1>0, <1>1, NothingFound
  <2>2. Cardinality(acc.run) = 0
    BY <1>1, FS_EmptySet
  <2>3. ~Stream!LongEnough(acc.run)
    BY <1>0, <2>2, StreamCardinality DEF Stream!LongEnough
  <2> QED BY <1>1, <2>1, <2>3 DEF Stream!Flush
<1>2. ASSUME NEW x \in 1..b, NEW y \in x..b,
             acc.run = Links(c, x, y), Stretch(c, x, y), acc.found = FoundBefore(c, x),
             \A i \in (y + 1)..b : ~Significant(i, c)
      PROVE  Stream!Flush(c, acc) = FoundBefore(c, b + 1)
  <2>1. y = StreamBatches \/ ~Significant(y + 1, c)
    <3>1. CASE y = b /\ b < StreamBatches
      <4>1. Stream!AlertGroup(y, c) \in acc.run /\ Stream!AlertGroup(y, c).batch = y
        BY <1>0, <1>2 DEF Links, Stream!AlertGroup
      <4>2. Stream!Continues(acc.run, b + 1)
        BY <3>1, <4>1 DEF Stream!Continues
      <4> QED BY <1>0, <3>1, <4>2
    <3>2. CASE y < b
      BY <1>0, <1>2, <3>2
    <3> QED BY <1>0, <3>1, <3>2
  <2>2. FoundBefore(c, b + 1) = FoundBefore(c, x)
           \cup (IF y - x + 1 >= StreamWindow THEN {Stream!IncidentFromRun(c, Links(c, x, y))} ELSE {})
    <3> DEFINE z == b + 1
    <3>1. z \in 1..(StreamBatches + 1) /\ z - 1 = b
      BY <1>0
    <3> HIDE DEF z
    <3>2. FoundBefore(c, z) = FoundBefore(c, x)
           \cup (IF y - x + 1 >= StreamWindow THEN {Stream!IncidentFromRun(c, Links(c, x, y))} ELSE {})
      BY <1>2, <2>1, <3>1, FoundSoFar
    <3> QED BY <3>2 DEF z
  <2>3. Cardinality(acc.run) = y - x + 1
    BY <1>0, <1>2, LinksOfAStretch
  <2> QED BY <1>2, <2>2, <2>3, StreamCardinality DEF Stream!Flush, Stream!LongEnough
<1> QED BY <1>1, <1>2 DEF Chaining

LEMMA ChainedOnce ==
    ASSUME NEW c, NEW b \in 1..StreamBatches, NEW acc, Chaining(c, b - 1, acc)
    PROVE  Chaining(c, b, Stream!Chained(c, acc, b,
                              IF Significant(b, c) THEN {Stream!AlertGroup(b, c)} ELSE {}))
<1> DEFINE g == Stream!AlertGroup(b, c)
           next == Stream!Chained(c, acc, b, IF Significant(b, c) THEN {g} ELSE {})
<1>0. StreamBatches \in Nat
  BY StreamConstants
<1>1. CASE ~Significant(b, c)
  <2>1. next = acc
    BY <1>1 DEF Stream!Chained
  <2>2. \A i \in 1..b : i \in 1..(b - 1) \/ i = b
    BY <1>0
  <2>3. \A y \in 0..b : \A i \in (y + 1)..b : i \in (y + 1)..(b - 1) \/ i = b
    BY <1>0
  <2>4. CASE acc.run = {} /\ acc.found = {} /\ \A i \in 1..(b - 1) : ~Significant(i, c)
    BY <1>1, <2>1, <2>2, <2>4, Zenon DEF Chaining
  <2>5. ASSUME NEW x \in 1..(b - 1), NEW y \in x..(b - 1),
               acc.run = Links(c, x, y), Stretch(c, x, y), acc.found = FoundBefore(c, x),
               \A i \in (y + 1)..(b - 1) : ~Significant(i, c)
        PROVE  Chaining(c, b, acc)
    <3>1. x \in 1..b /\ y \in x..b /\ y \in 0..b
      BY <1>0
    <3>2. \A i \in (y + 1)..b : ~Significant(i, c)
      BY <1>1, <2>3, <2>5, <3>1
    <3> QED BY <2>5, <3>1, <3>2 DEF Chaining
  <2> QED BY <2>1, <2>4, <2>5 DEF Chaining
<1>2. CASE Significant(b, c) /\ Stream!Continues(acc.run, b)
  <2>1. next.run = acc.run \cup {g} /\ next.found = acc.found
    BY <1>2 DEF Stream!Chained
  <2> HIDE DEF next
  <2>2. PICK x \in 1..(b - 1) : \E y \in x..(b - 1) :
          /\ acc.run = Links(c, x, y) /\ Stretch(c, x, y)
          /\ acc.found = FoundBefore(c, x)
          /\ \A i \in (y + 1)..(b - 1) : ~Significant(i, c)
    BY <1>2 DEF Chaining, Stream!Continues
  <2>3. PICK y \in x..(b - 1) :
          /\ acc.run = Links(c, x, y) /\ Stretch(c, x, y)
          /\ acc.found = FoundBefore(c, x)
    BY <2>2
  <2>4. PICK i \in x..y : b = i + 1
    BY <1>2, <2>3 DEF Stream!Continues, Links, Stream!AlertGroup
  <2>5. y + 1 = b
    BY <1>0, <2>4
  <2>6. x..b = (x..y) \cup {b}
    BY <1>0, <2>5
  <2>7. next.run = Links(c, x, b)
    BY <2>1, <2>3, <2>6 DEF Links
  <2>8. Stretch(c, x, b)
    <3>1. \A k \in x..b : Significant(k, c)
      BY <1>2, <2>3, <2>6 DEF Stretch
    <3>2. x <= b
      BY <1>0
    <3> QED BY <2>3, <3>1, <3>2 DEF Stretch
  <2>9. x \in 1..b /\ b \in x..b /\ \A k \in (b + 1)..b : ~Significant(k, c)
    BY <1>0
  <2> QED BY <2>1, <2>3, <2>7, <2>8, <2>9 DEF Chaining, next
<1>3. CASE Significant(b, c) /\ ~Stream!Continues(acc.run, b)
  <2>1. next.run = {g} /\ next.found = Stream!Flush(c, acc)
    BY <1>3 DEF Stream!Chained
  <2> HIDE DEF next
  <2>2. Stream!Flush(c, acc) = FoundBefore(c, b)
    <3> DEFINE d == b - 1
    <3>1. d \in 0..StreamBatches /\ d + 1 = b
      BY <1>0
    <3> HIDE DEF d
    <3>2. Chaining(c, d, acc)
      BY DEF d
    <3>3. Stream!Flush(c, acc) = FoundBefore(c, d + 1)
      BY <1>3, <3>1, <3>2, Flushed
    <3> QED BY <3>1, <3>3
  <2>3. Links(c, b, b) = {g}
    <3>1. b..b = {b}
      BY <1>0
    <3> QED BY <3>1 DEF Links
  <2>4. b = 1 \/ ~Significant(b - 1, c)
    <3>1. CASE \A i \in 1..(b - 1) : ~Significant(i, c)
      BY <1>0, <3>1
    <3>2. ASSUME NEW x \in 1..(b - 1), NEW y \in x..(b - 1), acc.run = Links(c, x, y),
                 \A i \in (y + 1)..(b - 1) : ~Significant(i, c)
          PROVE  ~Significant(b - 1, c)
      <4>1. Stream!AlertGroup(y, c) \in acc.run /\ Stream!AlertGroup(y, c).batch = y
        BY <1>0, <3>2 DEF Links, Stream!AlertGroup
      <4>2. b # y + 1
        BY <1>3, <4>1 DEF Stream!Continues
      <4> QED BY <1>0, <3>2, <4>2
    <3> QED BY <3>1, <3>2 DEF Chaining
  <2>5. Stretch(c, b, b)
    BY <1>0, <1>3, <2>4 DEF Stretch
  <2>6. b \in 1..b /\ b \in b..b /\ \A k \in (b + 1)..b : ~Significant(k, c)
    BY <1>0
  <2> QED BY <2>1, <2>2, <2>3, <2>5, <2>6 DEF Chaining, next
<1> QED BY <1>1, <1>2, <1>3

LEMMA ChainsFound ==
    ASSUME StreamInv, Len(observed) = StreamBatches, NEW c
    PROVE  Stream!Chains(Stream!BuildAlertGroups, c) = FoundBefore(c, StreamBatches + 1)
<1> DEFINE B == StreamBatches
           G == Stream!BuildAlertGroups
           First == [run |-> {}, found |-> {}]
           T == [run : SUBSET G, found : SUBSET {Stream!IncidentFromRun(c, r) : r \in SUBSET G}]
           Step(acc, b) == Stream!Chained(c, acc, b, Stream!Eligible(G, c, b))
           step == [b \in 1..B |-> [acc \in T |-> Step(acc, b)]]
           Body(h) == [b \in 0..B |-> IF b = 0 THEN First ELSE Step(h[b - 1], b)]
           after == CHOOSE h : h = Body(h)
<1>0. B \in Nat
  BY StreamConstants
<1>1. First \in T
  OBVIOUS
<1>2. \A b \in 1..B : \A acc \in T : Step(acc, b) \in T
  <2> SUFFICES ASSUME NEW b \in 1..B, NEW acc \in T PROVE Step(acc, b) \in T
    OBVIOUS
  <2> DEFINE here == Stream!Eligible(G, c, b)
  <2>1. here \subseteq G
    BY DEF Stream!Eligible
  <2>2. Stream!Flush(c, acc) \in SUBSET {Stream!IncidentFromRun(c, r) : r \in SUBSET G}
    <3> HIDE DEF G
    <3> QED BY DEF Stream!Flush
  <2> HIDE DEF G, here
  <2> QED BY <2>1, <2>2 DEF Stream!Chained, here
<1> HIDE DEF First, T, Step
<1>3. step \in [1..B -> [T -> T]] /\ \A b \in 1..B : \A acc \in T : step[b][acc] = Step(acc, b)
  BY <1>2
<1> HIDE DEF step
<1>4. PICK f \in [0..B -> T] : f[0] = First /\ \A b \in 1..B : f[b] = step[b][f[b - 1]]
  <2>1. B \in Nat /\ First \in T /\ step \in [1..B -> [T -> T]]
    BY <1>0, <1>1, <1>3
  <2> HIDE DEF B
  <2>2. Iterations(B, T, First, step) # {}
    BY <2>1, Iterated
  <2> QED BY <2>2 DEF Iterations
<1>5. f = Body(f)
  <2>1. \A b \in 1..B : b - 1 \in 0..B /\ f[b] = Step(f[b - 1], b)
    BY <1>0, <1>3, <1>4
  <2>2. f = [b \in 0..B |-> f[b]]
    BY <1>4
  <2>3. \A b \in 0..B : b = 0 \/ b \in 1..B
    BY <1>0
  <2> QED BY <1>4, <2>1, <2>2, <2>3
<1>6. after = Body(after)
  BY <1>5
<1>7. Stream!Chains(G, c) = Stream!FlushLast(c, after[B])
  BY DEF Stream!Chains, Step, First
<1> HIDE DEF after, G
<1>8. after[0] = First /\ \A b \in 1..B : after[b] = Step(after[b - 1], b)
  BY <1>0, <1>6
<1>9. \A b \in 0..B : b \in {k \in 0..B : Chaining(c, k, after[k])}
  <2> DEFINE Good == {k \in 0..B : Chaining(c, k, after[k])}
  <2>1. 0 \in Good
    <3>1. \A i \in 1..0 : ~Significant(i, c)
      OBVIOUS
    <3> QED BY <1>0, <1>8, <3>1 DEF Chaining, First
  <2>2. ASSUME NEW k \in 0..B, Chaining(c, k, after[k]), k + 1 <= B
        PROVE  Chaining(c, k + 1, after[k + 1])
    <3> DEFINE b == k + 1
    <3>1. b \in 1..B /\ b - 1 = k
      BY <1>0, <2>2
    <3> HIDE DEF b
    <3>2. Stream!Eligible(G, c, b) = IF Significant(b, c) THEN {Stream!AlertGroup(b, c)} ELSE {}
      BY <3>1, SignificantIsEligible DEF G
    <3>3. after[b] = Stream!Chained(c, after[b - 1], b,
                                    IF Significant(b, c) THEN {Stream!AlertGroup(b, c)} ELSE {})
      BY <1>8, <3>1, <3>2 DEF Step
    <3>4. Chaining(c, b - 1, after[b - 1])
      BY <2>2, <3>1
    <3>5. Chaining(c, b, after[b])
      BY <3>1, <3>3, <3>4, ChainedOnce
    <3> QED BY <3>5 DEF b
  <2> HIDE DEF Good
  <2>3. \A k \in 0..B : k \in Good /\ k + 1 <= B => k + 1 \in Good
    BY <1>0, <2>2 DEF Good
  <2>4. \A k \in 0..B : k \in Good
    BY <1>0, <2>1, <2>3, UpToInduction
  <2> QED BY <2>4 DEF Good
<1>10. B \in 0..B /\ Chaining(c, B, after[B])
  BY <1>0, <1>9
<1>11. Stream!Flush(c, after[B]) = FoundBefore(c, B + 1)
  BY <1>0, <1>10, Flushed
<1> QED BY <1>7, <1>11 DEF G, Stream!FlushLast

(* A group is of the signals of its batch, blocked with the schema of its  *)
(* batch, and high for one batch alone only then.                          *)
LEMMA GroupsOfARun ==
    ASSUME StreamInv
    PROVE  /\ \A g \in Stream!BuildAlertGroups :
                 \E b \in 1..Len(observed) : \E c :
                    /\ g = Stream!AlertGroup(b, c) /\ g.batch = b /\ g.category = c
                    /\ Stream!SignalsOf(b, c) # {}
           /\ \A b, c : Stream!SignalsOf(b, c) # {} => Stream!AlertGroup(b, c) \in Stream!BuildAlertGroups
           /\ \A b \in 1..Len(observed) : \A c :
                 /\ Stream!AlertGroup(b, c).status = "blocked_input"
                        <=> c = "data_quality" /\ observed[b].blocked
                 /\ Stream!AlertGroup(b, c).severity = "high" =>
                        (c = "data_quality" /\ observed[b].blocked) \/ Stream!ConfirmedNext(b, c)
<1>1. ASSUME NEW g \in Stream!BuildAlertGroups
      PROVE  \E b \in 1..Len(observed) : \E c :
                    /\ g = Stream!AlertGroup(b, c) /\ g.batch = b /\ g.category = c
                    /\ Stream!SignalsOf(b, c) # {}
  <2>1. PICK s \in alerts : g = Stream!AlertGroup(s.batch, s.category)
    BY DEF Stream!BuildAlertGroups
  <2>2. s.batch \in 1..Len(observed)
    BY SignalsAreOfTheRun
  <2>3. s \in Stream!SignalsOf(s.batch, s.category)
    BY DEF Stream!SignalsOf
  <2>4. g.batch = s.batch /\ g.category = s.category
    BY <2>1 DEF Stream!AlertGroup
  <2> QED BY <2>1, <2>2, <2>3, <2>4
<1>2. ASSUME NEW b, NEW c, Stream!SignalsOf(b, c) # {}
      PROVE  Stream!AlertGroup(b, c) \in Stream!BuildAlertGroups
  <2>1. PICK s \in alerts : s.batch = b /\ s.category = c
    BY <1>2 DEF Stream!SignalsOf
  <2> QED BY <2>1 DEF Stream!BuildAlertGroups
<1>3. ASSUME NEW b \in 1..Len(observed), NEW c
      PROVE  /\ Stream!AlertGroup(b, c).status = "blocked_input"
                    <=> c = "data_quality" /\ observed[b].blocked
             /\ Stream!AlertGroup(b, c).severity = "high" =>
                    (c = "data_quality" /\ observed[b].blocked) \/ Stream!ConfirmedNext(b, c)
  <2> DEFINE S == Stream!SignalsOf(b, c)
             severity == Stream!GroupSeverity(c, S, Stream!ConfirmedNext(b, c))
  <2>1. Stream!ConfirmedNext(b, c) \in BOOLEAN
    BY DEF Stream!ConfirmedNext
  <2>2. Stream!HasStatus(S, "blocked_input") <=> c = "data_quality" /\ observed[b].blocked
    BY SignificantIsDecisive
  <2>3. /\ Stream!AlertGroup(b, c).severity = severity
        /\ Stream!AlertGroup(b, c).status =
              IF Stream!HasStatus(S, "blocked_input") THEN "blocked_input" ELSE severity
    BY DEF Stream!AlertGroup
  <2>4. ~Stream!HasStatus(S, "blocked_input") =>
           (severity = "high" => Stream!ConfirmedNext(b, c)) /\ severity # "blocked_input"
    BY <2>1, DecisiveIsSevere
  <2> HIDE DEF S, severity
  <2> QED BY <2>2, <2>3, <2>4
<1> QED BY <1>1, <1>2, <1>3

LEMMA IsolatedIsNotHigh ==
    ASSUME StreamInv
    PROVE  Stream!NoIsolatedHigh
<1>1. CASE incidentReport = Stream!NoReport
  BY <1>1 DEF Stream!NoIsolatedHigh, Stream!NoReport
<1>2. CASE Len(observed) = StreamBatches /\ incidentReport.groups = Stream!BuildAlertGroups
  <2> SUFFICES ASSUME NEW g \in Stream!BuildAlertGroups, g.severity = "high", ~observed[g.batch].blocked
               PROVE  /\ g.batch < StreamBatches
                      /\ \E h \in Stream!BuildAlertGroups : h.batch = g.batch + 1 /\ h.category = g.category
    BY <1>2 DEF Stream!NoIsolatedHigh
  <2>1. PICK b \in 1..Len(observed) : \E c : g = Stream!AlertGroup(b, c) /\ g.batch = b /\ g.category = c
    BY GroupsOfARun
  <2>2. PICK c : g = Stream!AlertGroup(b, c) /\ g.batch = b /\ g.category = c
    BY <2>1
  <2>3. Stream!SignalsOf(b + 1, c) # {}
    BY <2>2, GroupsOfARun DEF Stream!ConfirmedNext
  <2>4. Stream!AlertGroup(b + 1, c) \in Stream!BuildAlertGroups
    BY <2>3, GroupsOfARun
  <2>5. /\ Stream!AlertGroup(b + 1, c).batch = b + 1
        /\ Stream!AlertGroup(b + 1, c).category = c
    BY DEF Stream!AlertGroup
  <2>6. PICK s \in alerts : s.batch = b + 1
    BY <2>3 DEF Stream!SignalsOf
  <2>7. b + 1 \in 1..Len(observed)
    BY <2>6, SignalsAreOfTheRun
  <2>8. b < StreamBatches
    BY <1>2, <2>7, StreamConstants
  <2> QED BY <2>2, <2>4, <2>5, <2>8
<1> QED BY <1>1, <1>2 DEF StreamInv

LEMMA RunsAreMaximal ==
    ASSUME StreamInv
    PROVE  Stream!IncidentsAreMaximalRuns
<1> SUFFICES ASSUME incidentReport.written
             PROVE  Stream!IncidentsAreMaximalRuns
  BY DEF Stream!IncidentsAreMaximalRuns
<1> DEFINE B == StreamBatches
           G == Stream!BuildAlertGroups
           Blocked == {b \in 1..B : observed[b].blocked}
           Runs(c) == {p \in (1..B) \X (1..B) : MaximalRun(c, p[1], p[2])}
           Mark(i) == <<i.category, i.batches>>
           OfBlocked == {Stream!Incident(g.category, {g.batch}, "high") :
                            g \in {h \in G : h.status = "blocked_input"}}
           OfChains == UNION {Stream!Chains(G, c) : c \in {g.category : g \in G}}
<1>0. B \in Nat /\ StreamWindow \in Nat \ {0}
  BY StreamConstants
<1>1. Len(observed) = B /\ incidentReport.incidents = OfBlocked \cup OfChains
  <2>1. Len(observed) = B /\ incidentReport.incidents = Stream!BuildIncidents(G)
    BY DEF StreamInv, Stream!NoReport
  <2>2. Stream!BuildIncidents(G) = OfBlocked \cup OfChains
    <3> HIDE DEF G
    <3> QED BY Zenon DEF Stream!BuildIncidents
  <2> QED BY <2>1, <2>2
<1>2. {Mark(i) : i \in OfBlocked} = {<<"data_quality", {b}>> : b \in Blocked}
  <2>1. ASSUME NEW i \in OfBlocked PROVE \E b \in Blocked : Mark(i) = <<"data_quality", {b}>>
    <3>1. PICK g \in G : g.status = "blocked_input" /\ i = Stream!Incident(g.category, {g.batch}, "high")
      OBVIOUS
    <3>2. PICK b \in 1..Len(observed) : \E c : g = Stream!AlertGroup(b, c) /\ g.batch = b /\ g.category = c
      BY GroupsOfARun
    <3>3. PICK c : g = Stream!AlertGroup(b, c) /\ g.batch = b /\ g.category = c
      BY <3>2
    <3>4. c = "data_quality" /\ observed[b].blocked
      BY <3>1, <3>3, GroupsOfARun
    <3>5. i.category = c /\ i.batches = {b}
      BY <3>1, <3>3 DEF Stream!Incident
    <3> QED BY <1>1, <3>4, <3>5
  <2>2. ASSUME NEW b \in Blocked PROVE \E i \in OfBlocked : Mark(i) = <<"data_quality", {b}>>
    <3> DEFINE g == Stream!AlertGroup(b, "data_quality")
               i == Stream!Incident(g.category, {g.batch}, "high")
    <3>1. b \in 1..Len(observed) /\ observed[b].blocked
      BY <1>1
    <3>2. Stream!HasStatus(Stream!SignalsOf(b, "data_quality"), "blocked_input")
      BY <3>1, SignificantIsDecisive
    <3>3. Stream!SignalsOf(b, "data_quality") # {}
      BY <3>2 DEF Stream!HasStatus
    <3>4. g \in G /\ g.status = "blocked_input"
      BY <3>1, <3>3, GroupsOfARun
    <3>5. g.batch = b /\ g.category = "data_quality"
      BY DEF Stream!AlertGroup
    <3>6. i.category = "data_quality" /\ i.batches = {b}
      BY <3>5 DEF Stream!Incident
    <3> HIDE DEF g
    <3>7. i \in OfBlocked
      BY <3>4
    <3> QED BY <3>6, <3>7
  <2> DEFINE Of(b) == <<"data_quality", {b}>>
  <2>3. /\ \A i \in OfBlocked : \E b \in Blocked : Mark(i) = Of(b)
        /\ \A b \in Blocked : \E i \in OfBlocked : Mark(i) = Of(b)
    BY <2>1, <2>2
  <2> HIDE DEF OfBlocked, Blocked, Mark, Of
  <2>4. {Mark(i) : i \in OfBlocked} = {Of(b) : b \in Blocked}
    BY <2>3
  <2> QED BY <2>4 DEF Of
<1>3. ASSUME NEW c
      PROVE  {Mark(i) : i \in Stream!Chains(G, c)} = {<<c, r[1]..r[2]>> : r \in Runs(c)}
  <2>1. Stream!Chains(G, c) = FoundBefore(c, B + 1)
    BY <1>1, ChainsFound
  <2>2. FoundBefore(c, B + 1) = {Stream!IncidentFromRun(c, Links(c, q[1], q[2])) : q \in Runs(c)}
    <3>1. Runs(c) = {p \in (1..B) \X (1..B) : MaximalRun(c, p[1], p[2]) /\ p[2] < B + 1}
      BY <1>0
    <3> QED BY <3>1 DEF FoundBefore
  <2>3. ASSUME NEW x, NEW y
        PROVE  Mark(Stream!IncidentFromRun(c, Links(c, x, y))) = <<c, x..y>>
    <3>1. \A k : Stream!AlertGroup(k, c).batch = k
      BY DEF Stream!AlertGroup
    <3>2. {g.batch : g \in Links(c, x, y)} = x..y
      BY <3>1 DEF Links
    <3> QED BY <3>2 DEF Stream!IncidentFromRun, Stream!Incident
  <2> HIDE DEF Runs, G, Mark
  <2> QED BY <2>1, <2>2, <2>3
<1>4. ASSUME NEW c, c \notin watched \/ c \notin {g.category : g \in G}
      PROVE  Runs(c) = {}
  <2> SUFFICES ASSUME NEW x \in 1..B, NEW y \in 1..B, MaximalRun(c, x, y) PROVE FALSE
    OBVIOUS
  <2>1. Significant(x, c) /\ x \in 1..Len(observed)
    BY <1>0, <1>1 DEF MaximalRun, Stretch
  <2>2. c \in watched
    BY <2>1 DEF Significant, Stream!Significant
  <2>3. Stream!SignalsOf(x, c) # {}
    BY <2>1, SignificantIsDecisive DEF Decisive
  <2>4. Stream!AlertGroup(x, c) \in G /\ Stream!AlertGroup(x, c).category = c
    BY <2>3, GroupsOfARun DEF Stream!AlertGroup
  <2> QED BY <1>4, <2>2, <2>4
<1>5. {Mark(i) : i \in OfChains} = UNION {{<<c, r[1]..r[2]>> : r \in Runs(c)} : c \in watched}
  <2> DEFINE M(c) == {<<c, r[1]..r[2]>> : r \in Runs(c)}
  <2>1. \A c : c \notin watched \/ c \notin {g.category : g \in G} => M(c) = {}
    BY <1>4
  <2>2. \A c : {Mark(i) : i \in Stream!Chains(G, c)} = M(c)
    BY <1>3
  <2> HIDE DEF M, Mark, Runs
  <2>3. {Mark(i) : i \in OfChains} = UNION {M(c) : c \in {g.category : g \in G}}
    BY <2>2
  <2>4. {Mark(i) : i \in OfChains} = UNION {M(c) : c \in watched}
    BY <2>1, <2>3
  <2> QED BY <2>4 DEF M
<1>6. \A c, x, y : MaximalRun(c, x, y) <=>
         /\ x <= y /\ y - x + 1 >= StreamWindow
         /\ \A i \in x..y : Stream!Significant(i, c)
         /\ x = 1 \/ ~Stream!Significant(x - 1, c)
         /\ y = B \/ ~Stream!Significant(y + 1, c)
  BY DEF MaximalRun, Stretch, Significant
<1>7. {Mark(i) : i \in incidentReport.incidents} =
          {<<"data_quality", {b}>> : b \in Blocked}
          \cup UNION {{<<c, r[1]..r[2]>> : r \in Runs(c)} : c \in watched}
  <2>1. {Mark(i) : i \in incidentReport.incidents} = {Mark(i) : i \in OfBlocked} \cup {Mark(i) : i \in OfChains}
    <3> HIDE DEF OfBlocked, OfChains, Mark
    <3> QED BY <1>1
  <2> HIDE DEF OfBlocked, OfChains, Mark, Runs, Blocked
  <2> QED BY <1>2, <1>5, <2>1
<1> HIDE DEF MaximalRun
<1> QED BY <1>6, <1>7 DEF Stream!IncidentsAreMaximalRuns

(***************************************************************************)
(* What a monitoring run has observed and what it raised for it            *)
(* (monitoring/runner.py, alerts.py).                                      *)
(***************************************************************************)
THEOREM StreamInvariant == StudiesSpec => [](focus = "stream" => StreamInv)
<1>1. FocusInit /\ StudiesInit => (focus = "stream" => StreamInv)
  BY StreamInvInit DEF StudiesInit, StreamInit
<1>2. (focus = "stream" => StreamInv) /\ [StudiesNext]_studiesVars => (focus = "stream" => StreamInv)'
  BY FocusMoves, StreamInvStep
<1> QED BY <1>1, <1>2, PTL DEF StudiesSpec

(***************************************************************************)
(* build_incidents(): for any number of batches and any window, the        *)
(* incidents are the blocked batches and the maximal runs of significant   *)
(* ones, and no deviation is high on one batch alone.                      *)
(***************************************************************************)
THEOREM IncidentsAreRuns == StudiesSpec => []IncidentsAreSound
<1>1. (focus = "stream" => StreamInv) => IncidentsAreSound
  BY IsolatedIsNotHigh, RunsAreMaximal DEF IncidentsAreSound
<1> QED BY <1>1, StreamInvariant, PTL


-----------------------------------------------------------------------------
(***************************************************************************)
(* Sums of a sequence: they add, and a double sum can be taken in either   *)
(* order.                                                                  *)
(***************************************************************************)
Running(s, n) == CHOOSE u : u = [k \in 0..n |-> IF k = 0 THEN 0 ELSE u[k - 1] + s[k]]

LEMMA RunningSum ==
    ASSUME NEW n \in Nat, NEW s \in [1..n -> Int]
    PROVE  /\ Running(s, n) \in [0..n -> Int] /\ Running(s, n)[0] = 0
           /\ \A k \in 1..n : Running(s, n)[k] = Running(s, n)[k - 1] + s[k]
           /\ Controls!Sum(s) = Running(s, n)[n] /\ Controls!Sum(s) \in Int
<1> DEFINE step == [k \in 1..n |-> [t \in Int |-> t + s[k]]]
           Body(u) == [k \in 0..n |-> IF k = 0 THEN 0 ELSE u[k - 1] + s[k]]
<1>1. step \in [1..n -> [Int -> Int]] /\ \A k \in 1..n : \A t \in Int : step[k][t] = t + s[k]
  OBVIOUS
<1> HIDE DEF step
<1>2. Iterations(n, Int, 0, step) # {}
  <2> DEFINE T == Int
  <2>1. 0 \in T /\ step \in [1..n -> [T -> T]]
    BY <1>1
  <2> HIDE DEF T
  <2>2. Iterations(n, T, 0, step) # {}
    BY <2>1, Iterated
  <2> QED BY <2>2 DEF T
<1>3. PICK u \in [0..n -> Int] : u[0] = 0 /\ \A k \in 1..n : u[k] = step[k][u[k - 1]]
  BY <1>2 DEF Iterations
<1>4. u = Body(u)
  <2>1. ASSUME NEW k \in 1..n PROVE k - 1 \in 0..n /\ u[k] = u[k - 1] + s[k]
    <3>1. k - 1 \in 0..n
      OBVIOUS
    <3>2. u[k - 1] \in Int
      BY <1>3, <3>1
    <3> QED BY <1>1, <1>3, <3>1, <3>2
  <2>2. u = [k \in 0..n |-> u[k]]
    BY <1>3
  <2>3. \A k \in 0..n : k = 0 \/ k \in 1..n
    OBVIOUS
  <2> QED BY <1>3, <2>1, <2>2, <2>3
<1> DEFINE v == Running(s, n)
<1>5. v = Body(v)
  BY <1>4, Zenon DEF Running
<1>6. Controls!Sum(s) = v[n]
  <2>1. Len(s) = n
    BY FunctionIsSeq
  <2> QED BY <2>1 DEF Controls!Sum, Running
<1> HIDE DEF v
<1>7. v[0] = 0 /\ (\A k \in 1..n : v[k] = v[k - 1] + s[k]) /\ v = [k \in 0..n |-> v[k]]
  BY <1>5
<1> DEFINE Typed == {k \in 0..n : v[k] \in Int}
<1>8. 0 \in Typed /\ \A k \in 0..n : k \in Typed /\ k + 1 <= n => k + 1 \in Typed
  <2>1. ASSUME NEW k \in 0..n, v[k] \in Int, k + 1 <= n PROVE v[k + 1] \in Int
    <3>1. k + 1 \in 1..n /\ (k + 1) - 1 = k
      BY <2>1
    <3>2. v[k + 1] = v[k] + s[k + 1]
      BY <1>7, <3>1
    <3>3. s[k + 1] \in Int
      BY <3>1
    <3> QED BY <2>1, <3>2, <3>3
  <2>2. 0 \in Typed
    BY <1>7
  <2> QED BY <2>1, <2>2
<1>9. \A k \in 0..n : k \in Typed
  <2> HIDE DEF Typed
  <2> QED BY <1>8, UpToInduction
<1>10. v \in [0..n -> Int]
  BY <1>7, <1>9
<1> QED BY <1>6, <1>7, <1>10 DEF v

LEMMA SumsAdd ==
    ASSUME NEW n \in Nat, NEW f \in [1..n -> Int], NEW g \in [1..n -> Int]
    PROVE  Controls!Sum([i \in 1..n |-> f[i] + g[i]]) = Controls!Sum(f) + Controls!Sum(g)
<1> DEFINE h == [i \in 1..n |-> f[i] + g[i]]
           F == Running(f, n)
           G == Running(g, n)
           H == Running(h, n)
           Good == {k \in 0..n : H[k] = F[k] + G[k]}
<1>1. h \in [1..n -> Int] /\ \A k \in 1..n : h[k] = f[k] + g[k]
  OBVIOUS
<1> HIDE DEF h
<1>2. /\ F \in [0..n -> Int] /\ F[0] = 0 /\ \A k \in 1..n : F[k] = F[k - 1] + f[k]
      /\ G \in [0..n -> Int] /\ G[0] = 0 /\ \A k \in 1..n : G[k] = G[k - 1] + g[k]
      /\ H \in [0..n -> Int] /\ H[0] = 0 /\ \A k \in 1..n : H[k] = H[k - 1] + h[k]
      /\ Controls!Sum(f) = F[n] /\ Controls!Sum(g) = G[n] /\ Controls!Sum(h) = H[n]
  BY <1>1, RunningSum
<1> HIDE DEF F, G, H
<1>3. 0 \in Good /\ \A k \in 0..n : k \in Good /\ k + 1 <= n => k + 1 \in Good
  <2>1. ASSUME NEW k \in 0..n, H[k] = F[k] + G[k], k + 1 <= n PROVE H[k + 1] = F[k + 1] + G[k + 1]
    <3>1. k + 1 \in 1..n /\ (k + 1) - 1 = k
      BY <2>1
    <3>2. /\ F[k + 1] = F[k] + f[k + 1] /\ G[k + 1] = G[k] + g[k + 1]
          /\ H[k + 1] = H[k] + (f[k + 1] + g[k + 1])
      BY <1>1, <1>2, <3>1
    <3>3. F[k] \in Int /\ G[k] \in Int /\ f[k + 1] \in Int /\ g[k + 1] \in Int
      BY <1>2, <3>1
    <3> QED BY <2>1, <3>2, <3>3
  <2> QED BY <1>2, <2>1
<1>4. n \in Good
  <2> HIDE DEF Good
  <2>1. \A k \in 0..n : k \in Good
    BY <1>3, UpToInduction
  <2> QED BY <2>1
<1> QED BY <1>2, <1>4 DEF h

LEMMA SumOfConstant ==
    ASSUME NEW n \in Nat, NEW A \in SUBSET (1..n), NEW c \in Int
    PROVE  Controls!Sum([i \in 1..n |-> IF i \in A THEN c ELSE 0]) = c * Cardinality(A)
<1> DEFINE h == [i \in 1..n |-> IF i \in A THEN c ELSE 0]
           H == Running(h, n)
           Upto(k) == A \cap (1..k)
           Good == {k \in 0..n : H[k] = c * Cardinality(Upto(k))}
<1>1. h \in [1..n -> Int] /\ \A k \in 1..n : h[k] = IF k \in A THEN c ELSE 0
  OBVIOUS
<1> HIDE DEF h
<1>2. /\ H \in [0..n -> Int] /\ H[0] = 0 /\ \A k \in 1..n : H[k] = H[k - 1] + h[k]
      /\ Controls!Sum(h) = H[n]
  BY <1>1, RunningSum
<1> HIDE DEF H
<1>3. \A k \in 0..n : IsFiniteSet(Upto(k)) /\ Cardinality(Upto(k)) \in Nat
  <2> SUFFICES ASSUME NEW k \in 0..n PROVE IsFiniteSet(Upto(k)) /\ Cardinality(Upto(k)) \in Nat
    OBVIOUS
  <2>1. Upto(k) \in SUBSET (1..n)
    OBVIOUS
  <2> HIDE DEF Upto
  <2> QED BY <2>1, CountOfPart
<1>4. 0 \in Good
  <2>1. Upto(0) = {}
    OBVIOUS
  <2>2. Cardinality(Upto(0)) = 0
    BY <2>1, FS_EmptySet
  <2> HIDE DEF Upto
  <2> QED BY <1>2, <2>2
<1>5. ASSUME NEW k \in 0..n, k \in Good, k + 1 <= n PROVE k + 1 \in Good
  <2>1. k + 1 \in 1..n /\ k + 1 \in 0..n /\ (k + 1) - 1 = k
    BY <1>5
  <2>2. H[k + 1] = H[k] + (IF k + 1 \in A THEN c ELSE 0)
    BY <1>1, <1>2, <2>1
  <2>3. CASE k + 1 \in A
    <3>1. Upto(k + 1) = Upto(k) \cup {k + 1} /\ k + 1 \notin Upto(k)
      BY <2>1, <2>3
    <3> HIDE DEF Upto
    <3>2. Cardinality(Upto(k + 1)) = Cardinality(Upto(k)) + 1
      BY <1>3, <3>1, FS_AddElement
    <3>3. c * (Cardinality(Upto(k)) + 1) = c * Cardinality(Upto(k)) + c
      BY <1>3
    <3> QED BY <1>5, <2>1, <2>2, <2>3, <3>2, <3>3
  <2>4. CASE k + 1 \notin A
    <3>1. Upto(k + 1) = Upto(k)
      BY <2>1, <2>4
    <3>2. H[k] \in Int
      BY <1>2
    <3> HIDE DEF Upto
    <3> QED BY <1>5, <2>1, <2>2, <2>4, <3>1, <3>2
  <2> QED BY <2>3, <2>4
<1>6. n \in Good
  <2> HIDE DEF Good
  <2>1. \A k \in 0..n : k \in Good
    BY <1>4, <1>5, UpToInduction
  <2> QED BY <2>1
<1>7. Upto(n) = A
  OBVIOUS
<1> QED BY <1>2, <1>6, <1>7 DEF h

LEMMA EitherOrder ==
    ASSUME NEW m \in Nat, NEW n \in Nat, NEW c \in [1..m -> [1..n -> Int]]
    PROVE  Controls!Sum([i \in 1..m |-> Controls!Sum(c[i])])
               = Controls!Sum([j \in 1..n |-> Controls!Sum([i \in 1..m |-> c[i][j]])])
<1> DEFINE row == [i \in 1..m |-> Controls!Sum(c[i])]
           Column(j) == [i \in 1..m |-> c[i][j]]
           R == Running(row, m)
           V(j) == Running(Column(j), m)
           Across(k) == [j \in 1..n |-> V(j)[k]]
           Good == {k \in 0..m : R[k] = Controls!Sum(Across(k))}
<1>1. /\ \A i \in 1..m : c[i] \in [1..n -> Int] /\ Controls!Sum(c[i]) \in Int
      /\ row \in [1..m -> Int] /\ \A i \in 1..m : row[i] = Controls!Sum(c[i])
  <2>1. \A i \in 1..m : c[i] \in [1..n -> Int]
    OBVIOUS
  <2>2. \A i \in 1..m : Controls!Sum(c[i]) \in Int
    BY <2>1, RunningSum
  <2> QED BY <2>1, <2>2
<1>2. \A j \in 1..n : Column(j) \in [1..m -> Int] /\ \A i \in 1..m : Column(j)[i] = c[i][j]
  OBVIOUS
<1> HIDE DEF row, Column
<1>3. /\ R \in [0..m -> Int] /\ R[0] = 0 /\ \A k \in 1..m : R[k] = R[k - 1] + row[k]
      /\ Controls!Sum(row) = R[m]
  BY <1>1, RunningSum
<1>4. \A j \in 1..n : /\ V(j) \in [0..m -> Int] /\ V(j)[0] = 0
                      /\ \A k \in 1..m : V(j)[k] = V(j)[k - 1] + c[k][j]
                      /\ Controls!Sum(Column(j)) = V(j)[m]
  BY <1>2, RunningSum
<1> HIDE DEF R, V
<1>5. \A k \in 0..m : Across(k) \in [1..n -> Int]
  BY <1>4
<1>6. 0 \in Good
  <2>1. Across(0) = [j \in 1..n |-> IF j \in {} THEN 0 ELSE 0]
    BY <1>4
  <2>2. Controls!Sum([j \in 1..n |-> IF j \in {} THEN 0 ELSE 0]) = 0 * Cardinality({})
    <3>1. {} \in SUBSET (1..n) /\ 0 \in Int
      OBVIOUS
    <3> QED BY <3>1, SumOfConstant, Zenon
  <2>3. 0 * Cardinality({}) = 0
    BY FS_EmptySet
  <2>4. Controls!Sum(Across(0)) = 0
    BY <2>1, <2>2, <2>3, Zenon
  <2> HIDE DEF Across
  <2> QED BY <1>3, <2>4
<1>7. ASSUME NEW k \in 0..m, k \in Good, k + 1 <= m PROVE k + 1 \in Good
  <2>1. k + 1 \in 1..m /\ (k + 1) - 1 = k
    BY <1>7
  <2>2. Across(k + 1) = [j \in 1..n |-> Across(k)[j] + c[k + 1][j]]
    BY <1>4, <2>1
  <2>3. Controls!Sum([j \in 1..n |-> Across(k)[j] + c[k + 1][j]])
            = Controls!Sum(Across(k)) + Controls!Sum(c[k + 1])
    <3>1. Across(k) \in [1..n -> Int] /\ c[k + 1] \in [1..n -> Int]
      BY <1>1, <1>5, <2>1
    <3> HIDE DEF Across
    <3> QED BY <3>1, SumsAdd
  <2>4. R[k + 1] = R[k] + Controls!Sum(c[k + 1])
    BY <1>1, <1>3, <2>1
  <2> HIDE DEF Across
  <2> QED BY <1>7, <2>1, <2>2, <2>3, <2>4
<1>8. m \in Good
  <2> HIDE DEF Good
  <2>1. \A k \in 0..m : k \in Good
    BY <1>6, <1>7, UpToInduction
  <2> QED BY <2>1
<1>9. Across(m) = [j \in 1..n |-> Controls!Sum(Column(j))]
  BY <1>4
<1> QED BY <1>3, <1>8, <1>9 DEF row, Column

(***************************************************************************)
(* The ROC-AUC.  Twice the rank of a row is one more than its comparisons  *)
(* with every row; those of two positives come in pairs that make 2.       *)
(***************************************************************************)
Labels == [1..Len(scores) -> {0, 1}]

LEMMA ControlConstants ==
    /\ ControlNPermutations \in Nat \ {0} /\ ControlAlphaPercent \in 1..100
    /\ ControlScores \subseteq Seq(Int) /\ ControlRefitAucs \subseteq Int
BY StudiesAssumption DEF StudiesAssumption, Controls!NegativeControlsAssumption

LEMMA ControlsCardinality == \A S : Controls!Cardinality(S) = Cardinality(S)
BY DEF Controls!Cardinality, Cardinality

LEMMA RankIsComparisons ==
    ASSUME scores \in Seq(Int), NEW i \in 1..Len(scores)
    PROVE  /\ Controls!TwiceRank(i) = Controls!Sum([j \in 1..Len(scores) |-> Controls!Compared(i, j)]) + 1
           /\ [j \in 1..Len(scores) |-> Controls!Compared(i, j)] \in [1..Len(scores) -> Int]
<1> DEFINE N == Len(scores)
           L == {j \in 1..N : scores[j] < scores[i]}
           E == {j \in 1..N : scores[j] = scores[i]}
           f == [j \in 1..N |-> IF j \in L THEN 2 ELSE 0]
           g == [j \in 1..N |-> IF j \in E THEN 1 ELSE 0]
<1>1. N \in Nat /\ \A j \in 1..N : scores[j] \in Int
  OBVIOUS
<1>2. Controls!TwiceRank(i) = 2 * Cardinality(L) + Cardinality(E) + 1
  BY ControlsCardinality DEF Controls!TwiceRank, Controls!Rows
<1>3. Controls!Sum(f) = 2 * Cardinality(L) /\ Controls!Sum(g) = 1 * Cardinality(E)
  <2>1. L \in SUBSET (1..N) /\ E \in SUBSET (1..N)
    OBVIOUS
  <2> HIDE DEF L, E
  <2>2. Controls!Sum(f) = 2 * Cardinality(L)
    BY <1>1, <2>1, SumOfConstant
  <2>3. Controls!Sum(g) = 1 * Cardinality(E)
    BY <1>1, <2>1, SumOfConstant
  <2> QED BY <2>2, <2>3
<1>4. Cardinality(E) \in Nat
  <2>1. E \in SUBSET (1..N)
    OBVIOUS
  <2> HIDE DEF E, N
  <2>2. Cardinality(E) \in 0..N
    BY <1>1, <2>1, CountOfPart
  <2> QED BY <1>1, <2>2
<1>5. [j \in 1..N |-> Controls!Compared(i, j)] = [j \in 1..N |-> f[j] + g[j]]
  BY <1>1 DEF Controls!Compared
<1>6. f \in [1..N -> Int] /\ g \in [1..N -> Int]
  OBVIOUS
<1> HIDE DEF f, g
<1>7. Controls!Sum([j \in 1..N |-> f[j] + g[j]]) = Controls!Sum(f) + Controls!Sum(g)
  <2> HIDE DEF N
  <2> QED BY <1>1, <1>6, SumsAdd
<1>8. [j \in 1..N |-> Controls!Compared(i, j)] \in [1..N -> Int]
  BY <1>5, <1>6
<1> HIDE DEF L, E
<1>9. 1 * Cardinality(E) = Cardinality(E)
  BY <1>4
<1> QED BY <1>2, <1>3, <1>5, <1>7, <1>8, <1>9

LEMMA PairsMakeTwo ==
    ASSUME scores \in Seq(Int), NEW P \in SUBSET (1..Len(scores))
    PROVE  Controls!Sum([i \in 1..Len(scores) |-> Controls!Sum([j \in 1..Len(scores) |->
               IF i \in P /\ j \in P THEN Controls!Compared(i, j) ELSE 0])])
           = Cardinality(P) * Cardinality(P)
<1> DEFINE N == Len(scores)
           n == Cardinality(P)
           m == [i \in 1..N |-> [j \in 1..N |-> IF i \in P /\ j \in P THEN Controls!Compared(i, j) ELSE 0]]
           t == [j \in 1..N |-> [i \in 1..N |-> m[i][j]]]
           rows == [i \in 1..N |-> Controls!Sum(m[i])]
           columns == [j \in 1..N |-> Controls!Sum(t[j])]
           both == [i \in 1..N |-> [j \in 1..N |-> m[i][j] + t[i][j]]]
           total == Controls!Sum(rows)
<1>1. N \in Nat /\ \A j \in 1..N : scores[j] \in Int
  OBVIOUS
<1>2. n \in Nat
  <2> HIDE DEF N
  <2>1. P \in SUBSET (1..N)
    BY DEF N
  <2> QED BY <1>1, <2>1, CountOfPart
<1>3. m \in [1..N -> [1..N -> Int]] /\ t \in [1..N -> [1..N -> Int]]
  <2>1. \A i, j \in 1..N : Controls!Compared(i, j) \in Int
    BY DEF Controls!Compared
  <2>2. m \in [1..N -> [1..N -> Int]]
    BY <2>1
  <2> HIDE DEF m
  <2> QED BY <2>2
<1>4. \A i, j \in 1..N : m[i][j] + m[j][i] = IF i \in P /\ j \in P THEN 2 ELSE 0
  <2> SUFFICES ASSUME NEW i \in 1..N, NEW j \in 1..N
               PROVE  m[i][j] + m[j][i] = IF i \in P /\ j \in P THEN 2 ELSE 0
    OBVIOUS
  <2>1. Controls!Compared(i, j) + Controls!Compared(j, i) = 2
    BY <1>1 DEF Controls!Compared
  <2> QED BY <2>1
<1>5. \A i, j \in 1..N : t[i][j] = m[j][i]
  OBVIOUS
<1>6. /\ m = [i \in 1..N |-> m[i]] /\ t = [j \in 1..N |-> [i \in 1..N |-> m[i][j]]]
      /\ [i \in 1..N |-> Controls!Sum([j \in 1..N |->
             IF i \in P /\ j \in P THEN Controls!Compared(i, j) ELSE 0])] = rows
  OBVIOUS
<1> HIDE DEF N, m
<1>7. total = Controls!Sum(columns)
  <2>1. Controls!Sum([i \in 1..N |-> Controls!Sum(m[i])])
            = Controls!Sum([j \in 1..N |-> Controls!Sum([i \in 1..N |-> m[i][j]])])
    BY <1>1, <1>3, EitherOrder
  <2>2. columns = [j \in 1..N |-> Controls!Sum([i \in 1..N |-> m[i][j]])]
    OBVIOUS
  <2> QED BY <2>1, <2>2
<1> HIDE DEF t
<1>8. rows \in [1..N -> Int] /\ columns \in [1..N -> Int]
  <2>1. \A i \in 1..N : m[i] \in [1..N -> Int] /\ t[i] \in [1..N -> Int]
    BY <1>3
  <2>2. \A i \in 1..N : Controls!Sum(m[i]) \in Int /\ Controls!Sum(t[i]) \in Int
    BY <1>1, <2>1, RunningSum
  <2> QED BY <2>2
<1>9. Controls!Sum([i \in 1..N |-> rows[i] + columns[i]]) = total + total
  <2> HIDE DEF rows, columns
  <2>1. Controls!Sum([i \in 1..N |-> rows[i] + columns[i]]) = Controls!Sum(rows) + Controls!Sum(columns)
    BY <1>1, <1>8, SumsAdd
  <2> QED BY <1>7, <2>1
<1>10. \A i \in 1..N : rows[i] + columns[i] = IF i \in P THEN 2 * n ELSE 0
  <2> SUFFICES ASSUME NEW i \in 1..N PROVE rows[i] + columns[i] = IF i \in P THEN 2 * n ELSE 0
    OBVIOUS
  <2>1. m[i] \in [1..N -> Int] /\ t[i] \in [1..N -> Int]
    BY <1>3
  <2>2. Controls!Sum([j \in 1..N |-> m[i][j] + t[i][j]]) = Controls!Sum(m[i]) + Controls!Sum(t[i])
    <3> DEFINE x == m[i]
               y == t[i]
    <3>1. x \in [1..N -> Int] /\ y \in [1..N -> Int]
      BY <2>1
    <3> HIDE DEF x, y
    <3>2. Controls!Sum([j \in 1..N |-> x[j] + y[j]]) = Controls!Sum(x) + Controls!Sum(y)
      BY <1>1, <3>1, SumsAdd
    <3> QED BY <3>2 DEF x, y
  <2> DEFINE A == IF i \in P THEN P ELSE {}
  <2>3. [j \in 1..N |-> m[i][j] + t[i][j]] = [j \in 1..N |-> IF j \in A THEN 2 ELSE 0]
    <3>1. \A j \in 1..N : m[i][j] + t[i][j] = IF j \in A THEN 2 ELSE 0
      BY <1>4, <1>5
    <3> HIDE DEF A
    <3> QED BY <3>1
  <2>4. Controls!Sum([j \in 1..N |-> IF j \in A THEN 2 ELSE 0]) = 2 * Cardinality(A)
    <3>1. A \in SUBSET (1..N)
      BY DEF N
    <3> HIDE DEF A
    <3> QED BY <1>1, <3>1, SumOfConstant
  <2>5. Cardinality(A) = IF i \in P THEN n ELSE 0
    BY FS_EmptySet
  <2>6. rows[i] = Controls!Sum(m[i]) /\ columns[i] = Controls!Sum(t[i])
    OBVIOUS
  <2> HIDE DEF A, n, rows, columns
  <2>7. 2 * Cardinality(A) = IF i \in P THEN 2 * n ELSE 0
    BY <2>5
  <2> QED BY <2>2, <2>3, <2>4, <2>6, <2>7
<1>11. Controls!Sum([i \in 1..N |-> rows[i] + columns[i]]) = (2 * n) * n
  <2>1. [i \in 1..N |-> rows[i] + columns[i]] = [i \in 1..N |-> IF i \in P THEN 2 * n ELSE 0]
    <3> HIDE DEF rows, columns
    <3> QED BY <1>10
  <2>2. Controls!Sum([i \in 1..N |-> IF i \in P THEN 2 * n ELSE 0]) = (2 * n) * Cardinality(P)
    <3> DEFINE c == 2 * n
    <3>1. c \in Int /\ P \in SUBSET (1..N)
      BY <1>2 DEF N
    <3> HIDE DEF c
    <3>2. Controls!Sum([i \in 1..N |-> IF i \in P THEN c ELSE 0]) = c * Cardinality(P)
      BY <1>1, <3>1, SumOfConstant
    <3> QED BY <3>2 DEF c
  <2> QED BY <2>1, <2>2
<1>12. total \in Int
  <2> HIDE DEF rows
  <2> QED BY <1>1, <1>8, RunningSum
<1>13. total = n * n
  <2>1. total + total = (2 * n) * n
    BY <1>9, <1>11
  <2>2. n * n \in Int /\ (2 * n) * n = n * n + n * n
    BY <1>2
  <2> HIDE DEF total, n
  <2> QED BY <1>12, <2>1, <2>2
<1> QED BY <1>6, <1>13 DEF N

LEMMA RankSumCountsPairs ==
    ASSUME scores \in Seq(Int), NEW y \in Labels
    PROVE  Controls!RocAuc(y) = Controls!Concordance(y) /\ Controls!RocAuc(y) \in Int
<1> DEFINE N == Len(scores)
           P == Controls!Positives(y)
           Q == Controls!Negatives(y)
           n == Cardinality(P)
           all == [i \in 1..N |-> Controls!Sum([j \in 1..N |-> Controls!Compared(i, j)])]
           across == [i \in 1..N |-> Controls!Sum([j \in 1..N |->
                         IF i \in P /\ j \in Q THEN Controls!Compared(i, j) ELSE 0])]
           within == [i \in 1..N |-> Controls!Sum([j \in 1..N |->
                         IF i \in P /\ j \in P THEN Controls!Compared(i, j) ELSE 0])]
           ones == [i \in 1..N |-> IF i \in P THEN 1 ELSE 0]
           ranks == [i \in 1..N |-> IF y[i] = 1 THEN Controls!AverageRank(i) ELSE 0]
<1>1. /\ N \in Nat /\ P \in SUBSET (1..N) /\ Q \in SUBSET (1..N)
      /\ \A i \in 1..N : y[i] = 1 <=> i \in P
      /\ \A i \in 1..N : i \in Q <=> i \notin P
  BY DEF Labels, Controls!Positives, Controls!Negatives, Controls!Rows
<1>2. n \in Nat
  <2> HIDE DEF N, P
  <2>1. Cardinality(P) \in 0..N
    BY <1>1, CountOfPart
  <2> QED BY <1>1, <2>1
<1>3. \A i, j \in 1..N : Controls!Compared(i, j) \in Int
  BY DEF Controls!Compared
<1> HIDE DEF P, Q
<1>4. ASSUME NEW i \in 1..N, NEW A \in SUBSET (1..N)
      PROVE  /\ [j \in 1..N |-> IF i \in P /\ j \in A THEN Controls!Compared(i, j) ELSE 0] \in [1..N -> Int]
             /\ Controls!Sum([j \in 1..N |-> IF i \in P /\ j \in A THEN Controls!Compared(i, j) ELSE 0]) \in Int
  <2> DEFINE x == [j \in 1..N |-> IF i \in P /\ j \in A THEN Controls!Compared(i, j) ELSE 0]
  <2>1. x \in [1..N -> Int]
    BY <1>3
  <2> HIDE DEF x, N
  <2>2. Controls!Sum(x) \in Int
    BY <1>1, <2>1, RunningSum
  <2> QED BY <2>1, <2>2 DEF x, N
<1>5. across \in [1..N -> Int] /\ within \in [1..N -> Int] /\ ones \in [1..N -> Int]
  <2>1. across \in [1..N -> Int]
    <3>1. \A i \in 1..N :
             Controls!Sum([j \in 1..N |-> IF i \in P /\ j \in Q THEN Controls!Compared(i, j) ELSE 0]) \in Int
      BY <1>1, <1>4
    <3> HIDE DEF N
    <3> QED BY <3>1
  <2>2. within \in [1..N -> Int]
    <3>1. \A i \in 1..N :
             Controls!Sum([j \in 1..N |-> IF i \in P /\ j \in P THEN Controls!Compared(i, j) ELSE 0]) \in Int
      BY <1>1, <1>4
    <3> HIDE DEF N
    <3> QED BY <3>1
  <2> QED BY <2>1, <2>2
<1>6. \A i \in 1..N : ranks[i] = (across[i] + within[i]) + ones[i]
  <2> SUFFICES ASSUME NEW i \in 1..N PROVE ranks[i] = (across[i] + within[i]) + ones[i]
    OBVIOUS
  <2> DEFINE x == [j \in 1..N |-> IF i \in P /\ j \in Q THEN Controls!Compared(i, j) ELSE 0]
             z == [j \in 1..N |-> IF i \in P /\ j \in P THEN Controls!Compared(i, j) ELSE 0]
  <2>1. x \in [1..N -> Int] /\ z \in [1..N -> Int]
    BY <1>1, <1>4
  <2>2. across[i] = Controls!Sum(x) /\ within[i] = Controls!Sum(z)
    OBVIOUS
  <2>3. Controls!Sum([j \in 1..N |-> x[j] + z[j]]) = Controls!Sum(x) + Controls!Sum(z)
    <3> HIDE DEF x, z, N
    <3> QED BY <1>1, <2>1, SumsAdd
  <2>4. CASE i \in P
    <3>1. [j \in 1..N |-> x[j] + z[j]] = [j \in 1..N |-> Controls!Compared(i, j)]
      BY <1>1, <1>3, <2>4
    <3>2. Controls!AverageRank(i) = Controls!Sum([j \in 1..N |-> Controls!Compared(i, j)]) + 1
      BY RankIsComparisons DEF Controls!AverageRank
    <3>3. ranks[i] = Controls!AverageRank(i) /\ ones[i] = 1
      BY <1>1, <2>4
    <3> HIDE DEF x, z, ranks, ones, across, within
    <3> QED BY <2>2, <2>3, <3>1, <3>2, <3>3
  <2>5. CASE i \notin P
    <3>1. x = [j \in 1..N |-> IF j \in {} THEN 0 ELSE 0] /\ z = [j \in 1..N |-> IF j \in {} THEN 0 ELSE 0]
      BY <2>5
    <3>2. Controls!Sum([j \in 1..N |-> IF j \in {} THEN 0 ELSE 0]) = 0
      <4>1. {} \in SUBSET (1..N) /\ 0 \in Int
        OBVIOUS
      <4>2. Controls!Sum([j \in 1..N |-> IF j \in {} THEN 0 ELSE 0]) = 0 * Cardinality({})
        BY <1>1, <4>1, SumOfConstant, Zenon
      <4>3. 0 * Cardinality({}) = 0
        BY FS_EmptySet
      <4> QED BY <4>2, <4>3, Zenon
    <3>3. ranks[i] = 0 /\ ones[i] = 0
      BY <1>1, <2>5
    <3> HIDE DEF x, z, ranks, ones, across, within
    <3>4. across[i] = 0 /\ within[i] = 0
      BY <2>2, <3>1, <3>2, Zenon
    <3> QED BY <3>3, <3>4
  <2> QED BY <2>4, <2>5
<1>7. Controls!Sum(ranks) = (Controls!Sum(across) + Controls!Sum(within)) + Controls!Sum(ones)
  <2>1. ranks = [i \in 1..N |-> ranks[i]]
    OBVIOUS
  <2> DEFINE mid == [i \in 1..N |-> across[i] + within[i]]
  <2> HIDE DEF ranks, across, within, ones
  <2>2. mid \in [1..N -> Int] /\ \A i \in 1..N : mid[i] = across[i] + within[i]
    BY <1>5
  <2>3. Controls!Sum(mid) = Controls!Sum(across) + Controls!Sum(within)
    <3> HIDE DEF N
    <3> QED BY <1>1, <1>5, SumsAdd
  <2> HIDE DEF mid
  <2>4. ranks = [i \in 1..N |-> mid[i] + ones[i]]
    BY <1>6, <2>1, <2>2
  <2>5. Controls!Sum([i \in 1..N |-> mid[i] + ones[i]]) = Controls!Sum(mid) + Controls!Sum(ones)
    <3> HIDE DEF N
    <3> QED BY <1>1, <1>5, <2>2, SumsAdd
  <2> QED BY <2>3, <2>4, <2>5
<1>8. Controls!Sum(ones) = n
  <2>1. Controls!Sum(ones) = 1 * n
    <3> HIDE DEF N
    <3> QED BY <1>1, SumOfConstant
  <2> QED BY <1>2, <2>1
<1>9. Controls!Sum(within) = n * n
  BY <1>1, PairsMakeTwo
<1>10. Controls!Sum(across) = Controls!Concordance(y)
  BY DEF Controls!Concordance, Controls!Rows, P, Q
<1>11. Controls!RocAuc(y) = Controls!Sum(ranks) - n * (n + 1)
  BY ControlsCardinality DEF Controls!RocAuc, Controls!Rows, P
<1>12. Controls!Sum(across) \in Int
  <2> HIDE DEF N, across
  <2> QED BY <1>1, <1>5, RunningSum
<1> HIDE DEF n, ranks, across, within, ones
<1>13. n * n \in Int /\ n * (n + 1) = n * n + n
  BY <1>2
<1> QED BY <1>2, <1>7, <1>8, <1>9, <1>10, <1>11, <1>12, <1>13

(***************************************************************************)
(* The permutation controls.  Besides types: a control keeps the ROC-AUC   *)
(* of the model and of every shuffle so far, and one that passed had a     *)
(* small p-value.                                                          *)
(***************************************************************************)
ControlInv ==
    /\ scores \in ControlScores /\ labels \in Labels
    /\ control \in {"none", "score_label", "pipeline_retrain"}
    /\ aucs \in Seq(Int) /\ shuffles \in Seq(Labels)
    /\ control # "none" => Len(aucs) = Len(shuffles) + 1
    /\ control = "score_label" =>
          /\ aucs[1] = Controls!RocAuc(labels)
          /\ \A i \in 1..Len(shuffles) : aucs[i + 1] = Controls!RocAuc(shuffles[i])
    /\ control = "none" /\ controlReport.control \in {"score_label", "pipeline_retrain"} =>
          /\ Len(aucs) >= 1
          /\ controlReport.passed => Controls!PValueOk(Head(aucs), Tail(aucs))

LEMMA ControlInvInit == Controls!ControlInit => ControlInv
<1> SUFFICES ASSUME Controls!ControlInit PROVE ControlInv
  OBVIOUS
<1>1. /\ scores \in ControlScores /\ labels \in Labels
      /\ control = "none" /\ aucs = <<>> /\ shuffles = <<>>
      /\ controlReport.control = "none"
  BY DEF Controls!ControlInit, Labels, Controls!Rows, Controls!NoReport
<1> HIDE DEF Labels
<1> QED BY <1>1 DEF ControlInv

LEMMA AucStays ==
    ASSUME UNCHANGED scores, NEW y
    PROVE  Controls!RocAuc(y)' = Controls!RocAuc(y)
BY DEF Controls!RocAuc, Controls!Rows, Controls!AverageRank, Controls!TwiceRank, Controls!Positives

(* An invariant of a step that keeps the frozen predictions.               *)
LEMMA ControlInvPrimed ==
    ASSUME UNCHANGED <<scores, labels>>, scores \in ControlScores, labels \in Labels,
           control' \in {"none", "score_label", "pipeline_retrain"},
           aucs' \in Seq(Int), shuffles' \in Seq(Labels),
           control' # "none" => Len(aucs') = Len(shuffles') + 1,
           control' = "score_label" =>
              /\ aucs'[1] = Controls!RocAuc(labels)
              /\ \A i \in 1..Len(shuffles') : aucs'[i + 1] = Controls!RocAuc(shuffles'[i]),
           control' = "none" /\ controlReport'.control \in {"score_label", "pipeline_retrain"} =>
              /\ Len(aucs') >= 1
              /\ controlReport'.passed => Controls!PValueOk(Head(aucs'), Tail(aucs'))
    PROVE  ControlInv'
<1>1. Labels' = Labels
  BY DEF Labels
<1>2. (scores \in ControlScores /\ labels \in Labels)'
  BY <1>1
<1>3. (shuffles \in Seq(Labels))'
  BY <1>1
<1>4. (control = "score_label" =>
          /\ aucs[1] = Controls!RocAuc(labels)
          /\ \A i \in 1..Len(shuffles) : aucs[i + 1] = Controls!RocAuc(shuffles[i]))'
  <2>1. Controls!RocAuc(labels)' = Controls!RocAuc(labels)
    BY AucStays
  <2>2. \A i \in 1..Len(shuffles') : Controls!RocAuc(shuffles[i])' = Controls!RocAuc(shuffles'[i])
    BY AucStays
  <2> QED BY <2>1, <2>2
<1>5. (control = "none" /\ controlReport.control \in {"score_label", "pipeline_retrain"} =>
          /\ Len(aucs) >= 1
          /\ controlReport.passed => Controls!PValueOk(Head(aucs), Tail(aucs)))'
  BY DEF Controls!PValueOk, Controls!NAtOrAbove, Controls!AtOrAbove
<1> QED BY <1>2, <1>3, <1>4, <1>5 DEF ControlInv

LEMMA ControlInvStep ==
    ASSUME ControlInv, Controls!ControlNext \/ UNCHANGED controlsVars
    PROVE  ControlInv'
<1>0. UNCHANGED <<scores, labels>> /\ scores \in ControlScores /\ labels \in Labels
  BY DEF ControlInv, Controls!ControlNext, Controls!RefuseOneClass, Controls!BeginScoreLabel,
         Controls!PermuteScoreLabel, Controls!JudgeScoreLabel, Controls!BeginPipelineRetrain,
         Controls!PermuteTraining, Controls!JudgePipelineRetrain, controlsVars
<1>1. scores \in Seq(Int)
  BY <1>0, ControlConstants
<1>2. \A y \in Labels : Controls!RocAuc(y) \in Int
  BY <1>1, RankSumCountsPairs
<1>3. CASE UNCHANGED controlsVars
  <2>1. UNCHANGED <<control, aucs, shuffles, controlReport>>
    BY <1>3 DEF controlsVars
  <2> QED BY <1>0, <2>1, ControlInvPrimed DEF ControlInv
<1>4. CASE Controls!RefuseOneClass
  <2>1. UNCHANGED <<control, aucs, shuffles>> /\ controlReport'.control = "refused" /\ control = "none"
    BY <1>4 DEF Controls!RefuseOneClass
  <2>2. aucs \in Seq(Int) /\ shuffles \in Seq(Labels)
    BY DEF ControlInv
  <2> HIDE DEF Labels
  <2> QED BY <1>0, <2>1, <2>2, ControlInvPrimed
<1>5. ASSUME control' \in {"score_label", "pipeline_retrain"},
             aucs' = <<Controls!RocAuc(labels)>>, shuffles' = <<>>
      PROVE  ControlInv'
  <2>1. Controls!RocAuc(labels) \in Int
    BY <1>0, <1>2
  <2> DEFINE auc == Controls!RocAuc(labels)
  <2> HIDE DEF auc
  <2>2. aucs' \in Seq(Int) /\ Len(aucs') = 1 /\ aucs'[1] = auc
    BY <1>5, <2>1 DEF auc
  <2>3. shuffles' \in Seq(Labels) /\ Len(shuffles') = 0 /\ 1..Len(shuffles') = {}
    BY <1>5
  <2>4. \A i \in 1..Len(shuffles') : aucs'[i + 1] = Controls!RocAuc(shuffles'[i])
    BY <2>3
  <2>5. control' # "none"
    BY <1>5
  <2> HIDE DEF Labels
  <2> QED BY <1>0, <1>5, <2>2, <2>3, <2>4, <2>5, ControlInvPrimed DEF auc
<1>6. ASSUME NEW y \in Labels, NEW auc \in Int, control \in {"score_label", "pipeline_retrain"},
             control = "score_label" => auc = Controls!RocAuc(y), UNCHANGED control,
             shuffles' = Append(shuffles, y), aucs' = Append(aucs, auc)
      PROVE  ControlInv'
  <2>1. aucs \in Seq(Int) /\ shuffles \in Seq(Labels) /\ Len(aucs) = Len(shuffles) + 1
    BY <1>6 DEF ControlInv
  <2> DEFINE n == Len(shuffles)
  <2>2. /\ aucs' \in Seq(Int) /\ Len(aucs') = n + 2 /\ n \in Nat
        /\ \A i \in 1..(n + 1) : aucs'[i] = aucs[i]
        /\ aucs'[n + 2] = auc
    BY <1>6, <2>1
  <2>3. /\ shuffles' \in Seq(Labels) /\ Len(shuffles') = n + 1
        /\ \A i \in 1..n : shuffles'[i] = shuffles[i]
        /\ shuffles'[n + 1] = y
    <3> HIDE DEF Labels
    <3> QED BY <1>6, <2>1
  <2>4. ASSUME control = "score_label"
        PROVE  /\ aucs'[1] = Controls!RocAuc(labels)
               /\ \A i \in 1..Len(shuffles') : aucs'[i + 1] = Controls!RocAuc(shuffles'[i])
    <3>1. /\ aucs[1] = Controls!RocAuc(labels)
          /\ \A i \in 1..n : aucs[i + 1] = Controls!RocAuc(shuffles[i])
      BY <2>4 DEF ControlInv
    <3>2. \A i \in 1..(n + 1) : (i \in 1..n /\ i + 1 \in 1..(n + 1)) \/ (i = n + 1 /\ i + 1 = n + 2)
      BY <2>2
    <3>3. auc = Controls!RocAuc(y)
      BY <1>6, <2>4
    <3>4. aucs'[1] = aucs[1]
      BY <2>2
    <3> HIDE DEF n
    <3> QED BY <2>2, <2>3, <3>1, <3>2, <3>3, <3>4
  <2>5. control' # "none" /\ control' \in {"none", "score_label", "pipeline_retrain"}
    BY <1>6
  <2>6. Len(aucs') = Len(shuffles') + 1
    BY <2>2, <2>3
  <2> HIDE DEF Labels, n
  <2> QED BY <1>0, <1>6, <2>2, <2>3, <2>4, <2>5, <2>6, ControlInvPrimed
<1>7. ASSUME control # "none", control' = "none", UNCHANGED <<aucs, shuffles>>,
             controlReport'.passed => Controls!PValueOk(Head(aucs), Controls!Null)
      PROVE  ControlInv'
  <2>1. aucs \in Seq(Int) /\ shuffles \in Seq(Labels) /\ Len(aucs) = Len(shuffles) + 1
    BY <1>7 DEF ControlInv
  <2>2. Len(aucs) >= 1
    BY <2>1
  <2>3. controlReport'.passed => Controls!PValueOk(Head(aucs), Tail(aucs))
    BY <1>7 DEF Controls!Null
  <2> HIDE DEF Labels
  <2> QED BY <1>0, <1>7, <2>1, <2>2, <2>3, ControlInvPrimed
<1>8. CASE Controls!BeginScoreLabel
  BY <1>5, <1>8 DEF Controls!BeginScoreLabel
<1>9. CASE Controls!BeginPipelineRetrain
  BY <1>5, <1>9 DEF Controls!BeginPipelineRetrain
<1>10. Controls!Shuffled \subseteq Labels
  BY DEF Controls!Shuffled, Labels, Controls!Rows
<1>11. CASE Controls!PermuteScoreLabel
  <2>1. PICK y \in Controls!Shuffled : /\ shuffles' = Append(shuffles, y)
                                      /\ aucs' = Append(aucs, Controls!RocAuc(y))
    BY <1>11 DEF Controls!PermuteScoreLabel
  <2>2. control = "score_label" /\ UNCHANGED control
    BY <1>11 DEF Controls!PermuteScoreLabel
  <2> QED BY <1>2, <1>6, <1>10, <2>1, <2>2
<1>12. CASE Controls!PermuteTraining
  <2>0. PICK y \in Controls!Shuffled : \E auc \in Controls!Refit(y) :
              shuffles' = Append(shuffles, y) /\ aucs' = Append(aucs, auc)
    BY <1>12 DEF Controls!PermuteTraining
  <2>1. PICK auc \in Controls!Refit(y) :
              shuffles' = Append(shuffles, y) /\ aucs' = Append(aucs, auc)
    BY <2>0
  <2>2. control = "pipeline_retrain" /\ UNCHANGED control
    BY <1>12 DEF Controls!PermuteTraining
  <2>3. auc \in Int
    <3>1. aucs \in Seq(Int) /\ shuffles \in Seq(Labels) /\ Len(aucs) = Len(shuffles) + 1
      BY <2>2 DEF ControlInv
    <3>2. \A i \in DOMAIN shuffles : aucs[i + 1] \in Int
      <4> HIDE DEF Labels
      <4>1. DOMAIN shuffles = 1..Len(shuffles) /\ Len(shuffles) \in Nat
        BY <3>1
      <4>2. \A i \in 1..Len(shuffles) : i + 1 \in 1..Len(aucs)
        BY <3>1, <4>1
      <4> QED BY <3>1, <4>1, <4>2
    <3> QED BY <2>1, <3>2, ControlConstants DEF Controls!Refit
  <2> QED BY <1>6, <1>10, <2>1, <2>2, <2>3
<1>13. CASE Controls!JudgeScoreLabel
  BY <1>7, <1>13 DEF Controls!JudgeScoreLabel
<1>14. CASE Controls!JudgePipelineRetrain
  BY <1>7, <1>14 DEF Controls!JudgePipelineRetrain
<1> QED BY <1>3, <1>4, <1>8, <1>9, <1>11, <1>12, <1>13, <1>14 DEF Controls!ControlNext

LEMMA RankSumsAreConcordances == ControlInv => Controls!RankSumIsConcordance
<1> SUFFICES ASSUME ControlInv, control = "score_label"
             PROVE  /\ aucs[1] = Controls!Concordance(labels)
                    /\ \A i \in DOMAIN shuffles : aucs[i + 1] = Controls!Concordance(shuffles[i])
  BY DEF Controls!RankSumIsConcordance
<1>1. scores \in Seq(Int) /\ labels \in Labels /\ shuffles \in Seq(Labels)
  BY ControlConstants DEF ControlInv
<1>2. \A y \in Labels : Controls!RocAuc(y) = Controls!Concordance(y)
  BY <1>1, RankSumCountsPairs
<1>3. /\ aucs[1] = Controls!RocAuc(labels)
      /\ \A i \in 1..Len(shuffles) : aucs[i + 1] = Controls!RocAuc(shuffles[i])
  BY DEF ControlInv
<1>4. DOMAIN shuffles = 1..Len(shuffles) /\ \A i \in 1..Len(shuffles) : shuffles[i] \in Labels
  <2> HIDE DEF Labels
  <2> QED BY <1>1
<1> QED BY <1>1, <1>2, <1>3, <1>4

(***************************************************************************)
(* Of the AUCs of the model and of the shuffles, no more are significant   *)
(* than the significant one that is lowest has at or above it.             *)
(***************************************************************************)
AtLeast(i) == {j \in 1..Len(aucs) : aucs[j] >= aucs[i]}

LEMMA OthersAtOrAbove ==
    ASSUME aucs \in Seq(Int), NEW i \in 1..Len(aucs)
    PROVE  /\ Len(Controls!Others(i)) = Len(aucs) - 1
           /\ Controls!AtOrAbove(aucs[i], Controls!Others(i)) \in Nat
           /\ Cardinality(AtLeast(i)) <= Controls!AtOrAbove(aucs[i], Controls!Others(i)) + 1
<1> DEFINE n == Len(aucs)
           t == Controls!Others(i)
           T == {j \in 1..(n - 1) : t[j] >= aucs[i]}
           S == AtLeast(i) \ {i}
           f == [j \in S |-> IF j < i THEN j ELSE j - 1]
<1>1. /\ t \in Seq(Int) /\ Len(t) = n - 1
      /\ \A j \in 1..(n - 1) : t[j] = IF j < i THEN aucs[j] ELSE aucs[j + 1]
  BY Dropped DEF Controls!Others
<1>2. n \in Nat /\ n - 1 \in Nat /\ \A j \in 1..n : aucs[j] \in Int
  OBVIOUS
<1> HIDE DEF t
<1>3. Controls!AtOrAbove(aucs[i], t) = Cardinality(T)
  <2>1. DOMAIN t = 1..(n - 1)
    BY <1>1
  <2> QED BY <2>1, ControlsCardinality DEF Controls!AtOrAbove
<1>4. IsFiniteSet(T) /\ Cardinality(T) \in Nat
  <2>1. T \in SUBSET (1..(n - 1))
    OBVIOUS
  <2> HIDE DEF T, n
  <2>2. IsFiniteSet(T) /\ Cardinality(T) \in 0..(n - 1)
    BY <1>2, <2>1, CountOfPart
  <2> QED BY <1>2, <2>2
<1>5. f \in [S -> T]
  <2>1. ASSUME NEW j \in S PROVE (IF j < i THEN j ELSE j - 1) \in T
    <3>1. j \in 1..n /\ j # i /\ aucs[j] >= aucs[i]
      BY DEF AtLeast
    <3>2. CASE j < i
      <4>1. j \in 1..(n - 1)
        BY <1>2, <3>1, <3>2
      <4> QED BY <1>1, <3>1, <3>2, <4>1
    <3>3. CASE ~(j < i)
      <4>1. j - 1 \in 1..(n - 1) /\ (j - 1) + 1 = j /\ ~(j - 1 < i)
        BY <1>2, <3>1, <3>3
      <4>2. t[j - 1] = aucs[j]
        BY <1>1, <4>1
      <4> QED BY <3>1, <3>3, <4>1, <4>2
    <3> QED BY <3>2, <3>3
  <2> HIDE DEF S, T
  <2> QED BY <2>1
<1>6. \A a, b \in S : f[a] = f[b] => a = b
  <2>1. \A a \in S : a \in 1..n /\ a # i
    BY DEF AtLeast
  <2> HIDE DEF S
  <2> QED BY <1>2, <2>1
<1>7. Cardinality(S) <= Cardinality(T)
  <2> HIDE DEF S, T, f
  <2> QED BY <1>4, <1>5, <1>6, Injected
<1>8. IsFiniteSet(AtLeast(i)) /\ Cardinality(AtLeast(i)) \in Nat /\ i \in AtLeast(i)
  <2>1. AtLeast(i) \in SUBSET (1..n) /\ i \in AtLeast(i)
    BY <1>2 DEF AtLeast
  <2> HIDE DEF n
  <2>2. IsFiniteSet(AtLeast(i)) /\ Cardinality(AtLeast(i)) \in 0..n
    BY <1>2, <2>1, CountOfPart
  <2> QED BY <1>2, <2>1, <2>2
<1>9. Cardinality(S) = Cardinality(AtLeast(i)) - 1
  BY <1>8, FS_RemoveElement
<1> HIDE DEF S, T
<1> QED BY <1>1, <1>3, <1>4, <1>7, <1>8, <1>9 DEF t

LEMMA PassesAreRare == ControlInv => Controls!PassIsRare
<1> SUFFICES ASSUME ControlInv, control = "none",
                    controlReport.control \in {"score_label", "pipeline_retrain"}
             PROVE  /\ 100 * Cardinality(Controls!Significant) <= ControlAlphaPercent * Len(aucs)
                    /\ controlReport.passed => 1 \in Controls!Significant
  BY ControlsCardinality DEF Controls!PassIsRare
<1> DEFINE n == Len(aucs)
           Sig == Controls!Significant
           c(i) == Cardinality(AtLeast(i))
           C == {c(i) : i \in Sig}
<1>1. /\ aucs \in Seq(Int) /\ n \in Nat \ {0} /\ DOMAIN aucs = 1..n
      /\ \A i \in 1..n : aucs[i] \in Int
      /\ controlReport.passed => Controls!PValueOk(Head(aucs), Tail(aucs))
  <2>1. aucs \in Seq(Int) /\ n >= 1
        /\ (controlReport.passed => Controls!PValueOk(Head(aucs), Tail(aucs)))
    BY DEF ControlInv
  <2> QED BY <2>1
<1>2. Sig = {i \in 1..n : Controls!PValueOk(aucs[i], Controls!Others(i))}
  BY <1>1 DEF Controls!Significant
<1>3. controlReport.passed => 1 \in Sig
  <2>1. 1 \in 1..n /\ Head(aucs) = aucs[1]
    BY <1>1
  <2>2. Controls!Others(1) = Tail(aucs)
    BY <1>1 DEF Controls!Others
  <2> HIDE DEF n, Sig
  <2> QED BY <1>1, <1>2, <2>1, <2>2
<1>4. Sig \in SUBSET (1..n) /\ IsFiniteSet(Sig) /\ Cardinality(Sig) \in Nat
  <2>1. Sig \in SUBSET (1..n)
    BY <1>2
  <2> HIDE DEF Sig, n
  <2>2. IsFiniteSet(Sig) /\ Cardinality(Sig) \in 0..n
    BY <1>1, <2>1, CountOfPart
  <2> QED BY <1>1, <2>1, <2>2
<1>5. \A i \in 1..n : IsFiniteSet(AtLeast(i)) /\ c(i) \in 0..n
  <2> SUFFICES ASSUME NEW i \in 1..n PROVE IsFiniteSet(AtLeast(i)) /\ c(i) \in 0..n
    OBVIOUS
  <2>1. AtLeast(i) \in SUBSET (1..n)
    BY DEF AtLeast
  <2> HIDE DEF n
  <2> QED BY <1>1, <2>1, CountOfPart
<1>6. CASE Sig = {}
  <2>1. Cardinality(Sig) = 0
    BY <1>6, FS_EmptySet
  <2>2. ControlAlphaPercent * n >= 0
    BY <1>1, ControlConstants
  <2> HIDE DEF Sig, n
  <2> QED BY <1>3, <2>1, <2>2 DEF Sig, n
<1>7. CASE Sig # {}
  <2>1. C \in SUBSET (0..n) /\ C # {}
    <3> HIDE DEF Sig, n, c
    <3> QED BY <1>4, <1>5, <1>7
  <2>2. PICK m \in C : \A k \in C : k <= m
    <3> HIDE DEF C, n
    <3> QED BY <1>1, <2>1, GreatestElement
  <2>3. PICK i \in Sig : m = c(i)
    BY DEF C
  <2>4. \A k \in Sig : c(k) <= c(i)
    BY <2>2, <2>3
  <2>5. i \in 1..n
    BY <1>4
  <2>6. ASSUME NEW k \in Sig PROVE aucs[k] >= aucs[i]
    <3> SUFFICES ASSUME aucs[k] < aucs[i] PROVE FALSE
      BY <1>1, <1>4, <2>5
    <3>1. k \in 1..n
      BY <1>4
    <3>2. AtLeast(i) \cup {k} \in SUBSET AtLeast(k) /\ k \notin AtLeast(i)
      BY <1>1, <2>5, <3>1 DEF AtLeast
    <3>3. IsFiniteSet(AtLeast(i)) /\ IsFiniteSet(AtLeast(k)) /\ c(i) \in Nat /\ c(k) \in Nat
      BY <1>1, <1>5, <2>5, <3>1
    <3>4. Cardinality(AtLeast(i) \cup {k}) = c(i) + 1
      BY <3>2, <3>3, FS_AddElement
    <3>5. Cardinality(AtLeast(i) \cup {k}) <= c(k)
      BY <3>2, <3>3, FS_Subset
    <3> QED BY <2>4, <3>3, <3>4, <3>5
  <2>7. Sig \in SUBSET AtLeast(i)
    BY <1>4, <2>6 DEF AtLeast
  <2>8. Cardinality(Sig) <= c(i)
    BY <1>5, <2>5, <2>7, FS_Subset
  <2> DEFINE k == Controls!AtOrAbove(aucs[i], Controls!Others(i))
  <2>9. Len(Controls!Others(i)) = n - 1 /\ k \in Nat /\ c(i) <= k + 1
    BY <1>1, <2>5, OthersAtOrAbove
  <2>10. 100 * (k + 1) <= ControlAlphaPercent * (Len(Controls!Others(i)) + 1)
    BY <1>2, <2>3 DEF Controls!PValueOk, Controls!NAtOrAbove
  <2>11. c(i) \in Nat
    BY <1>1, <1>5, <2>5
  <2> HIDE DEF Sig, n, c, k
  <2>12. (n - 1) + 1 = n
    BY <1>1
  <2>13. 100 * (k + 1) <= ControlAlphaPercent * n
    BY <2>9, <2>10, <2>12
  <2>14. ControlAlphaPercent * n \in Int
    BY <1>1, ControlConstants
  <2> DEFINE allowed == ControlAlphaPercent * n
  <2> HIDE DEF allowed
  <2>15. 100 * Cardinality(Sig) <= allowed
    BY <1>4, <2>8, <2>9, <2>11, <2>13, <2>14 DEF allowed
  <2> QED BY <1>3, <2>15 DEF Sig, n, allowed
<1> QED BY <1>6, <1>7

(***************************************************************************)
(* What a permutation control has drawn and judged, of any number of       *)
(* permutations (model_validation/negative_controls.py).                   *)
(***************************************************************************)
THEOREM ControlInvariant == StudiesSpec => [](focus = "controls" => ControlInv)
<1>1. FocusInit /\ StudiesInit => (focus = "controls" => ControlInv)
  BY ControlInvInit DEF StudiesInit, ControlsInit
<1>2. (focus = "controls" => ControlInv) /\ [StudiesNext]_studiesVars => (focus = "controls" => ControlInv)'
  BY FocusMoves, ControlInvStep
<1> QED BY <1>1, <1>2, PTL DEF StudiesSpec

(***************************************************************************)
(* negative_controls.py and independent_roc_auc(): for any scores, any     *)
(* labels and any number of permutations, the rank-sum estimate counts the *)
(* pairs the scores order, and at most a share of alpha of the label       *)
(* vectors drawn would have passed as the real one.                        *)
(***************************************************************************)
THEOREM ControlTestsAreExact == StudiesSpec => []ControlsAreExact
<1>1. (focus = "controls" => ControlInv) => ControlsAreExact
  BY RankSumsAreConcordances, PassesAreRare DEF ControlsAreExact
<1> QED BY <1>1, ControlInvariant, PTL
==============================================================================
