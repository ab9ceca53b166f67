----------------------------- MODULE LedgerProofs -----------------------------
(***************************************************************************)
(* Theorems about Ledger and the Waterfall it extends, for any number of   *)
(* contracts, any schedules and any length of the simulated period.        *)
(***************************************************************************)
EXTENDS Ledger, TLAPS, WellFoundedInduction

-----------------------------------------------------------------------------
(***************************************************************************)
(* Running totals and the payment waterfall, for rows of any length and    *)
(* amounts of any size.  Both are recursive, so each fact is an induction  *)
(* over the slots; the induction principle itself comes from the           *)
(* well-foundedness of < on the naturals.                                  *)
(***************************************************************************)
(***************************************************************************)
(* Every non-empty set of naturals has a least element.                    *)
(***************************************************************************)
LEMMA LeastElement ==
    ASSUME NEW S \in SUBSET Nat, S # {}
    PROVE  \E m \in S : \A n \in S : m <= n
<1>1. IsWellFoundedOn(OpToRel(<, Nat), Nat)
  BY NatLessThanWellFounded
<1>2. PICK m \in S : \A n \in S : ~(<<n, m>> \in OpToRel(<, Nat))
  BY <1>1, WFMin
<1>3. \A n \in S : ~(n < m)
  BY <1>2 DEF OpToRel
<1> QED BY <1>3

(***************************************************************************)
(* Induction over 0..n, for a property given as the set of its instances.  *)
(***************************************************************************)
LEMMA UpToInduction ==
    ASSUME NEW n \in Nat, NEW S, 0 \in S,
           \A k \in 0..n : k \in S /\ k + 1 <= n => k + 1 \in S
    PROVE  \A k \in 0..n : k \in S
<1>1. SUFFICES ASSUME NEW b \in 0..n, b \notin S PROVE FALSE
  OBVIOUS
<1> DEFINE Bad == {k \in Nat : k <= n /\ k \notin S}
<1>2. Bad \in SUBSET Nat /\ Bad # {}
  BY <1>1
<1>3. PICK m \in Bad : \A k \in Bad : m <= k
  <2> HIDE DEF Bad
  <2> QED BY <1>2, LeastElement
<1>4. m # 0 /\ m - 1 \in 0..n /\ m - 1 \in S
  BY <1>3
<1> QED BY <1>3, <1>4

-----------------------------------------------------------------------------
(***************************************************************************)
(* RunningTotal is defined, and obeys its recursion.                       *)
(***************************************************************************)
LEMMA RunningTotalExists ==
    ASSUME NEW n \in Nat, NEW r \in [1..n -> Int]
    PROVE  \E f \in [0..n -> Int] :
              f = [k \in 0..n |-> IF k = 0 THEN 0 ELSE f[k - 1] + r[k]]
<1> DEFINE Upto(m, f) == f = [k \in 0..m |-> IF k = 0 THEN 0 ELSE f[k - 1] + r[k]]
           Good == {m \in 0..n : \E f \in [0..m -> Int] : Upto(m, f)}
<1>1. 0 \in Good
  <2> DEFINE f == [k \in 0..0 |-> 0]
  <2>1. f \in [0..0 -> Int] /\ Upto(0, f)
    OBVIOUS
  <2> HIDE DEF f, Upto
  <2> QED BY <2>1
<1>2. \A m \in 0..n : m \in Good /\ m + 1 <= n => m + 1 \in Good
  <2> SUFFICES ASSUME NEW m \in 0..n, m \in Good, m + 1 <= n PROVE m + 1 \in Good
    OBVIOUS
  <2>1. PICK f \in [0..m -> Int] : Upto(m, f)
    OBVIOUS
  <2> DEFINE g == [k \in 0..(m + 1) |-> IF k = m + 1 THEN f[m] + r[m + 1] ELSE f[k]]
  <2>2. g \in [0..(m + 1) -> Int]
    OBVIOUS
  <2>3. \A k \in 0..(m + 1) : g[k] = IF k = 0 THEN 0 ELSE g[k - 1] + r[k]
    BY <2>1
  <2>4. Upto(m + 1, g)
    BY <2>3
  <2> HIDE DEF g, Upto
  <2> QED BY <2>2, <2>4
<1>3. \A m \in 0..n : m \in Good
  <2> HIDE DEF Good
  <2> QED BY <1>1, <1>2, UpToInduction
<1>4. n \in Good
  <2> HIDE DEF Good
  <2> QED BY <1>3
<1> QED BY <1>4

LEMMA RunningTotalDef ==
    ASSUME NEW n \in Nat, NEW r \in [1..n -> Int]
    PROVE  /\ RunningTotal(r, n) \in [0..n -> Int]
           /\ RunningTotal(r, n)[0] = 0
           /\ \A k \in 1..n : RunningTotal(r, n)[k] = RunningTotal(r, n)[k - 1] + r[k]
<1>1. PICK f \in [0..n -> Int] :
           f = [k \in 0..n |-> IF k = 0 THEN 0 ELSE f[k - 1] + r[k]]
  BY RunningTotalExists
<1>2. RunningTotal(r, n)
        = [k \in 0..n |-> IF k = 0 THEN 0 ELSE RunningTotal(r, n)[k - 1] + r[k]]
  BY <1>1 DEF RunningTotal
<1> DEFINE T == RunningTotal(r, n)
           Good == {k \in Nat : T[k] \in Int}
<1> HIDE DEF T
<1>3. T[0] = 0 /\ \A k \in 1..n : T[k] = T[k - 1] + r[k]
  BY <1>2 DEF T
<1>4. 0 \in Good /\ \A k \in 0..n : k \in Good /\ k + 1 <= n => k + 1 \in Good
  BY <1>3
<1>5. \A k \in 0..n : k \in Good
  <2> HIDE DEF Good
  <2> QED BY <1>4, UpToInduction
<1>6. T \in [0..n -> Int]
  BY <1>2, <1>5 DEF T
<1> QED BY <1>3, <1>6 DEF T

(***************************************************************************)
(* Running totals of naturals are naturals and never decrease.             *)
(***************************************************************************)
LEMMA RunningTotalMonotone ==
    ASSUME NEW n \in Nat, NEW r \in [1..n -> Nat]
    PROVE  /\ RunningTotal(r, n) \in [0..n -> Nat]
           /\ \A i, j \in 0..n : i <= j => RunningTotal(r, n)[i] <= RunningTotal(r, n)[j]
<1> DEFINE T == RunningTotal(r, n)
<1>1. /\ T \in [0..n -> Int] /\ T[0] = 0
      /\ \A k \in 1..n : T[k] = T[k - 1] + r[k]
  <2>1. r \in [1..n -> Int]
    OBVIOUS
  <2> QED BY <2>1, RunningTotalDef
<1> HIDE DEF T
<1> DEFINE Good == {k \in 0..n : T[k] \in Nat /\ \A i \in 0..k : T[i] <= T[k]}
<1>2. 0 \in Good
  BY <1>1
<1>3. \A k \in 0..n : k \in Good /\ k + 1 <= n => k + 1 \in Good
  <2> SUFFICES ASSUME NEW k \in 0..n, k \in Good, k + 1 <= n PROVE k + 1 \in Good
    OBVIOUS
  <2>1. T[k + 1] = T[k] + r[k + 1]
    BY <1>1
  <2>2. T[k] <= T[k + 1] /\ T[k + 1] \in Nat
    BY <2>1
  <2>3. ASSUME NEW i \in 0..(k + 1) PROVE T[i] <= T[k + 1]
    <3>1. T[i] \in Int
      BY <1>1
    <3> QED BY <2>2, <3>1
  <2> QED BY <2>2, <2>3
<1>4. \A k \in 0..n : k \in Good
  <2> HIDE DEF Good
  <2> QED BY <1>2, <1>3, UpToInduction
<1> QED BY <1>1, <1>4 DEF T

(***************************************************************************)
(* A row that is nowhere above another has totals nowhere above it.        *)
(***************************************************************************)
LEMMA RunningTotalOrder ==
    ASSUME NEW n \in Nat, NEW q \in [1..n -> Nat], NEW r \in [1..n -> Nat],
           \A s \in 1..n : q[s] <= r[s]
    PROVE  \A k \in 0..n : RunningTotal(q, n)[k] <= RunningTotal(r, n)[k]
<1> DEFINE Q == RunningTotal(q, n)
           R == RunningTotal(r, n)
           Good == {k \in 0..n : Q[k] <= R[k]}
<1>1. /\ Q \in [0..n -> Int] /\ Q[0] = 0 /\ \A k \in 1..n : Q[k] = Q[k - 1] + q[k]
      /\ R \in [0..n -> Int] /\ R[0] = 0 /\ \A k \in 1..n : R[k] = R[k - 1] + r[k]
  <2>1. q \in [1..n -> Int] /\ r \in [1..n -> Int]
    OBVIOUS
  <2> QED BY <2>1, RunningTotalDef
<1> HIDE DEF Q, R
<1>2. 0 \in Good
  BY <1>1
<1>3. \A k \in 0..n : k \in Good /\ k + 1 <= n => k + 1 \in Good
  BY <1>1
<1>4. \A k \in 0..n : k \in Good
  <2> HIDE DEF Good
  <2> QED BY <1>2, <1>3, UpToInduction
<1> QED BY <1>4 DEF Q, R

(***************************************************************************)
(* What is left of a payment after slot s is what the first s slots could  *)
(* not absorb.                                                             *)
(***************************************************************************)
LEMMA UnallocatedClosedForm ==
    ASSUME NEW n \in Nat, NEW open \in [1..n -> Nat], NEW amount \in Nat
    PROVE  \A s \in 0..n :
              Unallocated(amount, open, n)[s] = AtLeastZero(amount - RunningTotal(open, n)[s])
<1> DEFINE R == RunningTotal(open, n)
           U == Unallocated(amount, open, n)
           After(f, s) == IF s = 0 THEN amount
                          ELSE f[s - 1] - Least(f[s - 1], open[s])
           f0 == [s \in 0..n |-> AtLeastZero(amount - R[s])]
           Good == {s \in 0..n : U[s] = AtLeastZero(amount - R[s])}
<1>1. /\ R \in [0..n -> Int] /\ R[0] = 0 /\ \A k \in 1..n : R[k] = R[k - 1] + open[k]
  <2>1. open \in [1..n -> Int]
    OBVIOUS
  <2> QED BY <2>1, RunningTotalDef
<1>2. R \in [0..n -> Nat]
  BY RunningTotalMonotone
<1> HIDE DEF R
<1>3. f0 = [s \in 0..n |-> After(f0, s)]
  <2>1. f0[0] = amount
    BY <1>1 DEF AtLeastZero
  <2>2. ASSUME NEW s \in 1..n PROVE f0[s] = f0[s - 1] - Least(f0[s - 1], open[s])
    <3>1. s - 1 \in 0..n /\ s \in 0..n /\ R[s] = R[s - 1] + open[s]
      BY <1>1
    <3>2. open[s] \in Nat /\ R[s - 1] \in Nat
      BY <1>2, <3>1
    <3>3. f0[s] = AtLeastZero(amount - R[s]) /\ f0[s - 1] = AtLeastZero(amount - R[s - 1])
      BY <3>1
    <3> HIDE DEF f0
    <3> QED BY <3>1, <3>2, <3>3 DEF AtLeastZero, Least
  <2>3. \A s \in 0..n : f0[s] = After(f0, s)
    <3> HIDE DEF f0
    <3> QED BY <2>1, <2>2
  <2> QED BY <2>3
<1>4. U = [s \in 0..n |-> After(U, s)]
  <2> HIDE DEF f0
  <2> QED BY <1>3 DEF Unallocated
<1> HIDE DEF U
<1>5. U[0] = amount /\ \A s \in 1..n : U[s] = U[s - 1] - Least(U[s - 1], open[s])
  <2>1. \A s \in 0..n : U[s] = After(U, s)
    <3> HIDE DEF After
    <3> QED BY <1>4
  <2>2. U[0] = After(U, 0)
    BY <2>1
  <2>3. ASSUME NEW s \in 1..n PROVE U[s] = U[s - 1] - Least(U[s - 1], open[s])
    <3>1. U[s] = After(U, s) /\ s # 0
      BY <2>1
    <3> QED BY <3>1
  <2> QED BY <2>2, <2>3
<1>6. 0 \in Good
  BY <1>1, <1>5 DEF AtLeastZero
<1>7. \A s \in 0..n : s \in Good /\ s + 1 <= n => s + 1 \in Good
  BY <1>1, <1>2, <1>5 DEF AtLeastZero, Least
<1>8. \A s \in 0..n : s \in Good
  <2> HIDE DEF Good
  <2> QED BY <1>6, <1>7, UpToInduction
<1> QED BY <1>8 DEF U, R

-----------------------------------------------------------------------------
(***************************************************************************)
(* The row that is left when its oldest part is paid.                      *)
(***************************************************************************)
LEMMA OldestFirstTyped ==
    ASSUME NEW n \in Nat, NEW r \in [1..n -> Nat], NEW amount \in Nat
    PROVE  /\ OldestFirst(r, amount, n) \in [1..n -> Nat]
           /\ \A s \in 1..n : OldestFirst(r, amount, n)[s] <= r[s]
<1> DEFINE T == RunningTotal(r, n)
<1>1. T \in [0..n -> Nat]
  BY RunningTotalMonotone
<1> HIDE DEF T
<1>2. OldestFirst(r, amount, n) = [s \in 1..n |-> Clip(T[s] - amount, 0, r[s])]
  BY DEF OldestFirst, T
<1>3. \A s \in 1..n : Clip(T[s] - amount, 0, r[s]) \in 0..r[s]
  BY <1>1 DEF Clip
<1> QED BY <1>2, <1>3

(***************************************************************************)
(* Nothing paid leaves the row as it is.                                   *)
(***************************************************************************)
LEMMA OldestFirstOfNothing ==
    ASSUME NEW n \in Nat, NEW r \in [1..n -> Nat]
    PROVE  OldestFirst(r, 0, n) = r
<1> DEFINE T == RunningTotal(r, n)
<1>1. T \in [0..n -> Nat] /\ \A s \in 1..n : T[s] = T[s - 1] + r[s]
  <2>1. r \in [1..n -> Int]
    OBVIOUS
  <2> QED BY <2>1, RunningTotalMonotone, RunningTotalDef
<1> HIDE DEF T
<1>2. ASSUME NEW s \in 1..n PROVE Clip(T[s] - 0, 0, r[s]) = r[s]
  <2>1. s - 1 \in 0..n /\ T[s - 1] \in Nat /\ r[s] \in Nat
    BY <1>1
  <2> QED BY <1>1, <2>1 DEF Clip
<1>3. OldestFirst(r, 0, n) = [s \in 1..n |-> Clip(T[s] - 0, 0, r[s])]
  BY DEF OldestFirst, T
<1> QED BY <1>2, <1>3

(***************************************************************************)
(* Its totals are the totals of the row, less what is paid.                *)
(***************************************************************************)
LEMMA OldestFirstTotal ==
    ASSUME NEW n \in Nat, NEW r \in [1..n -> Nat], NEW amount \in Nat
    PROVE  \A k \in 0..n : RunningTotal(OldestFirst(r, amount, n), n)[k]
                             = AtLeastZero(RunningTotal(r, n)[k] - amount)
<1> DEFINE q == OldestFirst(r, amount, n)
           T == RunningTotal(r, n)
           Q == RunningTotal(q, n)
           Good == {k \in 0..n : Q[k] = AtLeastZero(T[k] - amount)}
<1>1. T \in [0..n -> Nat] /\ T[0] = 0 /\ \A s \in 1..n : T[s] = T[s - 1] + r[s]
  <2>1. r \in [1..n -> Int]
    OBVIOUS
  <2> QED BY <2>1, RunningTotalMonotone, RunningTotalDef
<1>2. q \in [1..n -> Nat]
  BY OldestFirstTyped
<1>3. \A s \in 1..n : q[s] = Clip(T[s] - amount, 0, r[s])
  BY DEF OldestFirst
<1> HIDE DEF q, T
<1>4. Q[0] = 0 /\ \A s \in 1..n : Q[s] = Q[s - 1] + q[s]
  <2>1. q \in [1..n -> Int]
    BY <1>2
  <2> QED BY <2>1, RunningTotalDef
<1> HIDE DEF Q
<1>5. 0 \in Good
  BY <1>1, <1>4 DEF AtLeastZero
<1>6. \A k \in 0..n : k \in Good /\ k + 1 <= n => k + 1 \in Good
  <2> SUFFICES ASSUME NEW k \in 0..n, k \in Good, k + 1 <= n PROVE k + 1 \in Good
    OBVIOUS
  <2>1. /\ k + 1 \in 1..n /\ T[k] \in Nat /\ r[k + 1] \in Nat
        /\ T[k + 1] = T[k] + r[k + 1] /\ Q[k + 1] = Q[k] + q[k + 1]
    BY <1>1, <1>4
  <2>2. q[k + 1] = Clip(T[k + 1] - amount, 0, r[k + 1])
    BY <1>3, <2>1
  <2> QED BY <2>1, <2>2 DEF AtLeastZero, Clip
<1>7. \A k \in 0..n : k \in Good
  <2> HIDE DEF Good
  <2> QED BY <1>5, <1>6, UpToInduction
<1> QED BY <1>7 DEF Q, T, q

(***************************************************************************)
(* A payment never gives a slot more than it owes, whatever the row.       *)
(***************************************************************************)
LEMMA AllocateBounded ==
    ASSUME NEW n \in Nat, NEW open \in [1..n -> Nat], NEW amount \in Nat
    PROVE  /\ Allocate(amount, open, n) \in [1..n -> Nat]
           /\ \A s \in 1..n :
                 /\ Allocate(amount, open, n)[s] <= open[s]
                 /\ Allocate(amount, open, n)[s]
                      = Least(AtLeastZero(amount - RunningTotal(open, n)[s - 1]), open[s])
<1> DEFINE U == Unallocated(amount, open, n)
           R == RunningTotal(open, n)
<1>1. R \in [0..n -> Nat]
  BY RunningTotalMonotone
<1>2. \A s \in 0..n : U[s] = AtLeastZero(amount - R[s])
  BY UnallocatedClosedForm
<1> HIDE DEF U, R
<1>3. Allocate(amount, open, n) = [s \in 1..n |-> Least(U[s - 1], open[s])]
  BY DEF Allocate, U
<1>4. ASSUME NEW s \in 1..n
      PROVE  /\ U[s - 1] = AtLeastZero(amount - R[s - 1])
             /\ Least(U[s - 1], open[s]) \in 0..open[s]
  <2>1. s - 1 \in 0..n /\ R[s - 1] \in Nat /\ open[s] \in Nat
    BY <1>1
  <2> QED BY <1>2, <2>1 DEF Least, AtLeastZero
<1> QED BY <1>3, <1>4 DEF R

(***************************************************************************)
(* What a payment leaves of any row is the row with its oldest part paid.  *)
(***************************************************************************)
LEMMA AllocatePaysOldestFirst ==
    ASSUME NEW n \in Nat, NEW open \in [1..n -> Nat], NEW amount \in Nat, NEW s \in 1..n
    PROVE  open[s] - Allocate(amount, open, n)[s] = OldestFirst(open, amount, n)[s]
<1> DEFINE T == RunningTotal(open, n)
           given == Allocate(amount, open, n)[s]
           due == open[s]
           before == T[s - 1]
<1>1. /\ T \in [0..n -> Nat] /\ \A k \in 1..n : T[k] = T[k - 1] + open[k]
  <2>1. open \in [1..n -> Int]
    OBVIOUS
  <2> QED BY <2>1, RunningTotalMonotone, RunningTotalDef
<1>2. given = Least(AtLeastZero(amount - before), due)
  BY AllocateBounded
<1>3. OldestFirst(open, amount, n)[s] = Clip(T[s] - amount, 0, due)
  BY DEF OldestFirst
<1> HIDE DEF T, given
<1>4. before \in Nat /\ due \in Nat /\ T[s] = before + due
  BY <1>1
<1>5. due - given = Clip(T[s] - amount, 0, due)
  <2> HIDE DEF before, due
  <2> QED BY <1>2, <1>4 DEF Least, AtLeastZero, Clip
<1> QED BY <1>3, <1>5 DEF given

(***************************************************************************)
(* Paying twice is paying the sum: the waterfall keeps no memory of single *)
(* payments.                                                               *)
(***************************************************************************)
LEMMA OldestFirstTwice ==
    ASSUME NEW n \in Nat, NEW r \in [1..n -> Nat], NEW first \in Nat, NEW second \in Nat
    PROVE  OldestFirst(OldestFirst(r, first, n), second, n) = OldestFirst(r, first + second, n)
<1> DEFINE open == OldestFirst(r, first, n)
           T == RunningTotal(r, n)
           R == RunningTotal(open, n)
<1>1. T \in [0..n -> Nat] /\ \A s \in 1..n : T[s] = T[s - 1] + r[s]
  <2>1. r \in [1..n -> Int]
    OBVIOUS
  <2> QED BY <2>1, RunningTotalMonotone, RunningTotalDef
<1>2. \A s \in 1..n : open[s] = Clip(T[s] - first, 0, r[s])
  BY DEF OldestFirst
<1>3. \A k \in 0..n : R[k] = AtLeastZero(T[k] - first)
  BY OldestFirstTotal
<1>4. /\ OldestFirst(open, second, n) = [s \in 1..n |-> Clip(R[s] - second, 0, open[s])]
      /\ OldestFirst(r, first + second, n) = [s \in 1..n |-> Clip(T[s] - (first + second), 0, r[s])]
  BY DEF OldestFirst
<1> HIDE DEF open, T, R
<1>5. ASSUME NEW s \in 1..n
      PROVE  Clip(R[s] - second, 0, open[s]) = Clip(T[s] - (first + second), 0, r[s])
  <2> DEFINE before == T[s - 1]
             due == r[s]
             total == T[s]
  <2>1. before \in Nat /\ due \in Nat /\ total = before + due
    BY <1>1
  <2>2. R[s] = AtLeastZero(total - first) /\ open[s] = Clip(total - first, 0, due)
    BY <1>2, <1>3
  <2> HIDE DEF before, due, total
  <2>3. Clip(AtLeastZero(total - first) - second, 0, Clip(total - first, 0, due))
          = Clip(total - (first + second), 0, due)
    <3>1. CASE total < first
      BY <2>1, <3>1 DEF AtLeastZero, Clip
    <3>2. CASE total >= first /\ total - first <= due
      BY <2>1, <3>2 DEF AtLeastZero, Clip
    <3>3. CASE total >= first /\ total - first > due
      BY <2>1, <3>3 DEF AtLeastZero, Clip
    <3> QED BY <2>1, <3>1, <3>2, <3>3
  <2> QED BY <2>2, <2>3 DEF due, total
<1>6. [s \in 1..n |-> Clip(R[s] - second, 0, open[s])]
        = [s \in 1..n |-> Clip(T[s] - (first + second), 0, r[s])]
  BY <1>5, Zenon
<1> QED BY <1>4, <1>6 DEF open

(***************************************************************************)
(* Below its range and above it, a clipped amount is the end of the range. *)
(***************************************************************************)
LEMMA ClipOutside ==
    ASSUME NEW x \in Int, NEW high \in Nat
    PROVE  /\ x <= 0 => Clip(x, 0, high) = 0
           /\ x >= high => Clip(x, 0, high) = high
           /\ Clip(x, 0, high) > 0 => x > 0
BY DEF Clip

(***************************************************************************)
(* Where something is still owed, everything later is untouched.           *)
(***************************************************************************)
LEMMA OldestFirstTail ==
    ASSUME NEW n \in Nat, NEW r \in [1..n -> Nat], NEW amount \in Nat,
           NEW s \in 1..n, NEW t \in 1..n, s < t, OldestFirst(r, amount, n)[s] > 0
    PROVE  OldestFirst(r, amount, n)[t] = r[t]
<1> DEFINE T == RunningTotal(r, n)
<1>1. /\ T \in [0..n -> Nat] /\ \A k \in 1..n : T[k] = T[k - 1] + r[k]
      /\ \A i, j \in 0..n : i <= j => T[i] <= T[j]
  <2>1. r \in [1..n -> Int]
    OBVIOUS
  <2> QED BY <2>1, RunningTotalMonotone, RunningTotalDef
<1>2. \A k \in 1..n : OldestFirst(r, amount, n)[k] = Clip(T[k] - amount, 0, r[k])
  BY DEF OldestFirst
<1> HIDE DEF T
<1>3. /\ T[s] \in Nat /\ T[t - 1] \in Nat /\ r[t] \in Nat /\ r[s] \in Nat
      /\ T[s] <= T[t - 1] /\ T[t] = T[t - 1] + r[t]
  <2>1. s \in 0..n /\ t - 1 \in 0..n /\ s <= t - 1
    OBVIOUS
  <2> QED BY <1>1, <2>1
<1>4. Clip(T[s] - amount, 0, r[s]) > 0 /\ T[s] - amount \in Int
  BY <1>2, <1>3
<1>5. T[s] - amount > 0
  BY <1>3, <1>4, ClipOutside
<1>6. T[t] - amount >= r[t] /\ T[t] - amount \in Int
  BY <1>3, <1>5
<1>7. Clip(T[t] - amount, 0, r[t]) = r[t]
  BY <1>3, <1>6, ClipOutside
<1> QED BY <1>2, <1>7

(***************************************************************************)
(* The more is paid, the less is owed, slot by slot.                       *)
(***************************************************************************)
LEMMA OldestFirstOrder ==
    ASSUME NEW n \in Nat, NEW r \in [1..n -> Nat],
           NEW less \in Nat, NEW more \in Nat, less <= more, NEW s \in 1..n
    PROVE  OldestFirst(r, more, n)[s] <= OldestFirst(r, less, n)[s]
<1> DEFINE T == RunningTotal(r, n)
<1>1. T \in [0..n -> Nat]
  BY RunningTotalMonotone
<1>2. /\ OldestFirst(r, more, n)[s] = Clip(T[s] - more, 0, r[s])
      /\ OldestFirst(r, less, n)[s] = Clip(T[s] - less, 0, r[s])
  BY DEF OldestFirst
<1> HIDE DEF T
<1>3. T[s] \in Nat /\ r[s] \in Nat
  BY <1>1
<1> QED BY <1>2, <1>3 DEF Clip

-----------------------------------------------------------------------------
(***************************************************************************)
(* Slots and installments.                                                 *)
(***************************************************************************)
LEMMA SlotsOfInstallments ==
    ASSUME NEW c \in Contract
    PROVE  /\ Term[c] \in Nat \ {0} /\ NumSlots(c) \in Nat
           /\ \A k \in Installments(c) :
                {3 * k - 2, 3 * k - 1, 3 * k} \subseteq Slots(c)
           /\ \A s \in Slots(c) :
                /\ InstallmentOf(s) \in Installments(c)
                /\ s \in {3 * InstallmentOf(s) - 2, 3 * InstallmentOf(s) - 1, 3 * InstallmentOf(s)}
<1>1. Term[c] \in Nat \ {0}
  BY ContractsAssumption
<1>2. NumSlots(c) \in Nat
  BY <1>1 DEF NumSlots
<1>3. \A k \in Installments(c) : {3 * k - 2, 3 * k - 1, 3 * k} \subseteq Slots(c)
  BY <1>1 DEF NumSlots, Slots, Installments
<1>4. ASSUME NEW s \in Slots(c)
      PROVE  /\ InstallmentOf(s) \in Installments(c)
             /\ s \in {3 * InstallmentOf(s) - 2, 3 * InstallmentOf(s) - 1, 3 * InstallmentOf(s)}
  BY <1>1 DEF NumSlots, Slots, Installments, InstallmentOf
<1> QED BY <1>1, <1>2, <1>3, <1>4

LEMMA InstallmentOfItsSlots ==
    ASSUME NEW k \in Nat \ {0}
    PROVE  InstallmentOf(3 * k - 2) = k /\ InstallmentOf(3 * k - 1) = k /\ InstallmentOf(3 * k) = k
BY DEF InstallmentOf

(***************************************************************************)
(* An installment of non-negative slots owes nothing exactly when each of  *)
(* its slots owes nothing.                                                 *)
(***************************************************************************)
LEMMA RemainingTotalOfSlots ==
    ASSUME NEW c \in Contract, NEW r \in [Slots(c) -> Nat], NEW k \in Installments(c)
    PROVE  /\ RemainingTotal(r, k) \in Nat
           /\ RemainingTotal(r, k) = 0 <=> \A s \in Slots(c) : InstallmentOf(s) = k => r[s] = 0
<1>1. k \in Nat \ {0} /\ {3 * k - 2, 3 * k - 1, 3 * k} \subseteq Slots(c)
  BY SlotsOfInstallments DEF Installments
<1>2. r[3 * k - 2] \in Nat /\ r[3 * k - 1] \in Nat /\ r[3 * k] \in Nat
  BY <1>1
<1>3. \A s \in Slots(c) : InstallmentOf(s) = k => s \in {3 * k - 2, 3 * k - 1, 3 * k}
  BY SlotsOfInstallments
<1>4. RemainingTotal(r, k) \in Nat
  BY <1>2 DEF RemainingTotal
<1>5. RemainingTotal(r, k) = 0 => \A s \in Slots(c) : InstallmentOf(s) = k => r[s] = 0
  <2>1. RemainingTotal(r, k) = 0 => r[3 * k - 2] = 0 /\ r[3 * k - 1] = 0 /\ r[3 * k] = 0
    <3> DEFINE fee == r[3 * k - 2]
               interest == r[3 * k - 1]
               principal == r[3 * k]
    <3>1. RemainingTotal(r, k) = fee + interest + principal
      BY DEF RemainingTotal
    <3>2. fee \in Nat /\ interest \in Nat /\ principal \in Nat
      BY <1>2
    <3> HIDE DEF fee, interest, principal
    <3>3. fee + interest + principal = 0 => fee = 0 /\ interest = 0 /\ principal = 0
      BY <3>2
    <3> QED BY <3>1, <3>3 DEF fee, interest, principal
  <2>2. ASSUME NEW s \in Slots(c), InstallmentOf(s) = k, RemainingTotal(r, k) = 0
        PROVE  r[s] = 0
    <3>1. s = 3 * k - 2 \/ s = 3 * k - 1 \/ s = 3 * k
      BY <1>3, <2>2
    <3> QED BY <2>1, <2>2, <3>1
  <2> QED BY <2>2
<1>6. (\A s \in Slots(c) : InstallmentOf(s) = k => r[s] = 0) => RemainingTotal(r, k) = 0
  <2>1. SUFFICES ASSUME \A s \in Slots(c) : InstallmentOf(s) = k => r[s] = 0
                 PROVE  RemainingTotal(r, k) = 0
    OBVIOUS
  <2>2. r[3 * k - 2] = 0 /\ r[3 * k - 1] = 0 /\ r[3 * k] = 0
    BY <1>1, <2>1, InstallmentOfItsSlots
  <2> QED BY <2>2 DEF RemainingTotal
<1> QED BY <1>4, <1>5, <1>6

-----------------------------------------------------------------------------
(***************************************************************************)
(* Sums over installments.                                                 *)
(***************************************************************************)
LEMMA SumOverBounded ==
    ASSUME NEW c \in Contract, NEW r \in [Slots(c) -> Nat], NEW K
    PROVE  SumOver(c, r, K) \in Nat /\ SumOver(c, r, K) <= Total(r, NumSlots(c))
<1> DEFINE n == NumSlots(c)
           q == [s \in 1..n |-> IF InstallmentOf(s) \in K THEN r[s] ELSE 0]
<1>1. n \in Nat /\ r \in [1..n -> Nat]
  BY SlotsOfInstallments DEF Slots
<1>2. SumOver(c, r, K) = RunningTotal(q, n)[n]
  BY DEF SumOver, Total, Slots
<1>3. q \in [1..n -> Nat] /\ \A s \in 1..n : q[s] <= r[s]
  BY <1>1
<1> HIDE DEF q, n
<1>4. RunningTotal(q, n) \in [0..n -> Nat] /\ n \in 0..n
  BY <1>1, <1>3, RunningTotalMonotone
<1>5. RunningTotal(q, n)[n] <= RunningTotal(r, n)[n]
  BY <1>1, <1>3, <1>4, RunningTotalOrder
<1> QED BY <1>2, <1>4, <1>5 DEF Total, n

LEMMA SumOverEverythingOpen ==
    ASSUME NEW c \in Contract, NEW r \in [Slots(c) -> Nat], NEW K,
           \A s \in Slots(c) : InstallmentOf(s) \notin K => r[s] = 0
    PROVE  SumOver(c, r, K) = Total(r, NumSlots(c))
<1>1. [s \in Slots(c) |-> IF InstallmentOf(s) \in K THEN r[s] ELSE 0] = r
  OBVIOUS
<1> QED BY <1>1 DEF SumOver

(***************************************************************************)
(* The total owed by the schedule and by what is left of it.               *)
(***************************************************************************)
LEMMA ScheduledTotalIsNat ==
    ASSUME NEW c \in Contract
    PROVE  /\ Schedule[c] \in [1..NumSlots(c) -> Nat] /\ NumSlots(c) \in Nat
           /\ ScheduledTotal(c) \in Nat
<1>1. Schedule[c] \in [1..NumSlots(c) -> Nat] /\ NumSlots(c) \in Nat
  BY SlotsOfInstallments, ContractsAssumption DEF Slots
<1>2. RunningTotal(Schedule[c], NumSlots(c)) \in [0..NumSlots(c) -> Nat]
  BY <1>1, RunningTotalMonotone
<1>3. NumSlots(c) \in 0..NumSlots(c)
  BY <1>1
<1> QED BY <1>1, <1>2, <1>3 DEF ScheduledTotal, Total

LEMMA TotalLeft ==
    ASSUME NEW c \in Contract, NEW p \in Nat, p <= ScheduledTotal(c)
    PROVE  Total(OldestFirst(Schedule[c], p, NumSlots(c)), NumSlots(c)) = ScheduledTotal(c) - p
<1>1. Schedule[c] \in [1..NumSlots(c) -> Nat] /\ NumSlots(c) \in Nat /\ ScheduledTotal(c) \in Nat
  BY ScheduledTotalIsNat
<1>2. RunningTotal(OldestFirst(Schedule[c], p, NumSlots(c)), NumSlots(c))[NumSlots(c)]
        = AtLeastZero(RunningTotal(Schedule[c], NumSlots(c))[NumSlots(c)] - p)
  BY <1>1, OldestFirstTotal
<1>3. AtLeastZero(ScheduledTotal(c) - p) = ScheduledTotal(c) - p
  BY <1>1 DEF AtLeastZero
<1> QED BY <1>2, <1>3 DEF Total, ScheduledTotal

-----------------------------------------------------------------------------
(***************************************************************************)
(* The head pointer stops at the first installment that is still open.     *)
(***************************************************************************)
LEMMA AdvancedHeadStops ==
    ASSUME NEW c \in Contract, NEW r \in [Slots(c) -> Nat], NEW h \in 0..Term[c]
    PROVE  LET j == AdvancedHead(c, r, h)
           IN  /\ j \in h..Term[c]
               /\ \A k \in h + 1 .. j : RemainingTotal(r, k) = 0
               /\ j < Term[c] => RemainingTotal(r, j + 1) > 0
<1> DEFINE Stops == {j \in h..Term[c] : j = Term[c] \/ RemainingTotal(r, j + 1) > 0}
           Is(j) == /\ \A k \in h + 1 .. j : RemainingTotal(r, k) <= 0
                    /\ j < Term[c] => RemainingTotal(r, j + 1) > 0
<1>1. Term[c] \in Nat \ {0}
  BY SlotsOfInstallments
<1>2. \A k \in 1..Term[c] : RemainingTotal(r, k) \in Nat
  BY RemainingTotalOfSlots DEF Installments
<1>3. Stops \in SUBSET Nat /\ Term[c] \in Stops
  BY <1>1
<1>4. PICK j \in Stops : \A i \in Stops : j <= i
  <2> HIDE DEF Stops
  <2> QED BY <1>3, LeastElement
<1>5. \A k \in h + 1 .. j : RemainingTotal(r, k) <= 0
  <2> SUFFICES ASSUME NEW k \in h + 1 .. j PROVE RemainingTotal(r, k) <= 0
    OBVIOUS
  <2>1. k - 1 \in h..Term[c] /\ k - 1 # Term[c] /\ k - 1 < j /\ k \in 1..Term[c]
    BY <1>1, <1>4
  <2>2. ~(RemainingTotal(r, (k - 1) + 1) > 0)
    BY <1>4, <2>1
  <2>3. (k - 1) + 1 = k
    BY <2>1
  <2>4. ~(RemainingTotal(r, k) > 0)
    BY <2>2, <2>3
  <2> QED BY <1>2, <2>1, <2>4
<1>6. j \in h..Term[c] /\ Is(j)
  BY <1>4, <1>5
<1>7. /\ AdvancedHead(c, r, h) \in h..Term[c]
      /\ Is(AdvancedHead(c, r, h))
  <2>1. AdvancedHead(c, r, h) = CHOOSE i \in h..Term[c] : Is(i)
    BY DEF AdvancedHead
  <2> HIDE DEF Is
  <2> QED BY <1>6, <2>1
<1>8. \A k \in h + 1 .. AdvancedHead(c, r, h) : RemainingTotal(r, k) = 0
  BY <1>1, <1>2, <1>7
<1> QED BY <1>7, <1>8

(***************************************************************************)
(* Where an installment of a row left by oldest-first payment owes         *)
(* something, every later one owes all of its schedule.                    *)
(***************************************************************************)
LEMMA OpenInstallmentsAreAtTheEnd ==
    ASSUME NEW c \in Contract, NEW p \in Nat,
           NEW j \in Installments(c), NEW k \in Installments(c), j < k,
           RemainingTotal(OldestFirst(Schedule[c], p, NumSlots(c)), j) > 0
    PROVE  RemainingTotal(OldestFirst(Schedule[c], p, NumSlots(c)), k) > 0
<1> DEFINE r == OldestFirst(Schedule[c], p, NumSlots(c))
<1>1. Schedule[c] \in [1..NumSlots(c) -> Nat] /\ NumSlots(c) \in Nat
  BY ScheduledTotalIsNat
<1>2. r \in [Slots(c) -> Nat]
  BY <1>1, OldestFirstTyped DEF Slots
<1>3. PICK s \in Slots(c) : InstallmentOf(s) = j /\ r[s] # 0
  <2> HIDE DEF r
  <2>1. RemainingTotal(r, j) # 0
    BY DEF r
  <2> QED BY <1>2, <2>1, RemainingTotalOfSlots
<1>4. r[s] > 0
  <2> HIDE DEF r
  <2> QED BY <1>2, <1>3
<1>5. ASSUME NEW t \in Slots(c), InstallmentOf(t) = k PROVE r[t] = Schedule[c][t]
  <2>1. s \in 1..NumSlots(c) /\ t \in 1..NumSlots(c) /\ s < t
    BY <1>3, <1>5, SlotsOfInstallments DEF Slots, InstallmentOf
  <2> QED BY <1>1, <1>4, <2>1, OldestFirstTail
<1>6. /\ {3 * k - 2, 3 * k - 1, 3 * k} \subseteq Slots(c)
      /\ InstallmentOf(3 * k - 2) = k /\ InstallmentOf(3 * k - 1) = k /\ InstallmentOf(3 * k) = k
  <2>1. k \in Nat \ {0}
    BY DEF Installments
  <2> HIDE DEF r
  <2>2. {3 * k - 2, 3 * k - 1, 3 * k} \subseteq Slots(c)
    BY SlotsOfInstallments
  <2> QED BY <2>1, <2>2, InstallmentOfItsSlots
<1>7. RemainingTotal(r, k) = RemainingTotal(Schedule[c], k)
  <2> HIDE DEF r
  <2>1. /\ r[3 * k - 2] = Schedule[c][3 * k - 2]
        /\ r[3 * k - 1] = Schedule[c][3 * k - 1]
        /\ r[3 * k] = Schedule[c][3 * k]
    BY <1>5, <1>6
  <2> QED BY <2>1 DEF RemainingTotal
<1>8. RemainingTotal(Schedule[c], k) > 0
  BY ContractsAssumption
<1> QED BY <1>7, <1>8

-----------------------------------------------------------------------------
(***************************************************************************)
(* The inductive invariant.  FollowsWaterfall makes what is left of each   *)
(* schedule a function of cumulative_paid; HeadPointerExact lets decisions *)
(* and allocations, which only look at the installments from the head on,  *)
(* be read as if they looked at all of them; and no row is ever dated      *)
(* after the month it is booked in, so nothing is carried to the next.     *)
(***************************************************************************)
LedgerInv ==
    /\ TypeOK
    /\ FollowsWaterfall
    /\ HeadPointerExact
    /\ carried = [c \in Contract |-> Zeroes(c)]

(***************************************************************************)
(* What a contract owes under the invariant.                               *)
(***************************************************************************)
LEMMA OwedUnderInv ==
    ASSUME LedgerInv, NEW c \in Contract
    PROVE  /\ paid[c] \in 0..ScheduledTotal(c)
           /\ rem[c] \in [Slots(c) -> Nat]
           /\ rem[c] = OldestFirst(Schedule[c], paid[c], NumSlots(c))
           /\ Total(rem[c], NumSlots(c)) = ScheduledTotal(c) - paid[c]
           /\ head[c] \in 0..Term[c]
           /\ \A s \in Slots(c) : InstallmentOf(s) <= head[c] => rem[c][s] = 0
<1>1. /\ paid[c] \in Nat /\ paid[c] <= ScheduledTotal(c) /\ ScheduledTotal(c) \in Nat
      /\ rem[c] \in [Slots(c) -> Nat] /\ head[c] \in Nat /\ head[c] <= Term[c]
      /\ rem[c] = OldestFirst(Schedule[c], paid[c], NumSlots(c))
      /\ Term[c] \in Nat
  BY ScheduledTotalIsNat, SlotsOfInstallments DEF LedgerInv, TypeOK, FollowsWaterfall
<1>2. Total(rem[c], NumSlots(c)) = ScheduledTotal(c) - paid[c]
  BY <1>1, TotalLeft
<1>3. ASSUME NEW s \in Slots(c), InstallmentOf(s) <= head[c] PROVE rem[c][s] = 0
  <2>1. InstallmentOf(s) \in Installments(c)
    BY SlotsOfInstallments
  <2>2. RemainingTotal(rem[c], InstallmentOf(s)) = 0
    BY <1>3, <2>1 DEF LedgerInv, HeadPointerExact
  <2> QED BY <1>1, <2>1, <2>2, RemainingTotalOfSlots
<1> QED BY <1>1, <1>2, <1>3

(***************************************************************************)
(* No draw decides on more than the contract owes.                         *)
(***************************************************************************)
LEMMA DecisionBounded ==
    ASSUME LedgerInv, NEW c \in Contract, NEW d \in Decisions(c)
    PROVE  d.amount \in 0..(ScheduledTotal(c) - paid[c])
<1>1. \A K : SumOver(c, rem[c], K) \in 0..(ScheduledTotal(c) - paid[c])
  <2> SUFFICES ASSUME NEW K PROVE SumOver(c, rem[c], K) \in 0..(ScheduledTotal(c) - paid[c])
    OBVIOUS
  <2>1. SumOver(c, rem[c], K) \in Nat /\ SumOver(c, rem[c], K) <= Total(rem[c], NumSlots(c))
    BY OwedUnderInv, SumOverBounded
  <2> QED BY <2>1, OwedUnderInv, ScheduledTotalIsNat
<1>2. 0 \in 0..(ScheduledTotal(c) - paid[c])
  BY OwedUnderInv, ScheduledTotalIsNat
<1>3. CASE Payable(c) = {}
  BY <1>2, <1>3 DEF Decisions, Pays
<1>4. CASE Payable(c) # {} /\ HasBacklog(c)
  BY <1>1, <1>2, <1>4 DEF Decisions, BacklogDecisions, Pays
<1>5. CASE Payable(c) # {} /\ ~HasBacklog(c)
  <2> DEFINE due == SumOver(c, rem[c], Payable(c))
             open == SumOver(c, rem[c], Active(c, head[c]))
  <2>1. /\ due \in 0..(ScheduledTotal(c) - paid[c])
        /\ open \in 0..(ScheduledTotal(c) - paid[c])
    BY <1>1
  <2>2. d \in {Pays(due, "scheduled"), Pays(0, "scheduled"), Pays(open, "prepayment")}
             \cup {Pays(Least(p, open), "partial") : p \in PartialAmounts(due)}
    BY <1>5 DEF Decisions, CurrentDecisions
  <2>3. ScheduledTotal(c) - paid[c] \in Nat
    BY OwedUnderInv, ScheduledTotalIsNat
  <2> HIDE DEF due, open
  <2>4. ASSUME NEW p \in PartialAmounts(due)
        PROVE  Least(p, open) \in 0..(ScheduledTotal(c) - paid[c])
    <3>1. p \in Int /\ p >= (3 * due + 5) \div 10 /\ due \in Nat
      BY <2>1, <2>3 DEF PartialAmounts
    <3>2. p \in Nat
      BY <3>1
    <3> QED BY <2>1, <2>3, <3>2 DEF Least
  <2> QED BY <1>2, <2>1, <2>2, <2>4 DEF Pays
<1> QED BY <1>3, <1>4, <1>5

(***************************************************************************)
(* Booking a payment, and undoing it or not, moves cumulative_paid and the *)
(* remaining amounts together.                                             *)
(***************************************************************************)
LEMMA BookedPayment ==
    ASSUME LedgerInv, NEW c \in Contract, NEW amount \in 0..(ScheduledTotal(c) - paid[c]),
           NEW undone \in BOOLEAN
    PROVE  LET given == Allocation(c, amount)
           IN  /\ given \in [Slots(c) -> Nat]
               /\ PaidAfter(c, amount, undone) \in paid[c]..ScheduledTotal(c)
               /\ RemAfter(c, given, undone)
                    = OldestFirst(Schedule[c], PaidAfter(c, amount, undone), NumSlots(c))
<1> DEFINE n == NumSlots(c)
           given == Allocation(c, amount)
<1>1. /\ n \in Nat /\ Schedule[c] \in [1..n -> Nat]
      /\ paid[c] \in Nat /\ ScheduledTotal(c) \in Nat /\ paid[c] <= ScheduledTotal(c)
      /\ amount \in Nat /\ amount <= ScheduledTotal(c) - paid[c]
      /\ rem[c] \in [1..n -> Nat] /\ rem[c] = OldestFirst(Schedule[c], paid[c], n)
  BY OwedUnderInv, ScheduledTotalIsNat DEF Slots
<1>2. given = Allocate(amount, rem[c], n)
  <2>1. \A s \in Slots(c) : (IF InstallmentOf(s) > head[c] THEN rem[c][s] ELSE 0) = rem[c][s]
    <3> SUFFICES ASSUME NEW s \in Slots(c), ~(InstallmentOf(s) > head[c])
                 PROVE  rem[c][s] = 0
      OBVIOUS
    <3>1. InstallmentOf(s) \in Int /\ head[c] \in Int
      BY SlotsOfInstallments, OwedUnderInv DEF Installments
    <3>2. InstallmentOf(s) <= head[c]
      BY <3>1
    <3> QED BY <3>2, OwedUnderInv
  <2>2. [s \in Slots(c) |-> IF InstallmentOf(s) > head[c] THEN rem[c][s] ELSE 0] = rem[c]
    BY <1>1, <2>1 DEF Slots
  <2> QED BY <2>2 DEF Allocation
<1>3. given \in [1..n -> Nat]
  <2> HIDE DEF given
  <2> QED BY <1>1, <1>2, AllocateBounded
<1>4. PaidAfter(c, amount, undone) = IF undone THEN paid[c] ELSE paid[c] + amount
  BY <1>1 DEF PaidAfter
<1>5. RemAfter(c, given, FALSE) = OldestFirst(Schedule[c], paid[c] + amount, n)
  <2> HIDE DEF n
  <2>1. \A s \in 1..n : rem[c][s] - Allocate(amount, rem[c], n)[s]
                          = OldestFirst(rem[c], amount, n)[s]
    BY <1>1, AllocatePaysOldestFirst
  <2>2. OldestFirst(rem[c], amount, n) \in [1..n -> Nat]
    BY <1>1, OldestFirstTyped
  <2>3. OldestFirst(OldestFirst(Schedule[c], paid[c], n), amount, n)
          = OldestFirst(Schedule[c], paid[c] + amount, n)
    BY <1>1, OldestFirstTwice, Zenon
  <2>4. OldestFirst(rem[c], amount, n) = OldestFirst(Schedule[c], paid[c] + amount, n)
    BY <1>1, <2>3, Zenon
  <2> HIDE DEF given
  <2>5. RemAfter(c, given, FALSE) = [s \in 1..n |-> rem[c][s] - given[s]]
    BY DEF RemAfter, Slots, n
  <2> QED BY <1>2, <2>1, <2>2, <2>4, <2>5
<1>6. RemAfter(c, given, TRUE) = rem[c]
  <2> HIDE DEF given
  <2>1. \A s \in Slots(c) : (rem[c][s] - given[s]) + given[s] = rem[c][s]
    <3> SUFFICES ASSUME NEW s \in Slots(c)
                 PROVE (rem[c][s] - given[s]) + given[s] = rem[c][s]
      OBVIOUS
    <3>1. rem[c][s] \in Int /\ given[s] \in Int
      BY <1>1, <1>3 DEF Slots
    <3> QED BY <3>1
  <2>2. RemAfter(c, given, TRUE) = [s \in Slots(c) |-> (rem[c][s] - given[s]) + given[s]]
    BY DEF RemAfter
  <2>3. rem[c] = [s \in Slots(c) |-> rem[c][s]]
    BY <1>1 DEF Slots
  <2> QED BY <2>1, <2>2, <2>3
<1>7. PaidAfter(c, amount, undone) \in paid[c]..ScheduledTotal(c)
  BY <1>1, <1>4
<1>8. RemAfter(c, given, undone) = OldestFirst(Schedule[c], PaidAfter(c, amount, undone), n)
  <2> HIDE DEF given, n
  <2>1. CASE undone
    BY <1>1, <1>4, <1>6, <2>1
  <2>2. CASE ~undone
    BY <1>4, <1>5, <2>2
  <2> QED BY <2>1, <2>2
<1>9. given \in [Slots(c) -> Nat]
  BY <1>3 DEF Slots
<1> QED BY <1>7, <1>8, <1>9

-----------------------------------------------------------------------------
(***************************************************************************)
(* The invariant holds initially, and TypeOK and the rest of it are kept   *)
(* by every action.                                                        *)
(***************************************************************************)
LEMMA LedgerInvInit == Init => LedgerInv
<1> SUFFICES ASSUME Init PROVE LedgerInv
  OBVIOUS
<1>1. \A c \in Contract : /\ Schedule[c] \in [Slots(c) -> Nat]
                          /\ ScheduledTotal(c) \in Nat /\ Term[c] \in Nat
                          /\ OldestFirst(Schedule[c], 0, NumSlots(c)) = Schedule[c]
  BY ScheduledTotalIsNat, SlotsOfInstallments, OldestFirstOfNothing DEF Slots
<1>2. TypeOK
  BY <1>1, SizesAssumption DEF Init, TypeOK, NoRecovery, Zeroes
<1>3. FollowsWaterfall
  BY <1>1 DEF Init, FollowsWaterfall
<1>4. HeadPointerExact
  <2> SUFFICES ASSUME NEW c \in Contract, NEW k \in Installments(c)
               PROVE  ~(k <= 0) /\ ~(RemainingTotal(Schedule[c], k) = 0)
    BY DEF Init, HeadPointerExact
  <2>1. RemainingTotal(Schedule[c], k) > 0
    BY ContractsAssumption
  <2> QED BY <2>1 DEF Installments
<1>5. carried = [c \in Contract |-> Zeroes(c)]
  BY DEF Init
<1> QED BY <1>2, <1>3, <1>4, <1>5 DEF LedgerInv

(***************************************************************************)
(* One visit of the inner loop, seen through the invariant: cumulative_paid*)
(* moves to some p, and everything else about the schedule follows from p. *)
(***************************************************************************)
Visit(c, p, r, h) ==
    /\ p \in paid[c]..ScheduledTotal(c)
    /\ r = OldestFirst(Schedule[c], p, NumSlots(c))
    /\ h = AdvancedHead(c, r, head[c])
    /\ rem' = [rem EXCEPT ![c] = r]
    /\ head' = [head EXCEPT ![c] = h]
    /\ paid' = [paid EXCEPT ![c] = p]

Outcome(c, lost, st, plan) ==
    /\ lost \in Nat /\ st \in {"active", "delinquent", "settled", "charged_off"}
    /\ plan \in [target : 0..Horizon + MaxRecoveryMonths, amount : Nat]
    /\ status' = [status EXCEPT ![c] = st]
    /\ writeOff' = [writeOff EXCEPT ![c] = lost]
    /\ terminal' = [terminal EXCEPT ![c] = IF IsTerminal(st) THEN month ELSE 0]
    /\ scheduled' = [scheduled EXCEPT ![c] = plan]

LEMMA PlansTyped ==
    ASSUME NEW m \in 1..Horizon, month = m, NEW lost \in Nat, NEW plan \in RecoveryPlans(lost)
    PROVE  plan \in [target : 0..Horizon + MaxRecoveryMonths, amount : Nat]
<1>1. NoRecovery \in [target : 0..Horizon + MaxRecoveryMonths, amount : Nat]
  BY SizesAssumption DEF NoRecovery
<1>2. ASSUME NEW offset \in 1..MaxRecoveryMonths, NEW a \in RecoveryAmounts(lost)
      PROVE  month + offset \in 0..Horizon + MaxRecoveryMonths /\ a \in Nat
  <2>1. month + offset \in 0..Horizon + MaxRecoveryMonths
    BY SizesAssumption
  <2>2. RecoveryMin * lost \in Nat
    BY SizesAssumption
  <2> DEFINE least == RecoveryMin * lost
  <2>3. a \in Int /\ a >= (least + 50) \div 100
    BY SizesAssumption DEF RecoveryAmounts
  <2>4. (least + 50) \div 100 >= 0
    <3> HIDE DEF least
    <3>1. least \in Nat
      BY <2>2 DEF least
    <3> QED BY <3>1
  <2>5. (least + 50) \div 100 \in Int
    <3> HIDE DEF least
    <3>1. least \in Nat
      BY <2>2 DEF least
    <3> QED BY <3>1
  <2> HIDE DEF least
  <2> QED BY <2>1, <2>3, <2>4, <2>5
<1> QED BY <1>1, <1>2 DEF RecoveryPlans

LEMMA VisitOfProcessContract ==
    ASSUME LedgerInv, NEW c \in Contract, ProcessContract(c)
    PROVE  /\ \E p, r, h : Visit(c, p, r, h)
           /\ \E lost, st, plan : Outcome(c, lost, st, plan)
           /\ \E gain \in [Slots(c) -> Nat] :
                 allocated' = [allocated EXCEPT ![c] = [s \in Slots(c) |-> @[s] + gain[s]]]
           /\ carried' = carried
           /\ month \in 1..Horizon /\ turn = c /\ turn' = turn + 1 /\ month' = month
<1>1. month \in 1..Horizon /\ turn = c /\ turn' = turn + 1 /\ month' = month
  BY SizesAssumption DEF ProcessContract, LedgerInv, TypeOK
<1>2. PICK d \in Decisions(c), day \in 1..MonthLength, drawn \in BOOLEAN :
        LET undone == d.amount > 0 /\ drawn /\ ReversalAllowed(day + 1)
        IN  \E given \in {Allocation(c, d.amount)} :
            \E r \in {RemAfter(c, given, undone)}, h \in {HeadAfter(c, given, undone)} :
               /\ CloseMonth(c, d, r, h, undone)
               /\ PostRows(c, given, undone, day)
  BY DEF ProcessContract
<1> DEFINE undone == d.amount > 0 /\ drawn /\ ReversalAllowed(day + 1)
           given == Allocation(c, d.amount)
           r == RemAfter(c, given, undone)
           h == HeadAfter(c, given, undone)
           p == PaidAfter(c, d.amount, undone)
<1>3. CloseMonth(c, d, r, h, undone) /\ PostRows(c, given, undone, day)
  BY <1>2
<1>4. undone \in BOOLEAN /\ (undone => InPaymentMonth(day + 1))
  BY DEF ReversalAllowed
<1>5. /\ given \in [Slots(c) -> Nat] /\ p \in paid[c]..ScheduledTotal(c)
      /\ r = OldestFirst(Schedule[c], p, NumSlots(c))
  <2>1. d.amount \in 0..(ScheduledTotal(c) - paid[c])
    BY DecisionBounded
  <2> HIDE DEF undone
  <2>2. undone \in BOOLEAN
    BY <1>4
  <2> QED BY <2>1, <2>2, BookedPayment
<1> HIDE DEF undone, given
<1>6. h = AdvancedHead(c, r, head[c])
  BY DEF HeadAfter
<1> HIDE DEF r, h, p
<1>7. Visit(c, p, r, h)
  BY <1>3, <1>5, <1>6 DEF CloseMonth, Visit, p
<1>8. \E lost, st, plan : Outcome(c, lost, st, plan)
  <2> DEFINE dpd == DaysPastDue(c, r, Active(c, h))
             open == SumOver(c, r, Active(c, h))
             st == Classify(open, dpd)
             lost == IF st = "charged_off" THEN open ELSE writeOff[c]
  <2>1. r \in [Slots(c) -> Nat]
    <3>1. p \in Nat
      BY <1>5, OwedUnderInv, ScheduledTotalIsNat
    <3> QED BY <1>5, <3>1, ScheduledTotalIsNat, OldestFirstTyped DEF Slots
  <2>2. open \in Nat
    BY <2>1, SumOverBounded
  <2>3. writeOff[c] \in Nat
    BY DEF LedgerInv, TypeOK
  <2> HIDE DEF open, dpd
  <2>4. st \in {"active", "delinquent", "settled", "charged_off"}
    BY DEF Classify
  <2> HIDE DEF st
  <2>5. lost \in Nat
    BY <2>2, <2>3
  <2>6. PICK plan \in IF st = "charged_off" THEN RecoveryPlans(lost) ELSE {NoRecovery} :
          scheduled' = [scheduled EXCEPT ![c] = plan]
    BY <1>3 DEF CloseMonth, st, open, dpd
  <2>7. /\ status' = [status EXCEPT ![c] = st]
        /\ writeOff' = [writeOff EXCEPT ![c] = lost]
        /\ terminal' = [terminal EXCEPT ![c] = IF IsTerminal(st) THEN month ELSE 0]
    BY <1>3 DEF CloseMonth, st, open, dpd
  <2> HIDE DEF lost
  <2>8. plan \in [target : 0..Horizon + MaxRecoveryMonths, amount : Nat]
    <3>1. CASE st = "charged_off"
      BY <1>1, <2>5, <2>6, <3>1, PlansTyped
    <3>2. CASE st # "charged_off"
      <4>1. plan = NoRecovery
        BY <2>6, <3>2
      <4> QED BY <4>1, SizesAssumption DEF NoRecovery
    <3> QED BY <3>1, <3>2
  <2>9. Outcome(c, lost, st, plan)
    BY <2>4, <2>5, <2>6, <2>7, <2>8 DEF Outcome
  <2> QED BY <2>9
<1>9. /\ \E gain \in [Slots(c) -> Nat] :
            allocated' = [allocated EXCEPT ![c] = [s \in Slots(c) |-> @[s] + gain[s]]]
      /\ carried' = carried
  <2> DEFINE same == InPaymentMonth(day + 1)
             gain == [s \in Slots(c) |-> IF undone THEN 0 ELSE given[s]]
  <2>1. /\ allocated' = [allocated EXCEPT ![c] =
              [s \in Slots(c) |-> @[s] + given[s] - (IF undone /\ same THEN given[s] ELSE 0)]]
        /\ carried' = [carried EXCEPT ![c] =
              [s \in Slots(c) |-> @[s] - (IF undone /\ ~same THEN given[s] ELSE 0)]]
    BY <1>3 DEF PostRows
  <2> HIDE DEF same
  <2>2. undone => same
    BY <1>4 DEF same
  <2>3. /\ DOMAIN allocated = Contract /\ DOMAIN carried = Contract
        /\ allocated[c] \in [Slots(c) -> Nat] /\ carried[c] = Zeroes(c)
    BY DEF LedgerInv, TypeOK
  <2>4. gain \in [Slots(c) -> Nat]
    BY <1>5
  <2>5. \A s \in Slots(c) :
          allocated[c][s] + given[s] - (IF undone /\ same THEN given[s] ELSE 0)
            = allocated[c][s] + gain[s]
    BY <1>5, <2>2, <2>3
  <2>6. allocated' = [allocated EXCEPT ![c] = [s \in Slots(c) |-> @[s] + gain[s]]]
    <3> HIDE DEF gain
    <3> QED BY <2>1, <2>3, <2>5
  <2>7. [s \in Slots(c) |-> carried[c][s] - (IF undone /\ ~same THEN given[s] ELSE 0)] = carried[c]
    BY <2>2, <2>3 DEF Zeroes
  <2>8. carried' = carried
    <3>1. carried' = [carried EXCEPT ![c] = carried[c]]
      BY <2>1, <2>3, <2>7
    <3>2. carried = [x \in Contract |-> Zeroes(x)]
      BY DEF LedgerInv
    <3> QED BY <3>1, <3>2
  <2> QED BY <2>4, <2>6, <2>8
<1> QED BY <1>1, <1>7, <1>8, <1>9

(***************************************************************************)
(* A visit keeps the waterfall and the head pointer exact.                 *)
(***************************************************************************)
LEMMA VisitKeepsWaterfall ==
    ASSUME LedgerInv, NEW c \in Contract, NEW p, NEW r, NEW h, Visit(c, p, r, h)
    PROVE  /\ FollowsWaterfall' /\ HeadPointerExact'
           /\ p \in Nat /\ r \in [Slots(c) -> Nat] /\ h \in 0..Term[c]
<1>1. p \in Nat /\ p <= ScheduledTotal(c) /\ paid[c] \in Nat /\ paid[c] <= p
  BY OwedUnderInv, ScheduledTotalIsNat DEF Visit
<1>2. /\ NumSlots(c) \in Nat /\ Schedule[c] \in [1..NumSlots(c) -> Nat]
      /\ Term[c] \in Nat \ {0} /\ head[c] \in 0..Term[c]
      /\ rem[c] = OldestFirst(Schedule[c], paid[c], NumSlots(c))
      /\ rem[c] \in [Slots(c) -> Nat]
  BY OwedUnderInv, ScheduledTotalIsNat, SlotsOfInstallments
<1>3. r = OldestFirst(Schedule[c], p, NumSlots(c)) /\ r \in [Slots(c) -> Nat]
  BY <1>1, <1>2, OldestFirstTyped DEF Visit, Slots
<1>4. /\ h \in head[c]..Term[c]
      /\ \A k \in head[c] + 1 .. h : RemainingTotal(r, k) = 0
      /\ h < Term[c] => RemainingTotal(r, h + 1) > 0
  BY <1>2, <1>3, AdvancedHeadStops DEF Visit
<1>5. /\ DOMAIN rem = Contract /\ DOMAIN head = Contract /\ DOMAIN paid = Contract
      /\ rem' = [rem EXCEPT ![c] = r] /\ head' = [head EXCEPT ![c] = h]
      /\ paid' = [paid EXCEPT ![c] = p]
  BY DEF Visit, LedgerInv, TypeOK
<1>6. FollowsWaterfall'
  BY <1>1, <1>3, <1>5 DEF FollowsWaterfall, LedgerInv
<1>7. ASSUME NEW k \in Installments(c) PROVE k <= h <=> RemainingTotal(r, k) = 0
  <2>1. k \in 1..Term[c] /\ RemainingTotal(r, k) \in Nat
    BY <1>3, RemainingTotalOfSlots DEF Installments
  <2>2. CASE k <= head[c]
    <3>1. ASSUME NEW s \in Slots(c), InstallmentOf(s) = k PROVE r[s] = 0
      <4>1. rem[c][s] = 0
        BY <2>2, <3>1, OwedUnderInv
      <4>2. OldestFirst(Schedule[c], p, NumSlots(c))[s]
              <= OldestFirst(Schedule[c], paid[c], NumSlots(c))[s]
        BY <1>1, <1>2, OldestFirstOrder DEF Slots
      <4>3. r[s] <= rem[c][s] /\ r[s] \in Nat
        BY <1>2, <1>3, <4>2
      <4> QED BY <4>1, <4>3
    <3>2. RemainingTotal(r, k) = 0
      BY <1>3, <3>1, RemainingTotalOfSlots
    <3> QED BY <1>2, <1>4, <2>1, <2>2, <3>2
  <2>3. CASE k > head[c] /\ k <= h
    BY <1>2, <1>4, <2>1, <2>3
  <2>4. CASE k = h + 1
    BY <1>2, <1>4, <2>1, <2>4
  <2>5. CASE k > h + 1
    <3>1. h + 1 \in Installments(c) /\ h + 1 < k
      BY <1>2, <1>4, <2>1, <2>5 DEF Installments
    <3>2. RemainingTotal(r, h + 1) > 0
      BY <1>2, <1>4, <2>1, <2>5
    <3>3. RemainingTotal(r, k) > 0
      <4> DEFINE j == h + 1
      <4> HIDE DEF j
      <4>1. j \in Installments(c) /\ j < k /\ RemainingTotal(r, j) > 0
        BY <3>1, <3>2 DEF j
      <4> QED BY <1>1, <1>3, <4>1, OpenInstallmentsAreAtTheEnd
    <3> QED BY <1>2, <1>4, <2>1, <2>5, <3>3
  <2> QED BY <1>2, <1>4, <2>1, <2>2, <2>3, <2>4, <2>5
<1>8. HeadPointerExact'
  BY <1>5, <1>7 DEF HeadPointerExact, LedgerInv
<1> QED BY <1>1, <1>2, <1>3, <1>4, <1>6, <1>8

LEMMA LedgerInvProcess ==
    ASSUME LedgerInv, NEW c \in Contract, ProcessContract(c)
    PROVE  LedgerInv'
<1>1. PICK p, r, h : Visit(c, p, r, h)
  BY VisitOfProcessContract
<1>2. PICK lost, st, plan : Outcome(c, lost, st, plan)
  BY VisitOfProcessContract
<1>3. PICK gain \in [Slots(c) -> Nat] :
        allocated' = [allocated EXCEPT ![c] = [s \in Slots(c) |-> @[s] + gain[s]]]
  BY VisitOfProcessContract
<1>4. /\ carried' = carried /\ month \in 1..Horizon /\ turn = c
      /\ turn' = turn + 1 /\ month' = month
  BY VisitOfProcessContract
<1>5. /\ FollowsWaterfall' /\ HeadPointerExact'
      /\ p \in Nat /\ r \in [Slots(c) -> Nat] /\ h \in 0..Term[c]
  BY <1>1, VisitKeepsWaterfall
<1>6. TypeOK'
  <2>1. month' \in 1..Horizon + 1 /\ turn' \in 0..NumContracts + 1
    BY <1>4, SizesAssumption DEF Contract
  <2>2. head' \in [Contract -> Nat] /\ paid' \in [Contract -> Nat]
    BY <1>1, <1>5 DEF Visit, LedgerInv, TypeOK
  <2>3. /\ status' \in [Contract -> {"active", "delinquent", "settled", "charged_off"}]
        /\ writeOff' \in [Contract -> Nat]
        /\ scheduled' \in [Contract -> [target : 0..Horizon + MaxRecoveryMonths, amount : Nat]]
    BY <1>2 DEF Outcome, LedgerInv, TypeOK
  <2>4. terminal' \in [Contract -> 0..Horizon]
    <3>1. (IF IsTerminal(st) THEN month ELSE 0) \in 0..Horizon
      BY <1>4, SizesAssumption
    <3> QED BY <1>2, <3>1 DEF Outcome, LedgerInv, TypeOK
  <2>5. DOMAIN rem' = Contract /\ DOMAIN allocated' = Contract /\ DOMAIN carried' = Contract
    BY <1>1, <1>3, <1>4 DEF Visit, LedgerInv, TypeOK
  <2>6. ASSUME NEW x \in Contract
        PROVE  /\ head'[x] <= Term[x] /\ rem'[x] \in [Slots(x) -> Nat]
               /\ allocated'[x] \in [Slots(x) -> Nat] /\ carried'[x] \in [Slots(x) -> Int]
    <3>1. /\ head[x] <= Term[x] /\ rem[x] \in [Slots(x) -> Nat]
          /\ allocated[x] \in [Slots(x) -> Nat] /\ carried[x] \in [Slots(x) -> Int]
      BY DEF LedgerInv, TypeOK
    <3>2. head'[x] = (IF x = c THEN h ELSE head[x]) /\ rem'[x] = (IF x = c THEN r ELSE rem[x])
      BY <1>1 DEF Visit, LedgerInv, TypeOK
    <3>3. head'[x] <= Term[x] /\ rem'[x] \in [Slots(x) -> Nat]
      BY <1>5, <3>1, <3>2
    <3>4. allocated'[x] \in [Slots(x) -> Nat]
      <4>1. allocated'[x] = IF x = c THEN [s \in Slots(c) |-> allocated[c][s] + gain[s]]
                            ELSE allocated[x]
        BY <1>3 DEF LedgerInv, TypeOK
      <4> QED BY <3>1, <4>1
    <3> QED BY <1>4, <3>1, <3>3, <3>4
  <2> QED BY <2>1, <2>2, <2>3, <2>4, <2>5, <2>6 DEF TypeOK
<1> QED BY <1>4, <1>5, <1>6 DEF LedgerInv

LEMMA LedgerInvEmit ==
    ASSUME LedgerInv, EmitRecoveries
    PROVE  LedgerInv'
<1>1. /\ month' = month + 1 /\ month \in 1..Horizon /\ turn' = 1
      /\ UNCHANGED <<rem, head, status, paid, writeOff, terminal>>
  BY SizesAssumption DEF EmitRecoveries, LedgerInv, TypeOK
<1>2. /\ carried' = [c \in Contract |-> Zeroes(c)]
      /\ \A c \in Contract : allocated'[c] \in [Slots(c) -> Nat]
      /\ DOMAIN allocated' = Contract
  BY DEF EmitRecoveries, LedgerInv, TypeOK, Zeroes
<1>3. scheduled' \in [Contract -> [target : 0..Horizon + MaxRecoveryMonths, amount : Nat]]
  BY SizesAssumption DEF EmitRecoveries, LedgerInv, TypeOK, NoRecovery
<1>4. TypeOK'
  BY <1>1, <1>2, <1>3, SizesAssumption DEF LedgerInv, TypeOK, Zeroes
<1>5. FollowsWaterfall' /\ HeadPointerExact'
  BY <1>1 DEF LedgerInv, FollowsWaterfall, HeadPointerExact
<1> QED BY <1>2, <1>4, <1>5 DEF LedgerInv

LEMMA LedgerInvStep == LedgerInv /\ [Next]_vars => LedgerInv'
<1> SUFFICES ASSUME LedgerInv, [Next]_vars PROVE LedgerInv'
  OBVIOUS
<1>1. ASSUME NEW c \in Contract, PassOver(c) PROVE LedgerInv'
  <2>1. turn' \in 0..NumContracts + 1
    BY <1>1, SizesAssumption DEF PassOver, Contract
  <2> QED BY <1>1, <2>1 DEF PassOver, LedgerInv, TypeOK, FollowsWaterfall, HeadPointerExact
<1>2. ASSUME NEW c \in Contract, ProcessContract(c) PROVE LedgerInv'
  BY <1>2, LedgerInvProcess
<1>3. CASE EmitRecoveries
  BY <1>3, LedgerInvEmit
<1>4. CASE Finalise
  <2>1. turn' \in 0..NumContracts + 1
    BY <1>4, SizesAssumption DEF Finalise
  <2> QED BY <1>4, <2>1 DEF Finalise, LedgerInv, TypeOK, FollowsWaterfall, HeadPointerExact
<1>5. CASE UNCHANGED vars
  BY <1>5 DEF vars, LedgerInv, TypeOK, FollowsWaterfall, HeadPointerExact
<1> QED BY <1>1, <1>2, <1>3, <1>4, <1>5 DEF Next

(***************************************************************************)
(* The ledger keeps its invariant (payments.py, the whole month loop).     *)
(***************************************************************************)
THEOREM LedgerInvariant == Spec => []LedgerInv
<1>1. Init => LedgerInv
  BY LedgerInvInit
<1>2. LedgerInv /\ [Next]_vars => LedgerInv'
  BY LedgerInvStep
<1> QED BY <1>1, <1>2, PTL DEF Spec

(***************************************************************************)
(* Every variable keeps its type; in particular no amount written by the   *)
(* generator is negative.                                                  *)
(***************************************************************************)
THEOREM TypesCorrect == Spec => []TypeOK
<1>1. LedgerInv => TypeOK
  BY DEF LedgerInv
<1> QED BY <1>1, LedgerInvariant, PTL

(***************************************************************************)
(* After any history of partial payments, cures, prepayments and           *)
(* reversals, each contract's remaining amounts are its schedule with the  *)
(* oldest cumulative_paid of it consumed in waterfall order.               *)
(***************************************************************************)
THEOREM WaterfallFollowed == Spec => []FollowsWaterfall
<1>1. LedgerInv => FollowsWaterfall
  BY DEF LedgerInv
<1> QED BY <1>1, LedgerInvariant, PTL

(***************************************************************************)
(* head_index splits the installments into those paid for good and those   *)
(* open: the shortcut the generator takes when it only looks at the slice  *)
(* from the head on never hides an open installment.                       *)
(***************************************************************************)
THEOREM HeadPointerCorrect == Spec => []HeadPointerExact
<1>1. LedgerInv => HeadPointerExact
  BY DEF LedgerInv
<1> QED BY <1>1, LedgerInvariant, PTL

-----------------------------------------------------------------------------
(***************************************************************************)
(* What the ledger publishes: its snapshots, write-offs, recoveries, dated *)
(* allocations and final statuses, and the loan book they implement.       *)
(***************************************************************************)

-----------------------------------------------------------------------------
(***************************************************************************)
(* Totals.                                                                 *)
(***************************************************************************)
LEMMA TotalOfZeroes ==
    ASSUME NEW n \in Nat, NEW r \in [1..n -> Int], \A k \in 1..n : r[k] = 0
    PROVE  Total(r, n) = 0
<1> DEFINE T == RunningTotal(r, n)
           Good == {k \in 0..n : T[k] = 0}
<1>1. T[0] = 0 /\ \A k \in 1..n : T[k] = T[k - 1] + r[k]
  BY RunningTotalDef
<1> HIDE DEF T
<1>2. 0 \in Good
  BY <1>1
<1>3. ASSUME NEW k \in 0..n, k \in Good, k + 1 <= n PROVE k + 1 \in Good
  <2>1. k + 1 \in 1..n /\ (k + 1) - 1 = k
    BY <1>3
  <2>2. T[k + 1] = T[k] + r[k + 1]
    BY <1>1, <2>1
  <2> QED BY <1>3, <2>1, <2>2
<1> HIDE DEF Good
<1>4. \A k \in 0..n : k \in Good
  BY <1>2, <1>3, UpToInduction
<1> QED BY <1>4 DEF Good, Total, T

LEMMA TotalOfDifference ==
    ASSUME NEW n \in Nat, NEW a \in [1..n -> Int], NEW b \in [1..n -> Int]
    PROVE  /\ Total([k \in 1..n |-> a[k] - b[k]], n) = Total(a, n) - Total(b, n)
           /\ Total(a, n) \in Int /\ Total(b, n) \in Int
<1> DEFINE d == [k \in 1..n |-> a[k] - b[k]]
           A == RunningTotal(a, n)
           B == RunningTotal(b, n)
           D == RunningTotal(d, n)
           Good == {k \in 0..n : D[k] = A[k] - B[k]}
<1>1. /\ A \in [0..n -> Int] /\ A[0] = 0 /\ \A k \in 1..n : A[k] = A[k - 1] + a[k]
      /\ B \in [0..n -> Int] /\ B[0] = 0 /\ \A k \in 1..n : B[k] = B[k - 1] + b[k]
  BY RunningTotalDef
<1>2. /\ D \in [0..n -> Int] /\ D[0] = 0 /\ \A k \in 1..n : D[k] = D[k - 1] + d[k]
  <2>1. d \in [1..n -> Int]
    OBVIOUS
  <2> HIDE DEF d
  <2> QED BY <2>1, RunningTotalDef
<1>3. \A k \in 1..n : d[k] = a[k] - b[k]
  OBVIOUS
<1> HIDE DEF A, B, D, d
<1>4. 0 \in Good
  BY <1>1, <1>2
<1>5. ASSUME NEW k \in 0..n, k \in Good, k + 1 <= n PROVE k + 1 \in Good
  <2>1. k + 1 \in 1..n /\ (k + 1) - 1 = k
    BY <1>5
  <2>2. /\ D[k + 1] = D[k] + d[k + 1] /\ A[k + 1] = A[k] + a[k + 1]
        /\ B[k + 1] = B[k] + b[k + 1] /\ d[k + 1] = a[k + 1] - b[k + 1]
    BY <1>1, <1>2, <1>3, <2>1
  <2>3. A[k] \in Int /\ B[k] \in Int /\ a[k + 1] \in Int /\ b[k + 1] \in Int
    BY <1>1, <2>1
  <2> QED BY <1>5, <2>1, <2>2, <2>3
<1> HIDE DEF Good
<1>6. \A k \in 0..n : k \in Good
  BY <1>4, <1>5, UpToInduction
<1>7. n \in 0..n
  OBVIOUS
<1> QED BY <1>1, <1>6, <1>7 DEF Good, Total, A, B, D, d

(***************************************************************************)
(* The total of the slots, taken three at a time: RunningTotal at the end  *)
(* of each installment.                                                    *)
(***************************************************************************)
LEMMA RunningTotalOfInstallment ==
    ASSUME NEW c \in Contract, NEW r \in [Slots(c) -> Int], NEW k \in Installments(c)
    PROVE  /\ 3 * k \in 0..NumSlots(c) /\ 3 * (k - 1) \in 0..NumSlots(c)
           /\ RunningTotal(r, NumSlots(c))[3 * k]
                = RunningTotal(r, NumSlots(c))[3 * (k - 1)] + RemainingTotal(r, k)
           /\ RemainingTotal(r, k) \in Int
<1> DEFINE n == NumSlots(c)
           T == RunningTotal(r, n)
<1>1. n \in Nat /\ r \in [1..n -> Int] /\ k \in Nat \ {0} /\ n = 3 * Term[c] /\ Term[c] \in Nat /\ k <= Term[c]
  <2>1. Term[c] \in Nat /\ n \in Nat /\ r \in [1..n -> Int]
    BY SlotsOfInstallments DEF Slots
  <2> QED BY <2>1 DEF Installments, NumSlots
<1>2. T \in [0..n -> Int] /\ \A s \in 1..n : T[s] = T[s - 1] + r[s]
  BY <1>1, RunningTotalDef
<1> HIDE DEF T, n
<1>3. /\ 3 * k \in 1..n /\ 3 * k - 1 \in 1..n /\ 3 * k - 2 \in 1..n /\ 3 * (k - 1) \in 0..n
      /\ (3 * k - 1) - 1 = 3 * k - 2 /\ (3 * k - 2) - 1 = 3 * (k - 1)
  BY <1>1
<1>4. /\ T[3 * k] = T[3 * k - 1] + r[3 * k]
      /\ T[3 * k - 1] = T[3 * k - 2] + r[3 * k - 1]
      /\ T[3 * k - 2] = T[3 * (k - 1)] + r[3 * k - 2]
  BY <1>2, <1>3
<1>5. r[3 * k] \in Int /\ r[3 * k - 1] \in Int /\ r[3 * k - 2] \in Int /\ T[3 * (k - 1)] \in Int
  BY <1>1, <1>2, <1>3
<1>6. T[3 * k] = T[3 * (k - 1)] + RemainingTotal(r, k) /\ RemainingTotal(r, k) \in Int
  <2> DEFINE x == r[3 * k - 2]
             y == r[3 * k - 1]
             z == r[3 * k]
             t == T[3 * (k - 1)]
  <2>1. T[3 * k] = ((t + x) + y) + z /\ RemainingTotal(r, k) = x + y + z
    BY <1>4 DEF RemainingTotal
  <2>2. x \in Int /\ y \in Int /\ z \in Int /\ t \in Int
    BY <1>5
  <2> HIDE DEF x, y, z, t
  <2>3. ((t + x) + y) + z = t + (x + y + z) /\ x + y + z \in Int
    BY <2>2
  <2> QED BY <2>1, <2>3 DEF t
<1> QED BY <1>1, <1>3, <1>6 DEF T, n

LEMMA TotalByInstallment ==
    ASSUME NEW c \in Contract, NEW r \in [Slots(c) -> Int]
    PROVE  Total([k \in Installments(c) |-> RemainingTotal(r, k)], Term[c])
             = Total(r, NumSlots(c))
<1> DEFINE m == Term[c]
           q == [k \in Installments(c) |-> RemainingTotal(r, k)]
           Q == RunningTotal(q, m)
           T == RunningTotal(r, NumSlots(c))
           Good == {k \in 0..m : Q[k] = T[3 * k]}
<1>1. m \in Nat /\ Installments(c) = 1..m /\ NumSlots(c) \in Nat /\ NumSlots(c) = 3 * m
  BY SlotsOfInstallments DEF Installments, NumSlots
<1>2. \A k \in 1..m : T[3 * k] = T[3 * (k - 1)] + q[k] /\ q[k] \in Int
  BY <1>1, RunningTotalOfInstallment
<1>3. T[0] = 0
  <2>1. r \in [1..NumSlots(c) -> Int]
    BY DEF Slots
  <2> QED BY <1>1, <2>1, RunningTotalDef
<1>4. Q[0] = 0 /\ \A k \in 1..m : Q[k] = Q[k - 1] + q[k]
  <2>1. q \in [1..m -> Int]
    BY <1>1, <1>2
  <2> HIDE DEF q, m
  <2> QED BY <1>1, <2>1, RunningTotalDef
<1> HIDE DEF Q, T, q, m
<1>5. 0 \in Good
  BY <1>1, <1>3, <1>4
<1>6. ASSUME NEW k \in 0..m, k \in Good, k + 1 <= m PROVE k + 1 \in Good
  <2>1. k + 1 \in 1..m /\ (k + 1) - 1 = k
    BY <1>1, <1>6
  <2>2. T[3 * (k + 1)] = T[3 * k] + q[k + 1] /\ Q[k + 1] = Q[k] + q[k + 1]
    BY <1>2, <1>4, <2>1
  <2> QED BY <1>6, <2>1, <2>2
<1> HIDE DEF Good
<1>7. \A k \in 0..m : k \in Good
  BY <1>1, <1>5, <1>6, UpToInduction
<1>8. Q[m] = T[3 * m]
  BY <1>1, <1>7 DEF Good
<1> QED BY <1>1, <1>8 DEF Total, Q, T, q, m

(***************************************************************************)
(* No installment owes more than its contract, and a contract that owes    *)
(* something has an installment that does.                                 *)
(***************************************************************************)
LEMMA InstallmentWithinTotal ==
    ASSUME NEW c \in Contract, NEW r \in [Slots(c) -> Nat]
    PROVE  /\ Total(r, NumSlots(c)) \in Nat
           /\ \A k \in Installments(c) : RemainingTotal(r, k) <= Total(r, NumSlots(c))
           /\ (\A k \in Installments(c) : RemainingTotal(r, k) = 0) => Total(r, NumSlots(c)) = 0
<1> DEFINE n == NumSlots(c)
           T == RunningTotal(r, n)
<1>1. n \in Nat /\ r \in [1..n -> Nat] /\ r \in [Slots(c) -> Int]
  BY SlotsOfInstallments DEF Slots
<1>2. T \in [0..n -> Nat] /\ \A i, j \in 0..n : i <= j => T[i] <= T[j]
  <2> HIDE DEF n
  <2> QED BY <1>1, RunningTotalMonotone
<1>3. ASSUME NEW k \in Installments(c) PROVE RemainingTotal(r, k) <= T[n]
  <2>1. /\ 3 * k \in 0..n /\ 3 * (k - 1) \in 0..n /\ RemainingTotal(r, k) \in Int
        /\ T[3 * k] = T[3 * (k - 1)] + RemainingTotal(r, k)
    BY <1>1, RunningTotalOfInstallment
  <2> HIDE DEF T, n
  <2>2. T[3 * k] \in Nat /\ T[3 * (k - 1)] \in Nat /\ T[3 * k] <= T[n] /\ T[n] \in Nat
    BY <1>1, <1>2, <2>1
  <2> QED BY <2>1, <2>2
<1>4. ASSUME \A k \in Installments(c) : RemainingTotal(r, k) = 0 PROVE Total(r, n) = 0
  <2>1. ASSUME NEW s \in Slots(c) PROVE r[s] = 0
    BY <1>4, SlotsOfInstallments, RemainingTotalOfSlots
  <2>2. r \in [1..n -> Int] /\ \A s \in 1..n : r[s] = 0
    BY <1>1, <2>1 DEF Slots
  <2> HIDE DEF n
  <2> QED BY <1>1, <2>2, TotalOfZeroes
<1>5. Total(r, n) \in Nat
  BY <1>1, <1>2 DEF Total
<1> QED BY <1>3, <1>4, <1>5 DEF Total

(***************************************************************************)
(* What the first j installments owe is the running total at the end of    *)
(* installment j.                                                          *)
(***************************************************************************)
LEMMA SumOverFirst ==
    ASSUME NEW c \in Contract, NEW r \in [Slots(c) -> Nat], NEW j \in 0..Term[c], NEW K,
           \A s \in Slots(c) : InstallmentOf(s) \in K /\ r[s] # 0 <=> InstallmentOf(s) <= j /\ r[s] # 0
    PROVE  /\ 3 * j \in 0..NumSlots(c)
           /\ SumOver(c, r, K) = RunningTotal(r, NumSlots(c))[3 * j]
<1> DEFINE n == NumSlots(c)
           q == [s \in 1..n |-> IF InstallmentOf(s) \in K THEN r[s] ELSE 0]
           Q == RunningTotal(q, n)
           T == RunningTotal(r, n)
           Good == {i \in 0..n : Q[i] = IF i <= 3 * j THEN T[i] ELSE T[3 * j]}
<1>1. n \in Nat /\ r \in [1..n -> Nat] /\ j \in Nat /\ 3 * j <= n
  <2>1. n \in Nat /\ r \in [1..n -> Nat] /\ Term[c] \in Nat
    BY SlotsOfInstallments DEF Slots
  <2> QED BY <2>1 DEF NumSlots
<1>2. ASSUME NEW s \in 1..n PROVE q[s] = IF s <= 3 * j THEN r[s] ELSE 0
  <2>1. s \in Slots(c) /\ s \in Int /\ r[s] \in Nat
    BY <1>1 DEF Slots
  <2>2. InstallmentOf(s) <= j <=> s <= 3 * j
    BY <1>1, <2>1 DEF InstallmentOf
  <2> QED BY <2>1, <2>2
<1>3. T \in [0..n -> Nat] /\ T[0] = 0 /\ \A s \in 1..n : T[s] = T[s - 1] + r[s]
  <2>1. r \in [1..n -> Int]
    BY <1>1
  <2> HIDE DEF n
  <2> QED BY <1>1, <2>1, RunningTotalDef, RunningTotalMonotone
<1>4. Q \in [0..n -> Int] /\ Q[0] = 0 /\ \A s \in 1..n : Q[s] = Q[s - 1] + q[s]
  <2>1. q \in [1..n -> Int]
    BY <1>1
  <2> HIDE DEF n, q
  <2> QED BY <1>1, <2>1, RunningTotalDef
<1>5. SumOver(c, r, K) = Q[n]
  BY DEF SumOver, Total, Slots
<1> HIDE DEF Q, T, q, n
<1>6. 0 \in Good
  BY <1>1, <1>3, <1>4
<1>7. ASSUME NEW i \in 0..n, i \in Good, i + 1 <= n PROVE i + 1 \in Good
  <2>1. i + 1 \in 1..n /\ (i + 1) - 1 = i /\ i \in Nat /\ i + 1 \in 0..n
    BY <1>1, <1>7
  <2>2. Q[i + 1] = Q[i] + q[i + 1] /\ T[i + 1] = T[i] + r[i + 1] /\ Q[i] \in Int
    BY <1>3, <1>4, <2>1
  <2>3. q[i + 1] = IF i + 1 <= 3 * j THEN r[i + 1] ELSE 0
    BY <1>2, <2>1
  <2>4. CASE i + 1 <= 3 * j
    BY <1>1, <1>7, <2>1, <2>2, <2>3, <2>4
  <2>5. CASE i = 3 * j
    BY <1>1, <1>7, <2>1, <2>2, <2>3, <2>5
  <2>6. CASE i > 3 * j
    BY <1>1, <1>7, <2>1, <2>2, <2>3, <2>6
  <2> QED BY <1>1, <2>1, <2>4, <2>5, <2>6
<1> HIDE DEF Good
<1>8. \A i \in 0..n : i \in Good
  BY <1>1, <1>6, <1>7, UpToInduction
<1>9. Q[n] = T[3 * j]
  BY <1>1, <1>8 DEF Good
<1> QED BY <1>1, <1>5, <1>9 DEF T, n

(***************************************************************************)
(* Paying that much from the oldest slot on pays the first j installments  *)
(* off and leaves the others as they were.                                 *)
(***************************************************************************)
LEMMA PayingTheFirst ==
    ASSUME NEW n \in Nat, NEW r \in [1..n -> Nat], NEW i \in 0..n, NEW s \in 1..n
    PROVE  OldestFirst(r, RunningTotal(r, n)[i], n)[s] = IF s <= i THEN 0 ELSE r[s]
<1> DEFINE T == RunningTotal(r, n)
<1>1. /\ T \in [0..n -> Nat] /\ \A k \in 1..n : T[k] = T[k - 1] + r[k]
      /\ \A k, l \in 0..n : k <= l => T[k] <= T[l]
  <2>1. r \in [1..n -> Int]
    OBVIOUS
  <2> QED BY <2>1, RunningTotalDef, RunningTotalMonotone
<1>2. OldestFirst(r, T[i], n)[s] = Clip(T[s] - T[i], 0, r[s])
  BY DEF OldestFirst
<1> HIDE DEF T
<1>3. T[s] \in Nat /\ T[i] \in Nat /\ T[s - 1] \in Nat /\ T[s] = T[s - 1] + r[s] /\ r[s] \in Nat
  BY <1>1
<1>4. CASE s <= i
  <2>1. T[s] <= T[i]
    BY <1>1, <1>4
  <2>2. T[s] - T[i] \in Int /\ T[s] - T[i] <= 0
    BY <1>3, <2>1
  <2>3. Clip(T[s] - T[i], 0, r[s]) = 0
    BY <1>3, <2>2, ClipOutside
  <2> QED BY <1>2, <1>4, <2>3 DEF T
<1>5. CASE ~(s <= i)
  <2>1. T[i] <= T[s - 1]
    BY <1>1, <1>5
  <2>2. T[s] - T[i] \in Int /\ T[s] - T[i] >= r[s]
    BY <1>3, <2>1
  <2>3. Clip(T[s] - T[i], 0, r[s]) = r[s]
    BY <1>3, <2>2, ClipOutside
  <2> QED BY <1>2, <1>5, <2>3 DEF T
<1> QED BY <1>4, <1>5

-----------------------------------------------------------------------------
(***************************************************************************)
(* Days past due.                                                          *)
(***************************************************************************)
\* The installments of c that r leaves open at the end of month m, though they
\* fell due before, and how late the latest of them is.
LateIn(c, r, m) ==
    {k \in Installments(c) : RemainingTotal(r, k) > 0 /\ DueDate[c][k] < MonthEnd(m)}
DpdIn(c, r, m) == Max({0} \cup {MonthEnd(m) - DueDate[c][k] : k \in LateIn(c, r, m)})

LEMMA GreatestElement ==
    ASSUME NEW S \in SUBSET Nat, 0 \in S, NEW bound \in Nat, \A x \in S : x <= bound
    PROVE  Max(S) \in S /\ \A x \in S : x <= Max(S)
<1> DEFINE Gaps == {g \in Nat : bound - g \in S}
<1>1. Gaps \in SUBSET Nat /\ bound \in Gaps
  OBVIOUS
<1>2. PICK g \in Gaps : \A i \in Gaps : g <= i
  <2> HIDE DEF Gaps
  <2> QED BY <1>1, LeastElement
<1>3. bound - g \in S /\ g \in Nat
  BY <1>2
<1>4. ASSUME NEW x \in S PROVE x <= bound - g
  <2>1. x \in Nat /\ x <= bound
    OBVIOUS
  <2>2. bound - x \in Nat /\ bound - (bound - x) = x
    BY <2>1
  <2>3. bound - x \in Gaps
    BY <2>2
  <2>4. g <= bound - x
    BY <1>2, <2>3
  <2> QED BY <1>3, <2>1, <2>4
<1>5. \E y \in S : \A x \in S : y >= x
  BY <1>3, <1>4
<1>6. Max(S) = CHOOSE y \in S : \A x \in S : y >= x
  BY DEF Max
<1>7. Max(S) \in S /\ \A x \in S : Max(S) >= x
  BY <1>5, <1>6
<1> QED BY <1>7

LEMMA GreatestOfOne == ASSUME NEW a \in Int PROVE Max({a}) = a
<1>1. Max({a}) = CHOOSE y \in {a} : \A x \in {a} : y >= x
  BY DEF Max
<1>2. \E y \in {a} : \A x \in {a} : y >= x
  OBVIOUS
<1> QED BY <1>1, <1>2

LEMMA MonthEndGrows ==
    ASSUME NEW a \in Nat, NEW b \in Nat
    PROVE  /\ MonthEnd(a) \in Nat
           /\ a <= b => MonthEnd(a) <= MonthEnd(b)
           /\ a < b => MonthEnd(a) < MonthEnd(b)
<1>1. MonthLength \in Nat /\ MonthLength > 0
  BY SizesAssumption
<1>2. a * MonthLength \in Nat /\ b * MonthLength \in Nat
  BY <1>1
<1>3. a <= b => a * MonthLength <= b * MonthLength
  <2>1. ASSUME a <= b PROVE b * MonthLength = a * MonthLength + (b - a) * MonthLength
                            /\ (b - a) * MonthLength \in Nat
    <3>1. b - a \in Nat /\ b = a + (b - a)
      BY <2>1
    <3> DEFINE g == b - a
    <3> HIDE DEF g
    <3>2. g \in Nat /\ b = a + g
      BY <3>1 DEF g
    <3>3. b * MonthLength = a * MonthLength + g * MonthLength /\ g * MonthLength \in Nat
      BY <1>1, <3>2
    <3> QED BY <3>3 DEF g
  <2> QED BY <1>2, <2>1
<1>4. a < b => a * MonthLength < b * MonthLength
  <2>1. ASSUME a < b PROVE b * MonthLength >= a * MonthLength + MonthLength
    <3>1. b - a - 1 \in Nat /\ b = a + 1 + (b - a - 1)
      BY <2>1
    <3> DEFINE g == b - a - 1
    <3> HIDE DEF g
    <3>2. g \in Nat /\ b = a + 1 + g
      BY <3>1 DEF g
    <3>3. b * MonthLength = a * MonthLength + MonthLength + g * MonthLength /\ g * MonthLength \in Nat
      BY <1>1, <3>2
    <3> QED BY <1>2, <1>1, <3>3
  <2> QED BY <1>1, <1>2, <2>1
<1> QED BY <1>2, <1>3, <1>4 DEF MonthEnd

(***************************************************************************)
(* A contract is past due exactly when one of its installments is late.    *)
(***************************************************************************)
LEMMA PastDueMeansLate ==
    ASSUME NEW c \in Contract, NEW r, NEW m \in Nat
    PROVE  /\ DpdIn(c, r, m) \in Nat
           /\ DpdIn(c, r, m) = 0 <=> LateIn(c, r, m) = {}
<1> DEFINE late == LateIn(c, r, m)
           S == {0} \cup {MonthEnd(m) - DueDate[c][k] : k \in late}
<1>1. MonthEnd(m) \in Nat
  BY MonthEndGrows
<1>2. ASSUME NEW k \in late
      PROVE MonthEnd(m) - DueDate[c][k] \in 1..MonthEnd(m)
  <2>1. DueDate[c][k] \in Nat /\ DueDate[c][k] < MonthEnd(m)
    BY ContractsAssumption DEF LateIn
  <2> QED BY <1>1, <2>1
<1> HIDE DEF late
<1>3. S \in SUBSET Nat /\ 0 \in S /\ \A x \in S : x <= MonthEnd(m)
  BY <1>1, <1>2
<1>4. DpdIn(c, r, m) = Max(S)
  BY DEF DpdIn, late
<1> HIDE DEF S
<1>5. Max(S) \in S /\ \A x \in S : x <= Max(S)
  BY <1>1, <1>3, GreatestElement
<1>6. late = {} => Max(S) = 0
  BY <1>5 DEF S
<1>7. ASSUME NEW k \in late PROVE Max(S) # 0
  <2>1. MonthEnd(m) - DueDate[c][k] \in S
    BY DEF S
  <2> QED BY <1>1, <1>2, <1>3, <1>5, <2>1
<1> QED BY <1>3, <1>4, <1>5, <1>6, <1>7 DEF late

(***************************************************************************)
(* The shortcut of the generator: looking only at the installments after   *)
(* the head finds the same lateness as looking at all of them.             *)
(***************************************************************************)
LEMMA LatenessFromTheHead ==
    ASSUME NEW c \in Contract, NEW r, NEW h \in Nat,
           \A k \in Installments(c) : k <= h => RemainingTotal(r, k) = 0
    PROVE  /\ DaysPastDue(c, r, Active(c, h)) = DpdIn(c, r, month)
           /\ DaysPastDue(c, r, Installments(c)) = DpdIn(c, r, month)
<1>1. {k \in Active(c, h) : RemainingTotal(r, k) > 0 /\ DueDate[c][k] < MonthEnd(month)}
        = LateIn(c, r, month)
  <2>1. Term[c] \in Nat
    BY SlotsOfInstallments
  <2>2. ASSUME NEW k \in Active(c, h) PROVE k \in Installments(c)
    BY <2>1 DEF Active, Installments
  <2>3. ASSUME NEW k \in Installments(c), RemainingTotal(r, k) > 0 PROVE k \in Active(c, h)
    <3>1. ~(k <= h)
      BY <2>3
    <3> QED BY <2>1, <3>1 DEF Active, Installments
  <2> QED BY <2>2, <2>3 DEF LateIn
<1> QED BY <1>1 DEF DaysPastDue, DpdIn, LateIn

-----------------------------------------------------------------------------
(***************************************************************************)
(* Sums of event amounts, and the recovery drawn for a write-off.          *)
(***************************************************************************)
LEMMA SumOverNone == MapThenSumSet(LAMBDA w : w.amount, {}) = 0
<1> DEFINE f == [s \in SUBSET {} |-> 0]
           It(i) == i = [s \in SUBSET {} |-> IF s = {} THEN 0
                    ELSE LET x == CHOOSE y \in s : TRUE IN x.amount + i[s \ {x}]]
<1>1. It(f)
  OBVIOUS
<1>2. MapThenSumSet(LAMBDA w : w.amount, {}) = (CHOOSE i : It(i))[{}]
  BY DEF MapThenSumSet, MapThenFoldSet
<1>3. It(CHOOSE i : It(i))
  <2> HIDE DEF It, f
  <2> QED BY <1>1
<1>4. \A i : It(i) => i[{}] = 0
  OBVIOUS
<1> HIDE DEF It
<1> QED BY <1>2, <1>3, <1>4

LEMMA SumOverOne ==
    ASSUME NEW w, w.amount \in Int
    PROVE  MapThenSumSet(LAMBDA x : x.amount, {w}) = w.amount
<1> DEFINE f == [s \in SUBSET {w} |-> IF s = {} THEN 0 ELSE w.amount]
           It(i) == i = [s \in SUBSET {w} |-> IF s = {} THEN 0
                    ELSE LET x == CHOOSE y \in s : TRUE IN x.amount + i[s \ {x}]]
<1>1. It(f)
  <2>1. ASSUME NEW s \in SUBSET {w}
        PROVE  f[s] = IF s = {} THEN 0
                      ELSE LET x == CHOOSE y \in s : TRUE IN x.amount + f[s \ {x}]
    <3>1. CASE s = {}
      BY <3>1
    <3>2. CASE s # {}
      <4>1. (CHOOSE y \in s : TRUE) = w
        BY <3>2
      <4>2. s \ {w} = {} /\ {} \in SUBSET {w}
        OBVIOUS
      <4>3. f[s \ {w}] = 0 /\ f[s] = w.amount
        BY <3>2, <4>2
      <4> HIDE DEF f
      <4>4. (LET x == CHOOSE y \in s : TRUE IN x.amount + f[s \ {x}]) = w.amount + f[s \ {w}]
        BY <4>1, Zenon
      <4> QED BY <3>2, <4>3, <4>4
    <3> QED BY <3>1, <3>2
  <2> QED BY <2>1
<1>2. MapThenSumSet(LAMBDA x : x.amount, {w}) = (CHOOSE i : It(i))[{w}]
  BY DEF MapThenSumSet, MapThenFoldSet
<1>3. It(CHOOSE i : It(i))
  <2> HIDE DEF It, f
  <2> QED BY <1>1
<1>4. \A i : It(i) => i[{w}] = w.amount
  <2> SUFFICES ASSUME NEW i, It(i) PROVE i[{w}] = w.amount
    OBVIOUS
  <2>1. i[{}] = 0
    OBVIOUS
  <2>2. (CHOOSE y \in {w} : TRUE) = w
    OBVIOUS
  <2>3. {w} \ {w} = {} /\ {w} # {} /\ {w} \in SUBSET {w}
    OBVIOUS
  <2>4. i[{w}] = w.amount + i[{}]
    BY <2>2, <2>3
  <2> HIDE DEF It
  <2> QED BY <2>1, <2>4
<1> HIDE DEF It
<1> QED BY <1>2, <1>3, <1>4

\* recovery_fraction_max is at most 1, so no draw recovers more than was lost,
\* although the amount is rounded half up.
LEMMA RecoveryWithinLoss ==
    ASSUME NEW lost \in Nat
    PROVE  RecoveryAmounts(lost) \subseteq 0..lost
<1> DEFINE most == RecoveryMax * lost
           least == RecoveryMin * lost
<1>1. RecoveryMax \in Nat /\ RecoveryMax <= 100 /\ RecoveryMin \in Nat
  BY SizesAssumption
<1>2. most \in Nat /\ most <= 100 * lost /\ least \in Nat
  <2>1. (100 - RecoveryMax) * lost \in Nat
    <3>1. 100 - RecoveryMax \in Nat
      BY <1>1
    <3> QED BY <3>1
  <2>2. (100 - RecoveryMax) * lost = 100 * lost - most
    BY <1>1
  <2>3. most \in Nat /\ least \in Nat
    BY <1>1
  <2> HIDE DEF most, least
  <2> QED BY <2>1, <2>2, <2>3
<1> HIDE DEF most, least
<1>3. (most + 50) \div 100 <= lost /\ (least + 50) \div 100 >= 0
      /\ (most + 50) \div 100 \in Int /\ (least + 50) \div 100 \in Int
  BY <1>2
<1>4. RecoveryAmounts(lost) = ((least + 50) \div 100)..((most + 50) \div 100)
  BY DEF RecoveryAmounts, most, least
<1> QED BY <1>3, <1>4

-----------------------------------------------------------------------------
(***************************************************************************)
(* The inductive invariant of what is published: every table is a function *)
(* of the contracts' state, as of the month it was written in.             *)
(***************************************************************************)
Owing(c) == ScheduledTotal(c) - paid[c]

\* A contract is terminal from the month it was classified so; it was disbursed
\* by then; and only a charge-off writes anything off, all that is owed.
StatusOfDebt ==
    \A c \in Contract :
        /\ terminal[c] # 0 <=> IsTerminal(status[c])
        /\ terminal[c] <= month
        /\ terminal[c] # 0 => Disbursed[c] <= MonthEnd(terminal[c])
        /\ writeOff[c] = IF status[c] = "charged_off" THEN Owing(c) ELSE 0

ChargedOff == {c \in Contract : status[c] = "charged_off"}

\* write_off_events holds one row for each charged-off contract, and no other.
WriteOffsOfState ==
    writeOffs = {[contract |-> c, month |-> terminal[c], amount |-> writeOff[c]] : c \in ChargedOff}

InTime(c, m) == m - terminal[c] \in 1..MaxRecoveryMonths

\* A recovery still to come belongs to a charged-off contract that has none yet.
ScheduledOfState ==
    \A c \in Contract : scheduled[c] # NoRecovery =>
        /\ c \in ChargedOff /\ InTime(c, scheduled[c].target)
        /\ scheduled[c].target >= month
        /\ scheduled[c].amount \in 0..writeOff[c]
        /\ \A x \in recoveries : x.contract # c

RecoveriesOfState ==
    /\ \A x \in recoveries :
          /\ x.contract \in ChargedOff
          /\ x.month \in 1..Horizon /\ InTime(x.contract, x.month)
          /\ x.amount \in 0..writeOff[x.contract]
    /\ \A x, y \in recoveries : x.contract = y.contract => x = y

\* A snapshot still describes its contract: nothing has touched it since.
RowOfState(c) ==
    /\ snap[c].paid = paid[c] /\ snap[c].writeOff = writeOff[c] /\ snap[c].status = status[c]
    /\ snap[c].balance = Owing(c) - writeOff[c]
    /\ snap[c].dpd = DpdIn(c, rem[c], snap[c].month)
    /\ status[c] = Classify(Owing(c), snap[c].dpd)
    /\ Disbursed[c] <= MonthEnd(snap[c].month)

\* A contract without a row is as it was at the start; one that is not terminal
\* has its row of this month once it was visited, of the last one until then.
RowIsCurrent(c) ==
    /\ snap[c].month \in 0..Horizon
    /\ snap[c].month = 0 => snap[c] = NoSnapshot /\ paid[c] = 0 /\ status[c] = "active"
    /\ snap[c].month > 0 /\ terminal[c] = 0 =>
          snap[c].month = IF c < turn THEN month ELSE month - 1

SnapshotsOfState ==
    \A c \in Contract : RowIsCurrent(c) /\ (snap[c].month > 0 => RowOfState(c))

\* The dated allocation rows add up to what the schedule no longer owes.
AllocatedOfState ==
    \A c \in Contract : \A s \in Slots(c) : allocated[c][s] = Schedule[c][s] - rem[c][s]

FinalOfState ==
    IF turn = 0
    THEN /\ month = Horizon + 1
         /\ final = [c \in Contract |-> [k \in Installments(c) |-> InstallmentStatus(c, k)]]
    ELSE final = [c \in Contract |-> <<>>]

\* Each contract has its place in the tables.
RowsInPlace == DOMAIN snap = Contract /\ DOMAIN events = Contract

BooksInv ==
    /\ LedgerInv
    /\ RowsInPlace
    /\ StatusOfDebt
    /\ WriteOffsOfState
    /\ ScheduledOfState
    /\ RecoveriesOfState
    /\ SnapshotsOfState
    /\ AllocatedOfState
    /\ FinalOfState

-----------------------------------------------------------------------------
(***************************************************************************)
(* One visit of the inner loop, seen through the invariant: cumulative_paid*)
(* moves to some p, and all that is written follows from p and the month.  *)
(***************************************************************************)
Left(c, p) == OldestFirst(Schedule[c], p, NumSlots(c))
DpdAfter(c, p) == DpdIn(c, Left(c, p), month)
StatusAfter(c, p) == Classify(ScheduledTotal(c) - p, DpdAfter(c, p))
LostAfter(c, p) ==
    IF StatusAfter(c, p) = "charged_off" THEN ScheduledTotal(c) - p ELSE 0
DueBefore(c, m) == {k \in Installments(c) : DueDate[c][k] < MonthEnd(m)}

WritesState(c, p) ==
    /\ rem' = [rem EXCEPT ![c] = Left(c, p)]
    /\ paid' = [paid EXCEPT ![c] = p]
    /\ status' = [status EXCEPT ![c] = StatusAfter(c, p)]
    /\ writeOff' = [writeOff EXCEPT ![c] = LostAfter(c, p)]
    /\ terminal' = [terminal EXCEPT ![c] = IF IsTerminal(StatusAfter(c, p)) THEN month ELSE 0]
    /\ \E plan \in IF StatusAfter(c, p) = "charged_off"
                   THEN RecoveryPlans(LostAfter(c, p)) ELSE {NoRecovery} :
          scheduled' = [scheduled EXCEPT ![c] = plan]

WritesRows(c, p) ==
    /\ writeOffs' = IF StatusAfter(c, p) = "charged_off"
                    THEN writeOffs \cup {[contract |-> c, month |-> month, amount |-> LostAfter(c, p)]}
                    ELSE writeOffs
    /\ \E due \in {0, SumOver(c, Left(c, p), DueBefore(c, month))} :
          snap' = [snap EXCEPT ![c] =
             [month |-> month, paid |-> p, writeOff |-> LostAfter(c, p),
              balance |-> (ScheduledTotal(c) - p) - LostAfter(c, p),
              pastDue |-> due,
              exposure |-> IF IsTerminal(StatusAfter(c, p)) THEN 0 ELSE ScheduledTotal(c) - p,
              dpd |-> DpdAfter(c, p), status |-> StatusAfter(c, p)]]
    /\ \E gain \in [Slots(c) -> Int] :
          /\ \A s \in Slots(c) : gain[s] = rem[c][s] - Left(c, p)[s]
          /\ allocated' = [allocated EXCEPT ![c] = [s \in Slots(c) |-> @[s] + gain[s]]]

\* A cure that stands pays what was overdue, and nothing else.
PaysWhatIsOverdue(c, p) ==
    events'[c].payment = "cure" /\ ~events'[c].reversed =>
        p = paid[c] + SumOver(c, rem[c], Overdue(c))

Closes(c, p) ==
    /\ p \in paid[c]..ScheduledTotal(c)
    /\ WritesState(c, p)
    /\ WritesRows(c, p)
    /\ PaysWhatIsOverdue(c, p)

LEMMA VisitCloses ==
    ASSUME LedgerInv, RowsInPlace, StatusOfDebt, NEW c \in Contract, ProcessContract(c)
    PROVE  /\ month \in 1..Horizon /\ turn = c /\ turn' = turn + 1 /\ month' = month
           /\ terminal[c] = 0 /\ Disbursed[c] <= MonthEnd(month)
           /\ UNCHANGED <<carried, recoveries, final>>
           /\ \E p \in Nat : Closes(c, p)
<1>1. /\ month \in 1..Horizon /\ turn = c /\ turn' = turn + 1 /\ month' = month
      /\ carried' = carried
  BY VisitOfProcessContract
<1>2. /\ UNCHANGED <<recoveries, final>> /\ terminal[c] = 0
      /\ ~(Disbursed[c] > MonthEnd(month))
  BY DEF ProcessContract, Waiting
<1>3. Disbursed[c] <= MonthEnd(month)
  BY <1>1, <1>2, ContractsAssumption, MonthEndGrows
<1>4. PICK d \in Decisions(c), day \in 1..MonthLength, drawn \in BOOLEAN :
        LET undone == d.amount > 0 /\ drawn /\ ReversalAllowed(day + 1)
        IN  \E given \in {Allocation(c, d.amount)} :
            \E r \in {RemAfter(c, given, undone)}, h \in {HeadAfter(c, given, undone)} :
               /\ CloseMonth(c, d, r, h, undone)
               /\ PostRows(c, given, undone, day)
  BY DEF ProcessContract
<1> DEFINE undone == d.amount > 0 /\ drawn /\ ReversalAllowed(day + 1)
           given == Allocation(c, d.amount)
           r == RemAfter(c, given, undone)
           h == HeadAfter(c, given, undone)
           p == PaidAfter(c, d.amount, undone)
<1>5. CloseMonth(c, d, r, h, undone) /\ PostRows(c, given, undone, day)
  BY <1>4
<1>6. undone \in BOOLEAN /\ (undone => InPaymentMonth(day + 1))
  BY DEF ReversalAllowed
<1>7. d.amount \in 0..(ScheduledTotal(c) - paid[c])
  BY DecisionBounded
<1>8. /\ given \in [Slots(c) -> Nat] /\ p \in paid[c]..ScheduledTotal(c)
      /\ r = Left(c, p)
  <2> HIDE DEF undone
  <2>1. undone \in BOOLEAN
    BY <1>6
  <2> QED BY <1>7, <2>1, BookedPayment DEF Left
<1>9. h = AdvancedHead(c, r, head[c])
  BY DEF HeadAfter
<1>10. /\ paid[c] \in Nat /\ ScheduledTotal(c) \in Nat /\ p \in Nat /\ p <= ScheduledTotal(c)
  <2>1. paid[c] \in Nat /\ ScheduledTotal(c) \in Nat
    BY OwedUnderInv, ScheduledTotalIsNat
  <2> HIDE DEF p
  <2> QED BY <1>8, <2>1
<1>11. p = paid[c] + IF undone THEN 0 ELSE d.amount
  BY <1>7, <1>10 DEF PaidAfter
<1>12. /\ \A s \in Slots(c) : r[s] = IF undone THEN rem[c][s] - given[s] + given[s]
                                             ELSE rem[c][s] - given[s]
  BY DEF RemAfter
<1> HIDE DEF undone, given, r, h, p
<1>13. Visit(c, p, r, h)
  BY <1>5, <1>8, <1>9 DEF CloseMonth, Visit, p, Left
<1>14. r \in [Slots(c) -> Nat] /\ h \in 0..Term[c] /\ HeadPointerExact' /\ head'[c] = h /\ rem'[c] = r
  BY <1>13, VisitKeepsWaterfall DEF Visit, LedgerInv, TypeOK
<1>15. \A k \in Installments(c) : k <= h => RemainingTotal(r, k) = 0
  BY <1>14 DEF HeadPointerExact
<1>16. Total(r, NumSlots(c)) = ScheduledTotal(c) - p
  BY <1>8, <1>10, TotalLeft DEF Left
<1>17. /\ SumOver(c, r, Active(c, h)) = ScheduledTotal(c) - p
       /\ SumOver(c, r, Installments(c)) = ScheduledTotal(c) - p
  <2>1. ASSUME NEW s \in Slots(c), InstallmentOf(s) \notin Active(c, h) PROVE r[s] = 0
    <3>1. InstallmentOf(s) \in Installments(c) /\ Term[c] \in Nat
      BY SlotsOfInstallments
    <3>2. InstallmentOf(s) <= h
      BY <1>14, <2>1, <3>1 DEF Active, Installments
    <3> QED BY <1>14, <1>15, <3>1, <3>2, RemainingTotalOfSlots
  <2>2. \A s \in Slots(c) : InstallmentOf(s) \notin Installments(c) => r[s] = 0
    BY SlotsOfInstallments
  <2> QED BY <1>14, <1>16, <2>1, <2>2, SumOverEverythingOpen
<1>18. /\ DaysPastDue(c, r, Active(c, h)) = DpdAfter(c, p)
       /\ DaysPastDue(c, r, Installments(c)) = DpdAfter(c, p)
  <2>1. h \in Nat
    BY <1>14, SlotsOfInstallments
  <2> QED BY <1>8, <1>15, <2>1, LatenessFromTheHead DEF DpdAfter
<1>19. writeOff[c] = 0
  BY <1>2 DEF StatusOfDebt, IsTerminal
<1> DEFINE st == StatusAfter(c, p)
           lost == LostAfter(c, p)
           owed == ScheduledTotal(c) - p
<1>20. /\ owed \in Nat /\ lost = IF st = "charged_off" THEN owed ELSE 0
       /\ st = "charged_off" => owed > 0
  <2>1. owed \in Nat /\ lost = IF st = "charged_off" THEN owed ELSE 0
    BY <1>10 DEF LostAfter
  <2>2. st = "charged_off" => ~(owed <= Tolerance)
    BY DEF StatusAfter, Classify
  <2> QED BY <2>1, <2>2, SizesAssumption
<1>21. /\ rem' = [rem EXCEPT ![c] = Left(c, p)]
       /\ paid' = [paid EXCEPT ![c] = p]
       /\ status' = [status EXCEPT ![c] = st]
       /\ writeOff' = [writeOff EXCEPT ![c] = lost]
       /\ terminal' = [terminal EXCEPT ![c] = IF IsTerminal(st) THEN month ELSE 0]
       /\ \E plan \in IF st = "charged_off" THEN RecoveryPlans(lost) ELSE {NoRecovery} :
             scheduled' = [scheduled EXCEPT ![c] = plan]
       /\ writeOffs' = IF st = "charged_off"
                       THEN writeOffs \cup {[contract |-> c, month |-> month, amount |-> lost]}
                       ELSE writeOffs
       /\ snap' = [snap EXCEPT ![c] = SnapshotRow(c, r, p, lost, st)]
       /\ events' = [events EXCEPT ![c] =
             [payment |-> IF d.amount > 0 THEN d.type ELSE "none",
              reversed |-> undone,
              contact |-> ~IsTerminal(st) /\ ShouldContact(DpdAfter(c, p))]]
  BY <1>5, <1>8, <1>17, <1>18, <1>19, <1>20 DEF CloseMonth, StatusAfter, p
<1>22. \E due \in {0, SumOver(c, Left(c, p), DueBefore(c, month))} :
          SnapshotRow(c, r, p, lost, st) =
             [month |-> month, paid |-> p, writeOff |-> LostAfter(c, p),
              balance |-> (ScheduledTotal(c) - p) - LostAfter(c, p),
              pastDue |-> due,
              exposure |-> IF IsTerminal(StatusAfter(c, p)) THEN 0 ELSE ScheduledTotal(c) - p,
              dpd |-> DpdAfter(c, p), status |-> StatusAfter(c, p)]
  <2> DEFINE written == IsTerminal(st) /\ lost > 0
             late == {k \in Installments(c) : DueDate[c][k] < MonthEnd(month)}
             balance == IF written THEN 0 ELSE AtLeastZero(owed - lost)
             due == IF written THEN 0 ELSE SumOver(c, r, late)
  <2>1. SnapshotRow(c, r, p, lost, st) =
            [month |-> month, paid |-> p, writeOff |-> lost, balance |-> balance,
             pastDue |-> due, exposure |-> IF IsTerminal(st) THEN 0 ELSE balance,
             dpd |-> DpdAfter(c, p), status |-> st]
    BY <1>17, <1>18 DEF SnapshotRow
  <2>2. due \in {0, SumOver(c, Left(c, p), DueBefore(c, month))}
    BY <1>8 DEF DueBefore
  <2> HIDE DEF due
  <2>3. balance = owed - lost
    <3>1. CASE st = "charged_off"
      BY <1>20, <3>1 DEF IsTerminal
    <3>2. CASE st # "charged_off"
      BY <1>20, <3>2 DEF AtLeastZero
    <3> QED BY <3>1, <3>2
  <2>4. ~IsTerminal(st) => lost = 0
    BY <1>20 DEF IsTerminal
  <2>5. ~IsTerminal(st) => balance = owed
    <3> HIDE DEF balance, st, lost, owed
    <3> QED BY <1>20, <2>3, <2>4
  <2> HIDE DEF balance
  <2> QED BY <2>1, <2>2, <2>3, <2>5
<1>23. WritesState(c, p)
  BY <1>21 DEF WritesState
<1>24. \E gain \in [Slots(c) -> Int] :
          /\ \A s \in Slots(c) : gain[s] = rem[c][s] - Left(c, p)[s]
          /\ allocated' = [allocated EXCEPT ![c] = [s \in Slots(c) |-> @[s] + gain[s]]]
  <2> DEFINE same == InPaymentMonth(day + 1)
             gain == [s \in Slots(c) |-> IF undone THEN 0 ELSE given[s]]
  <2>1. allocated' = [allocated EXCEPT ![c] =
              [s \in Slots(c) |-> @[s] + given[s] - (IF undone /\ same THEN given[s] ELSE 0)]]
    BY <1>5 DEF PostRows
  <2> HIDE DEF same
  <2>2. undone => same
    BY <1>6 DEF same
  <2>3. /\ DOMAIN allocated = Contract /\ allocated[c] \in [Slots(c) -> Nat]
        /\ rem[c] \in [Slots(c) -> Nat]
    BY DEF LedgerInv, TypeOK
  <2>4. gain \in [Slots(c) -> Int]
    BY <1>8
  <2>5. \A s \in Slots(c) :
          allocated[c][s] + given[s] - (IF undone /\ same THEN given[s] ELSE 0)
            = allocated[c][s] + gain[s]
    BY <1>8, <2>2, <2>3
  <2>6. \A s \in Slots(c) : gain[s] = rem[c][s] - Left(c, p)[s]
    BY <1>8, <1>12, <2>3
  <2>7. allocated' = [allocated EXCEPT ![c] = [s \in Slots(c) |-> @[s] + gain[s]]]
    <3> HIDE DEF gain
    <3> QED BY <2>1, <2>3, <2>5
  <2> QED BY <2>4, <2>6, <2>7
<1>25. WritesRows(c, p)
  BY <1>21, <1>22, <1>24 DEF WritesRows
<1>26. PaysWhatIsOverdue(c, p)
  <2> SUFFICES ASSUME events'[c].payment = "cure", ~events'[c].reversed
               PROVE  p = paid[c] + SumOver(c, rem[c], Overdue(c))
    BY DEF PaysWhatIsOverdue
  <2>1. /\ events'[c].payment = IF d.amount > 0 THEN d.type ELSE "none"
        /\ events'[c].reversed = undone
    BY <1>21 DEF RowsInPlace
  <2>2. d.amount > 0 /\ d.type = "cure" /\ ~undone
    BY <2>1
  <2>3. d \in BacklogDecisions(c)
    BY <2>2 DEF Decisions, CurrentDecisions, Pays
  <2>4. d.amount = SumOver(c, rem[c], Overdue(c)) \/ d.amount = 0
    BY <2>3 DEF BacklogDecisions, Pays
  <2> QED BY <1>7, <1>11, <2>2, <2>4
<1> QED BY <1>1, <1>2, <1>3, <1>8, <1>10, <1>23, <1>25, <1>26 DEF Closes

(***************************************************************************)
(* What a visit writes for its contract, and that it leaves the others     *)
(* alone.                                                                  *)
(***************************************************************************)
LEMMA ClosedContract ==
    ASSUME BooksInv, NEW c \in Contract, NEW p \in Nat, Closes(c, p)
    PROVE  /\ rem'[c] = Left(c, p) /\ paid'[c] = p /\ status'[c] = StatusAfter(c, p)
           /\ writeOff'[c] = LostAfter(c, p)
           /\ terminal'[c] = IF IsTerminal(StatusAfter(c, p)) THEN month ELSE 0
           /\ snap'[c].month = month /\ snap'[c].paid = p /\ snap'[c].writeOff = LostAfter(c, p)
           /\ snap'[c].balance = (ScheduledTotal(c) - p) - LostAfter(c, p)
           /\ snap'[c].dpd = DpdAfter(c, p) /\ snap'[c].status = StatusAfter(c, p)
           /\ snap'[c].pastDue \in {0, SumOver(c, Left(c, p), DueBefore(c, month))}
           /\ \A x \in Contract : x # c =>
                 /\ rem'[x] = rem[x] /\ paid'[x] = paid[x] /\ status'[x] = status[x]
                 /\ writeOff'[x] = writeOff[x] /\ terminal'[x] = terminal[x]
                 /\ scheduled'[x] = scheduled[x] /\ snap'[x] = snap[x]
                 /\ allocated'[x] = allocated[x]
           /\ DOMAIN snap' = Contract
<1>1. /\ DOMAIN rem = Contract /\ DOMAIN paid = Contract /\ DOMAIN status = Contract
      /\ DOMAIN writeOff = Contract /\ DOMAIN terminal = Contract /\ DOMAIN scheduled = Contract
      /\ DOMAIN snap = Contract /\ DOMAIN allocated = Contract
  BY DEF BooksInv, LedgerInv, TypeOK, RowsInPlace
<1>2. WritesState(c, p) /\ WritesRows(c, p)
  BY DEF Closes
<1>3. /\ rem'[c] = Left(c, p) /\ paid'[c] = p /\ status'[c] = StatusAfter(c, p)
      /\ writeOff'[c] = LostAfter(c, p)
      /\ terminal'[c] = IF IsTerminal(StatusAfter(c, p)) THEN month ELSE 0
      /\ \A x \in Contract : x # c =>
            /\ rem'[x] = rem[x] /\ paid'[x] = paid[x] /\ status'[x] = status[x]
            /\ writeOff'[x] = writeOff[x] /\ terminal'[x] = terminal[x]
            /\ scheduled'[x] = scheduled[x]
  BY <1>1, <1>2 DEF WritesState
<1>4. PICK due \in {0, SumOver(c, Left(c, p), DueBefore(c, month))} :
          snap' = [snap EXCEPT ![c] =
             [month |-> month, paid |-> p, writeOff |-> LostAfter(c, p),
              balance |-> (ScheduledTotal(c) - p) - LostAfter(c, p),
              pastDue |-> due,
              exposure |-> IF IsTerminal(StatusAfter(c, p)) THEN 0 ELSE ScheduledTotal(c) - p,
              dpd |-> DpdAfter(c, p), status |-> StatusAfter(c, p)]]
  BY <1>2 DEF WritesRows
<1>5. /\ snap'[c].month = month /\ snap'[c].paid = p /\ snap'[c].writeOff = LostAfter(c, p)
      /\ snap'[c].balance = (ScheduledTotal(c) - p) - LostAfter(c, p)
      /\ snap'[c].dpd = DpdAfter(c, p) /\ snap'[c].status = StatusAfter(c, p)
      /\ snap'[c].pastDue = due
  BY <1>1, <1>4
<1>6. DOMAIN snap' = Contract /\ \A x \in Contract : x # c => snap'[x] = snap[x]
  BY <1>1, <1>4
<1>7. \A x \in Contract : x # c => allocated'[x] = allocated[x]
  BY <1>1, <1>2 DEF WritesRows
<1> QED BY <1>3, <1>4, <1>5, <1>6, <1>7

LEMMA StatusOfDebtProcess ==
    ASSUME BooksInv, NEW c \in Contract, ProcessContract(c)
    PROVE  StatusOfDebt'
<1>1. /\ month \in 1..Horizon /\ month' = month /\ Disbursed[c] <= MonthEnd(month)
      /\ \E p \in Nat : Closes(c, p)
  BY VisitCloses DEF BooksInv
<1>2. PICK p \in Nat : Closes(c, p)
  BY <1>1
<1> SUFFICES ASSUME NEW x \in Contract
             PROVE  /\ terminal'[x] # 0 <=> IsTerminal(status'[x])
                    /\ terminal'[x] <= month'
                    /\ terminal'[x] # 0 => Disbursed[x] <= MonthEnd(terminal'[x])
                    /\ writeOff'[x] = IF status'[x] = "charged_off"
                                      THEN ScheduledTotal(x) - paid'[x] ELSE 0
  BY DEF StatusOfDebt, Owing
<1>3. CASE x = c
  <2>1. /\ paid'[c] = p /\ status'[c] = StatusAfter(c, p) /\ writeOff'[c] = LostAfter(c, p)
        /\ terminal'[c] = IF IsTerminal(StatusAfter(c, p)) THEN month ELSE 0
    BY <1>2, ClosedContract
  <2> QED BY <1>1, <1>3, <2>1 DEF LostAfter
<1>4. CASE x # c
  <2>1. /\ paid'[x] = paid[x] /\ status'[x] = status[x] /\ writeOff'[x] = writeOff[x]
        /\ terminal'[x] = terminal[x]
    BY <1>2, <1>4, ClosedContract
  <2> QED BY <1>1, <2>1 DEF BooksInv, StatusOfDebt, Owing
<1> QED BY <1>3, <1>4

LEMMA WriteOffsOfStateProcess ==
    ASSUME BooksInv, NEW c \in Contract, ProcessContract(c)
    PROVE  WriteOffsOfState' /\ (c \notin ChargedOff) /\ ChargedOff \subseteq ChargedOff'
<1>1. /\ month \in 1..Horizon /\ terminal[c] = 0 /\ \E p \in Nat : Closes(c, p)
  BY VisitCloses DEF BooksInv
<1>2. PICK p \in Nat : Closes(c, p)
  BY <1>1
<1> DEFINE Row(x) == [contract |-> x, month |-> terminal[x], amount |-> writeOff[x]]
           NewRow(x) == [contract |-> x, month |-> terminal'[x], amount |-> writeOff'[x]]
<1>3. writeOffs = {Row(x) : x \in ChargedOff}
  BY DEF BooksInv, WriteOffsOfState
<1>4. c \notin ChargedOff
  BY <1>1 DEF BooksInv, StatusOfDebt, ChargedOff, IsTerminal
<1>5. /\ status'[c] = StatusAfter(c, p) /\ writeOff'[c] = LostAfter(c, p)
      /\ terminal'[c] = IF IsTerminal(StatusAfter(c, p)) THEN month ELSE 0
      /\ \A x \in Contract : x # c => /\ status'[x] = status[x] /\ writeOff'[x] = writeOff[x]
                                      /\ terminal'[x] = terminal[x]
  BY <1>2, ClosedContract
<1>6. \A x \in ChargedOff : NewRow(x) = Row(x) /\ x # c /\ x \in ChargedOff'
  BY <1>4, <1>5 DEF ChargedOff
<1>7. ChargedOff' = IF StatusAfter(c, p) = "charged_off" THEN ChargedOff \cup {c} ELSE ChargedOff
  BY <1>4, <1>5 DEF ChargedOff
<1>8. writeOffs' = IF StatusAfter(c, p) = "charged_off"
                   THEN writeOffs \cup {[contract |-> c, month |-> month, amount |-> LostAfter(c, p)]}
                   ELSE writeOffs
  BY <1>2 DEF Closes, WritesRows
<1>9. StatusAfter(c, p) = "charged_off" =>
        NewRow(c) = [contract |-> c, month |-> month, amount |-> LostAfter(c, p)]
  BY <1>5 DEF IsTerminal
<1>10. writeOffs' = {NewRow(x) : x \in ChargedOff'}
  <2>1. {NewRow(x) : x \in ChargedOff} = {Row(x) : x \in ChargedOff}
    BY <1>6
  <2> HIDE DEF NewRow, Row
  <2> QED BY <1>3, <1>7, <1>8, <1>9, <2>1
<1> QED BY <1>4, <1>6, <1>10 DEF WriteOffsOfState

LEMMA RecoveriesOfStateProcess ==
    ASSUME BooksInv, NEW c \in Contract, ProcessContract(c)
    PROVE  ScheduledOfState' /\ RecoveriesOfState'
<1>1. /\ month \in 1..Horizon /\ month' = month /\ recoveries' = recoveries
      /\ \E p \in Nat : Closes(c, p)
  BY VisitCloses DEF BooksInv
<1>2. PICK p \in Nat : Closes(c, p)
  BY <1>1
<1>3. c \notin ChargedOff /\ ChargedOff \subseteq ChargedOff'
  BY WriteOffsOfStateProcess
<1>4. /\ status'[c] = StatusAfter(c, p) /\ writeOff'[c] = LostAfter(c, p)
      /\ terminal'[c] = IF IsTerminal(StatusAfter(c, p)) THEN month ELSE 0
      /\ \A x \in Contract : x # c => /\ writeOff'[x] = writeOff[x] /\ terminal'[x] = terminal[x]
                                      /\ scheduled'[x] = scheduled[x]
  BY <1>2, ClosedContract
<1>5. \A y \in recoveries : y.contract \in ChargedOff /\ y.contract # c
  BY <1>3 DEF BooksInv, RecoveriesOfState
<1>6. RecoveriesOfState'
  <2>1. ASSUME NEW y \in recoveries
        PROVE  /\ y.contract \in ChargedOff' /\ y.month \in 1..Horizon
               /\ y.month - terminal'[y.contract] \in 1..MaxRecoveryMonths
               /\ y.amount \in 0..writeOff'[y.contract]
    <3>1. y.contract \in Contract /\ y.contract # c
      BY <1>5 DEF ChargedOff
    <3> QED BY <1>3, <1>4, <3>1 DEF BooksInv, RecoveriesOfState, InTime
  <2> QED BY <1>1, <2>1 DEF BooksInv, RecoveriesOfState, InTime
<1>7. ScheduledOfState'
  <2> SUFFICES ASSUME NEW x \in Contract, scheduled'[x] # NoRecovery
               PROVE  /\ x \in ChargedOff' /\ scheduled'[x].target - terminal'[x] \in 1..MaxRecoveryMonths
                      /\ scheduled'[x].target >= month'
                      /\ scheduled'[x].amount \in 0..writeOff'[x]
                      /\ \A y \in recoveries' : y.contract # x
    BY DEF ScheduledOfState, InTime
  <2>1. CASE x # c
    <3>1. /\ writeOff'[x] = writeOff[x] /\ terminal'[x] = terminal[x] /\ scheduled'[x] = scheduled[x]
      BY <1>4, <2>1
    <3> QED BY <1>1, <1>3, <3>1 DEF BooksInv, ScheduledOfState, InTime
  <2>2. CASE x = c
    <3>1. PICK plan \in IF StatusAfter(c, p) = "charged_off"
                        THEN RecoveryPlans(LostAfter(c, p)) ELSE {NoRecovery} :
            scheduled'[c] = plan
      BY <1>2 DEF Closes, WritesState, BooksInv, LedgerInv, TypeOK
    <3>2. StatusAfter(c, p) = "charged_off" /\ plan \in RecoveryPlans(LostAfter(c, p)) /\ plan # NoRecovery
      BY <2>2, <3>1
    <3>3. terminal'[c] = month /\ c \in ChargedOff'
      BY <1>4, <3>2 DEF ChargedOff, IsTerminal
    <3>4. PICK offset \in 1..MaxRecoveryMonths, a \in RecoveryAmounts(LostAfter(c, p)) :
            plan = [target |-> month + offset, amount |-> a]
      BY <3>2 DEF RecoveryPlans
    <3>5. LostAfter(c, p) \in Nat
      BY <1>2, <3>2, ScheduledTotalIsNat, OwedUnderInv DEF Closes, LostAfter, BooksInv
    <3>6. plan.amount \in 0..LostAfter(c, p)
      BY <3>4, <3>5, RecoveryWithinLoss
    <3>7. plan.target - month \in 1..MaxRecoveryMonths /\ plan.target >= month
      BY <1>1, <3>4, SizesAssumption
    <3> QED BY <1>1, <1>4, <1>5, <2>2, <3>1, <3>3, <3>6, <3>7
  <2> QED BY <2>1, <2>2
<1> QED BY <1>6, <1>7

LEMMA SnapshotsOfStateProcess ==
    ASSUME BooksInv, NEW c \in Contract, ProcessContract(c)
    PROVE  SnapshotsOfState' /\ RowsInPlace'
<1>1. /\ month \in 1..Horizon /\ month' = month /\ turn = c /\ turn' = turn + 1
      /\ Disbursed[c] <= MonthEnd(month) /\ \E p \in Nat : Closes(c, p)
  BY VisitCloses DEF BooksInv
<1>2. PICK p \in Nat : Closes(c, p)
  BY <1>1
<1>3. RowsInPlace'
  <2>1. DOMAIN snap' = Contract
    BY <1>2, ClosedContract
  <2>2. DOMAIN events' = DOMAIN events
    BY DEF ProcessContract, CloseMonth
  <2> QED BY <2>1, <2>2 DEF RowsInPlace, BooksInv
<1>4. ASSUME NEW x \in Contract, x # c
      PROVE  RowIsCurrent(x)' /\ (snap'[x].month > 0 => RowOfState(x)')
  <2>1. /\ rem'[x] = rem[x] /\ paid'[x] = paid[x] /\ status'[x] = status[x]
        /\ writeOff'[x] = writeOff[x] /\ terminal'[x] = terminal[x] /\ snap'[x] = snap[x]
    BY <1>2, <1>4, ClosedContract
  <2>2. RowIsCurrent(x) /\ (snap[x].month > 0 => RowOfState(x))
    BY DEF BooksInv, SnapshotsOfState
  <2>3. RowIsCurrent(x)'
    <3>1. x < turn' <=> x < turn
      BY <1>1, <1>4 DEF Contract
    <3> QED BY <1>1, <2>1, <2>2, <3>1 DEF RowIsCurrent
  <2>4. snap'[x].month > 0 => RowOfState(x)'
    BY <2>1, <2>2 DEF RowOfState, Owing
  <2> QED BY <2>3, <2>4
<1>5. RowIsCurrent(c)' /\ RowOfState(c)'
  <2>1. /\ rem'[c] = Left(c, p) /\ paid'[c] = p /\ status'[c] = StatusAfter(c, p)
        /\ writeOff'[c] = LostAfter(c, p)
        /\ snap'[c].month = month /\ snap'[c].paid = p /\ snap'[c].writeOff = LostAfter(c, p)
        /\ snap'[c].balance = (ScheduledTotal(c) - p) - LostAfter(c, p)
        /\ snap'[c].dpd = DpdAfter(c, p) /\ snap'[c].status = StatusAfter(c, p)
    BY <1>2, ClosedContract
  <2>2. month \in 0..Horizon /\ month > 0 /\ c < turn'
    BY <1>1 DEF Contract
  <2>3. RowIsCurrent(c)'
    BY <1>1, <2>1, <2>2 DEF RowIsCurrent
  <2>4. RowOfState(c)'
    BY <1>1, <2>1 DEF RowOfState, Owing, DpdAfter, StatusAfter
  <2> QED BY <2>3, <2>4
<1>6. SnapshotsOfState'
  BY <1>4, <1>5 DEF SnapshotsOfState
<1> QED BY <1>3, <1>6

LEMMA AllocatedOfStateProcess ==
    ASSUME BooksInv, NEW c \in Contract, ProcessContract(c)
    PROVE  AllocatedOfState'
<1>1. \E p \in Nat : Closes(c, p)
  BY VisitCloses DEF BooksInv
<1>2. PICK p \in Nat : Closes(c, p)
  BY <1>1
<1>3. PICK gain \in [Slots(c) -> Int] :
          /\ \A s \in Slots(c) : gain[s] = rem[c][s] - Left(c, p)[s]
          /\ allocated' = [allocated EXCEPT ![c] = [s \in Slots(c) |-> @[s] + gain[s]]]
  BY <1>2 DEF Closes, WritesRows
<1> SUFFICES ASSUME NEW x \in Contract, NEW s \in Slots(x)
             PROVE  allocated'[x][s] = Schedule[x][s] - rem'[x][s]
  BY DEF AllocatedOfState
<1>4. allocated[x][s] = Schedule[x][s] - rem[x][s]
  BY DEF BooksInv, AllocatedOfState
<1>5. CASE x # c
  <2>1. rem'[x] = rem[x] /\ allocated'[x] = allocated[x]
    BY <1>2, <1>5, ClosedContract
  <2> QED BY <1>4, <2>1
<1>6. CASE x = c
  <2>1. rem'[c] = Left(c, p)
    BY <1>2, ClosedContract
  <2>2. allocated'[c][s] = allocated[c][s] + gain[s]
    BY <1>3, <1>6 DEF BooksInv, LedgerInv, TypeOK
  <2>3. gain[s] = rem[c][s] - Left(c, p)[s] /\ gain[s] \in Int
    BY <1>3, <1>6
  <2>4. rem[c][s] \in Nat /\ Schedule[c][s] \in Nat /\ Left(c, p)[s] \in Nat
    <3>1. rem[c] \in [Slots(c) -> Nat]
      BY DEF BooksInv, LedgerInv, TypeOK
    <3>2. Schedule[c] \in [Slots(c) -> Nat]
      BY ContractsAssumption
    <3>3. Left(c, p) \in [Slots(c) -> Nat]
      BY ScheduledTotalIsNat, OldestFirstTyped DEF Left, Slots
    <3> QED BY <1>6, <3>1, <3>2, <3>3
  <2> QED BY <1>4, <1>6, <2>1, <2>2, <2>3, <2>4
<1> QED BY <1>5, <1>6

LEMMA BooksInvProcess ==
    ASSUME BooksInv, NEW c \in Contract, ProcessContract(c)
    PROVE  BooksInv'
<1>1. LedgerInv'
  BY LedgerInvProcess DEF BooksInv
<1>2. FinalOfState'
  <2>1. /\ turn = c /\ turn' = turn + 1 /\ final' = final
    BY VisitCloses DEF BooksInv
  <2>2. turn # 0 /\ turn' # 0
    BY <2>1 DEF Contract
  <2> QED BY <2>1, <2>2 DEF BooksInv, FinalOfState
<1> QED BY <1>1, <1>2, StatusOfDebtProcess, WriteOffsOfStateProcess, RecoveriesOfStateProcess,
           SnapshotsOfStateProcess, AllocatedOfStateProcess DEF BooksInv

-----------------------------------------------------------------------------
(***************************************************************************)
(* The other actions.                                                      *)
(***************************************************************************)
LEMMA BooksInvInit == Init => BooksInv
<1> SUFFICES ASSUME Init PROVE BooksInv
  OBVIOUS
<1>1. LedgerInv
  BY LedgerInvInit
<1>2. RowsInPlace
  BY DEF Init, RowsInPlace
<1>3. StatusOfDebt /\ WriteOffsOfState /\ ScheduledOfState /\ RecoveriesOfState
  <2>1. ChargedOff = {}
    BY DEF Init, ChargedOff
  <2>2. StatusOfDebt
    BY DEF Init, StatusOfDebt, IsTerminal
  <2> QED BY <2>1, <2>2 DEF Init, WriteOffsOfState, ScheduledOfState, RecoveriesOfState
<1>4. SnapshotsOfState
  <2>1. \A c \in Contract : snap[c] = NoSnapshot /\ paid[c] = 0 /\ status[c] = "active"
    BY DEF Init
  <2>2. NoSnapshot.month = 0 /\ 0 \in 0..Horizon
    BY SizesAssumption DEF NoSnapshot
  <2> QED BY <2>1, <2>2 DEF SnapshotsOfState, RowIsCurrent
<1>5. AllocatedOfState
  <2> SUFFICES ASSUME NEW c \in Contract, NEW s \in Slots(c)
               PROVE  allocated[c][s] = Schedule[c][s] - rem[c][s]
    BY DEF AllocatedOfState
  <2>1. Schedule[c][s] \in Nat
    BY ContractsAssumption
  <2> QED BY <2>1 DEF Init, Zeroes
<1>6. FinalOfState
  BY DEF Init, FinalOfState
<1> QED BY <1>1, <1>2, <1>3, <1>4, <1>5, <1>6 DEF BooksInv

\* A contract passed over before it is disbursed has no row yet.
LEMMA BooksInvPassOver ==
    ASSUME BooksInv, NEW c \in Contract, PassOver(c)
    PROVE  BooksInv'
<1>1. LedgerInv'
  BY LedgerInvStep DEF BooksInv, Next
<1>2. /\ month' = month /\ turn = c /\ turn' = turn + 1 /\ Waiting(c) /\ month \in 1..Horizon
      /\ UNCHANGED <<rem, head, status, paid, writeOff, terminal, scheduled, snap, events,
                     allocated, carried, writeOffs, recoveries, final>>
  BY SizesAssumption DEF PassOver, BooksInv, LedgerInv, TypeOK
<1>3. StatusOfDebt' /\ RowsInPlace' /\ WriteOffsOfState' /\ ScheduledOfState' /\ RecoveriesOfState' /\ AllocatedOfState'
  BY <1>2 DEF BooksInv, RowsInPlace, StatusOfDebt, Owing, WriteOffsOfState, ChargedOff,
              ScheduledOfState, RecoveriesOfState, InTime, AllocatedOfState
<1>4. FinalOfState'
  <2>1. turn # 0 /\ turn' # 0
    BY <1>2 DEF Contract
  <2> QED BY <1>2, <2>1 DEF BooksInv, FinalOfState
<1>5. SnapshotsOfState'
  <2> SUFFICES ASSUME NEW x \in Contract
               PROVE  RowIsCurrent(x)' /\ (snap'[x].month > 0 => RowOfState(x)')
    BY DEF SnapshotsOfState
  <2>1. RowIsCurrent(x) /\ (snap[x].month > 0 => RowOfState(x))
    BY DEF BooksInv, SnapshotsOfState
  <2>2. snap'[x].month > 0 => RowOfState(x)'
    BY <1>2, <2>1 DEF RowOfState, Owing
  <2>3. CASE x # c
    <3>1. x < turn' <=> x < turn
      BY <1>2, <2>3 DEF Contract
    <3> QED BY <1>2, <2>1, <2>2, <3>1 DEF RowIsCurrent
  <2>4. CASE x = c
    <3>1. snap[x].month > 0 => terminal[x] # 0
      <4> SUFFICES ASSUME snap[x].month > 0, terminal[x] = 0 PROVE FALSE
        OBVIOUS
      <4>1. Disbursed[x] > MonthEnd(month) /\ Disbursed[x] <= MonthEnd(snap[x].month)
        BY <1>2, <2>1, <2>4 DEF Waiting, RowOfState
      <4>2. snap[x].month = month - 1
        BY <1>2, <2>1, <2>4 DEF RowIsCurrent, Contract
      <4>3. MonthEnd(month - 1) <= MonthEnd(month) /\ MonthEnd(month - 1) \in Nat /\ MonthEnd(month) \in Nat
        <5>1. month - 1 \in Nat /\ month \in Nat /\ month - 1 <= month
          BY <1>2
        <5> QED BY <5>1, MonthEndGrows
      <4>4. Disbursed[x] \in Nat
        BY ContractsAssumption
      <4> QED BY <4>1, <4>2, <4>3, <4>4
    <3> QED BY <1>2, <2>1, <2>2, <3>1 DEF RowIsCurrent
  <2> QED BY <2>3, <2>4
<1> QED BY <1>1, <1>3, <1>4, <1>5 DEF BooksInv

\* A recovery lands in its own month, so those still to come lie beyond it.
LEMMA BooksInvEmit ==
    ASSUME BooksInv, EmitRecoveries
    PROVE  BooksInv'
<1>1. LedgerInv'
  BY LedgerInvStep DEF BooksInv, Next
<1>2. /\ month' = month + 1 /\ month \in 1..Horizon /\ turn = NumContracts + 1 /\ turn' = 1
      /\ UNCHANGED <<rem, status, paid, writeOff, terminal, snap, events, writeOffs, final>>
  BY SizesAssumption DEF EmitRecoveries, BooksInv, LedgerInv, TypeOK
<1>3. StatusOfDebt' /\ RowsInPlace' /\ WriteOffsOfState' /\ ChargedOff' = ChargedOff
  <2>1. \A x \in Contract : terminal[x] \in Int
    BY SizesAssumption DEF BooksInv, LedgerInv, TypeOK
  <2> QED BY <1>2, <2>1 DEF BooksInv, RowsInPlace, StatusOfDebt, Owing, WriteOffsOfState, ChargedOff
<1>4. AllocatedOfState'
  <2> SUFFICES ASSUME NEW c \in Contract, NEW s \in Slots(c)
               PROVE  allocated'[c][s] = Schedule[c][s] - rem'[c][s]
    BY DEF AllocatedOfState
  <2>1. allocated'[c][s] = allocated[c][s] + 0 /\ allocated[c][s] \in Nat
    BY DEF EmitRecoveries, BooksInv, LedgerInv, TypeOK, Zeroes
  <2> QED BY <1>2, <2>1 DEF BooksInv, AllocatedOfState
<1>5. SnapshotsOfState'
  <2> SUFFICES ASSUME NEW x \in Contract
               PROVE  RowIsCurrent(x)' /\ (snap'[x].month > 0 => RowOfState(x)')
    BY DEF SnapshotsOfState
  <2>1. RowIsCurrent(x) /\ (snap[x].month > 0 => RowOfState(x))
    BY DEF BooksInv, SnapshotsOfState
  <2>2. snap'[x].month > 0 => RowOfState(x)'
    BY <1>2, <2>1 DEF RowOfState, Owing
  <2>3. x < turn /\ ~(x < turn')
    BY <1>2, SizesAssumption DEF Contract
  <2> QED BY <1>2, <2>1, <2>2, <2>3 DEF RowIsCurrent
<1>6. FinalOfState'
  <2>1. turn # 0 /\ turn' # 0
    BY <1>2, SizesAssumption
  <2> QED BY <1>2, <2>1 DEF BooksInv, FinalOfState
<1> DEFINE Landed(c) == [contract |-> c, month |-> month, amount |-> scheduled[c].amount]
<1>7. /\ recoveries' = recoveries \cup {Landed(c) : c \in LandingNow}
      /\ scheduled' = [c \in Contract |-> IF c \in LandingNow THEN NoRecovery ELSE scheduled[c]]
  BY DEF EmitRecoveries
<1>8. LandingNow = {c \in Contract : scheduled[c] # NoRecovery /\ scheduled[c].target = month}
  BY DEF LandingNow, DueRecoveries
<1>9. \A c \in LandingNow : /\ c \in ChargedOff /\ InTime(c, month) /\ scheduled[c].amount \in 0..writeOff[c]
                            /\ \A x \in recoveries : x.contract # c
  BY <1>8 DEF BooksInv, ScheduledOfState
<1>10. ScheduledOfState'
  <2> SUFFICES ASSUME NEW c \in Contract, scheduled'[c] # NoRecovery
               PROVE  /\ c \in ChargedOff' /\ scheduled'[c].target - terminal'[c] \in 1..MaxRecoveryMonths
                      /\ scheduled'[c].target >= month'
                      /\ scheduled'[c].amount \in 0..writeOff'[c]
                      /\ \A y \in recoveries' : y.contract # c
    BY DEF ScheduledOfState, InTime
  <2>1. c \notin LandingNow /\ scheduled'[c] = scheduled[c]
    BY <1>7
  <2>2. /\ c \in ChargedOff /\ scheduled[c].target - terminal[c] \in 1..MaxRecoveryMonths
        /\ scheduled[c].target >= month /\ scheduled[c].amount \in 0..writeOff[c]
        /\ \A x \in recoveries : x.contract # c
    BY <2>1 DEF BooksInv, ScheduledOfState, InTime
  <2>3. scheduled[c].target # month
    BY <1>8, <2>1
  <2>4. scheduled[c].target \in Int
    BY SizesAssumption DEF BooksInv, LedgerInv, TypeOK
  <2>5. \A y \in recoveries' : y.contract # c
    BY <1>7, <2>1, <2>2
  <2> QED BY <1>2, <1>3, <2>1, <2>2, <2>3, <2>4, <2>5
<1>11. RecoveriesOfState'
  <2>1. \A c \in LandingNow : Landed(c).contract = c /\ Landed(c).month = month
                              /\ Landed(c).amount = scheduled[c].amount
    OBVIOUS
  <2>2. \A x \in recoveries : /\ x.contract \in ChargedOff /\ InTime(x.contract, x.month)
                              /\ x.month \in 1..Horizon
                              /\ x.amount \in 0..writeOff[x.contract]
                              /\ \A y \in recoveries : x.contract = y.contract => x = y
    BY DEF BooksInv, RecoveriesOfState
  <2>3. ASSUME NEW x \in recoveries'
        PROVE  /\ x.contract \in ChargedOff' /\ x.month \in 1..Horizon
               /\ x.month - terminal'[x.contract] \in 1..MaxRecoveryMonths
               /\ x.amount \in 0..writeOff'[x.contract]
    <3>1. CASE x \in recoveries
      BY <1>2, <1>3, <2>2, <3>1 DEF InTime
    <3>2. CASE x \notin recoveries
      <4>1. PICK c \in LandingNow : x = Landed(c)
        BY <1>7, <3>2
      <4> QED BY <1>2, <1>3, <1>9, <2>1, <4>1 DEF InTime
    <3> QED BY <3>1, <3>2
  <2>4. ASSUME NEW x \in recoveries', NEW y \in recoveries', x.contract = y.contract PROVE x = y
    <3> HIDE DEF Landed
    <3>1. CASE x \in recoveries /\ y \in recoveries
      BY <2>2, <2>4, <3>1
    <3>2. CASE x \in recoveries /\ y \notin recoveries
      BY <1>7, <1>9, <2>1, <2>4, <3>2
    <3>3. CASE x \notin recoveries /\ y \in recoveries
      BY <1>7, <1>9, <2>1, <2>4, <3>3
    <3>4. CASE x \notin recoveries /\ y \notin recoveries
      BY <1>7, <2>1, <2>4, <3>4
    <3> QED BY <3>1, <3>2, <3>3, <3>4
  <2> QED BY <2>3, <2>4 DEF RecoveriesOfState, InTime
<1> QED BY <1>1, <1>3, <1>4, <1>5, <1>6, <1>10, <1>11 DEF BooksInv

LEMMA BooksInvFinalise ==
    ASSUME BooksInv, Finalise
    PROVE  BooksInv'
<1>1. LedgerInv'
  BY LedgerInvStep DEF BooksInv, Next
<1>2. /\ month' = month /\ month = Horizon + 1 /\ turn = 1 /\ turn' = 0
      /\ UNCHANGED <<rem, head, status, paid, writeOff, terminal, scheduled, snap, events,
                     allocated, carried, writeOffs, recoveries>>
  BY DEF Finalise
<1>3. StatusOfDebt' /\ RowsInPlace' /\ WriteOffsOfState' /\ ScheduledOfState' /\ RecoveriesOfState' /\ AllocatedOfState'
  BY <1>2 DEF BooksInv, RowsInPlace, StatusOfDebt, Owing, WriteOffsOfState, ChargedOff,
              ScheduledOfState, RecoveriesOfState, InTime, AllocatedOfState
<1>4. FinalOfState'
  BY <1>2 DEF Finalise, FinalOfState, InstallmentStatus
<1>5. SnapshotsOfState'
  <2> SUFFICES ASSUME NEW x \in Contract
               PROVE  RowIsCurrent(x)' /\ (snap'[x].month > 0 => RowOfState(x)')
    BY DEF SnapshotsOfState
  <2>1. RowIsCurrent(x) /\ (snap[x].month > 0 => RowOfState(x))
    BY DEF BooksInv, SnapshotsOfState
  <2>2. snap'[x].month > 0 => RowOfState(x)'
    BY <1>2, <2>1 DEF RowOfState, Owing
  <2>3. ~(x < turn) /\ ~(x < turn')
    BY <1>2 DEF Contract
  <2> QED BY <1>2, <2>1, <2>2, <2>3 DEF RowIsCurrent
<1> QED BY <1>1, <1>3, <1>4, <1>5 DEF BooksInv

LEMMA BooksInvStep == BooksInv /\ [Next]_vars => BooksInv'
<1> SUFFICES ASSUME BooksInv, [Next]_vars PROVE BooksInv'
  OBVIOUS
<1>1. ASSUME NEW c \in Contract, PassOver(c) PROVE BooksInv'
  BY <1>1, BooksInvPassOver
<1>2. ASSUME NEW c \in Contract, ProcessContract(c) PROVE BooksInv'
  BY <1>2, BooksInvProcess
<1>3. CASE EmitRecoveries
  BY <1>3, BooksInvEmit
<1>4. CASE Finalise
  BY <1>4, BooksInvFinalise
<1>5. CASE UNCHANGED vars
  <2>1. LedgerInv'
    BY LedgerInvStep DEF BooksInv
  <2>2. \A x \in Contract : RowIsCurrent(x)' <=> RowIsCurrent(x)
    BY <1>5 DEF vars, RowIsCurrent
  <2>3. \A x \in Contract : RowOfState(x)' <=> RowOfState(x)
    BY <1>5 DEF vars, RowOfState, Owing
  <2>4. SnapshotsOfState'
    BY <1>5, <2>2, <2>3 DEF BooksInv, SnapshotsOfState, vars
  <2> QED BY <1>5, <2>1, <2>4 DEF vars, BooksInv, RowsInPlace, StatusOfDebt, Owing, WriteOffsOfState,
              ChargedOff, ScheduledOfState, RecoveriesOfState, InTime, AllocatedOfState,
              FinalOfState, InstallmentStatus
<1> QED BY <1>1, <1>2, <1>3, <1>4, <1>5 DEF Next

(***************************************************************************)
(* Every published table is a function of the contracts' state, at every   *)
(* point of the month loop.                                                *)
(***************************************************************************)
THEOREM BooksInvariant == Spec => []BooksInv
<1>1. Init => BooksInv
  BY BooksInvInit
<1>2. BooksInv /\ [Next]_vars => BooksInv'
  BY BooksInvStep
<1> QED BY <1>1, <1>2, PTL DEF Spec

-----------------------------------------------------------------------------
(***************************************************************************)
(* What the reconciliation rules find.                                     *)
(***************************************************************************)
\* An installment that owes no more than the tolerance, but something, is open
\* for the generator and closed for the rules.  At a tolerance of zero no such
\* installment exists.
NothingBelowTolerance ==
    \A c \in Contract : \A k \in Installments(c) : RemainingTotal(rem[c], k) \notin 1..Tolerance

\* Reconciled without its last conjunct.
AmountsReconciled ==
    \A c \in Contract : snap[c].month = month =>
        /\ snap[c].paid = Total([k \in Installments(c) |-> ExpectedPaid(c, k)], Term[c])
        /\ snap[c].balance = ExpectedBalance(c)
        /\ snap[c].writeOff = ExpectedWriteOff(c)

LEMMA ExpectedAmounts ==
    ASSUME BooksInv, NEW c \in Contract
    PROVE  /\ \A k \in Installments(c) : /\ ExpectedOutstanding(c, k) = RemainingTotal(rem[c], k)
                                         /\ RemainingTotal(rem[c], k) \in Nat
           /\ Total([k \in Installments(c) |-> ExpectedPaid(c, k)], Term[c]) = paid[c]
           /\ Total([k \in Installments(c) |-> ExpectedOutstanding(c, k)], Term[c]) = Owing(c)
<1> DEFINE m == Term[c]
           all == [k \in Installments(c) |-> RemainingTotal(Schedule[c], k)]
           open == [k \in Installments(c) |-> RemainingTotal(rem[c], k)]
           got == [k \in Installments(c) |-> ExpectedPaid(c, k)]
           out == [k \in Installments(c) |-> ExpectedOutstanding(c, k)]
<1>1. /\ rem[c] \in [Slots(c) -> Nat] /\ Schedule[c] \in [Slots(c) -> Nat]
      /\ rem[c] \in [Slots(c) -> Int] /\ Schedule[c] \in [Slots(c) -> Int]
      /\ allocated[c] \in [Slots(c) -> Int]
      /\ paid[c] \in Nat /\ ScheduledTotal(c) \in Nat /\ m \in Nat /\ Installments(c) = 1..m
      /\ Total(rem[c], NumSlots(c)) = ScheduledTotal(c) - paid[c]
  <2>1. /\ rem[c] \in [Slots(c) -> Nat] /\ allocated[c] \in [Slots(c) -> Nat]
        /\ Schedule[c] \in [Slots(c) -> Nat] /\ paid[c] \in Nat
    BY ContractsAssumption DEF BooksInv, LedgerInv, TypeOK
  <2>2. Total(rem[c], NumSlots(c)) = ScheduledTotal(c) - paid[c]
    BY OwedUnderInv DEF BooksInv
  <2>3. m \in Nat /\ ScheduledTotal(c) \in Nat /\ Installments(c) = 1..m
    BY SlotsOfInstallments, ScheduledTotalIsNat DEF Installments
  <2> QED BY <2>1, <2>2, <2>3
<1>2. ASSUME NEW k \in Installments(c)
      PROVE  /\ all[k] \in Int /\ open[k] \in Int /\ RemainingTotal(rem[c], k) \in Nat
             /\ got[k] = all[k] - open[k] /\ out[k] = open[k]
  <2>1. RemainingTotal(rem[c], k) \in Nat /\ RemainingTotal(Schedule[c], k) \in Nat
    BY <1>1, RemainingTotalOfSlots
  <2>2. {3 * k - 2, 3 * k - 1, 3 * k} \subseteq Slots(c)
    BY SlotsOfInstallments
  <2>3. \A s \in {3 * k - 2, 3 * k - 1, 3 * k} :
           /\ allocated[c][s] = Schedule[c][s] - rem[c][s]
           /\ Schedule[c][s] \in Nat /\ rem[c][s] \in Nat /\ rem[c][s] <= Schedule[c][s]
    <3>1. \A s \in Slots(c) : rem[c][s] <= Schedule[c][s]
      BY <1>1, OwedUnderInv, ScheduledTotalIsNat, OldestFirstTyped DEF BooksInv, Slots
    <3> QED BY <1>1, <2>2, <3>1 DEF BooksInv, AllocatedOfState
  <2>4. /\ RemainingTotal(allocated[c], k) = RemainingTotal(Schedule[c], k) - RemainingTotal(rem[c], k)
        /\ RemainingTotal(rem[c], k) <= RemainingTotal(Schedule[c], k)
    BY <2>3 DEF RemainingTotal
  <2>5. ExpectedPaid(c, k) = RemainingTotal(Schedule[c], k) - RemainingTotal(rem[c], k)
    BY <2>1, <2>4 DEF ExpectedPaid, Clip
  <2>6. ExpectedOutstanding(c, k) = RemainingTotal(rem[c], k)
    BY <2>1, <2>5 DEF ExpectedOutstanding
  <2> QED BY <2>1, <2>5, <2>6
<1>3. /\ Total(all, m) = ScheduledTotal(c) /\ Total(open, m) = Owing(c)
  BY <1>1, TotalByInstallment DEF ScheduledTotal, Owing
<1>4. out = open /\ \A k \in Installments(c) : ExpectedOutstanding(c, k) = RemainingTotal(rem[c], k)
  BY <1>2
<1>5. got = [k \in 1..m |-> all[k] - open[k]] /\ all \in [1..m -> Int] /\ open \in [1..m -> Int]
  BY <1>1, <1>2
<1> HIDE DEF all, open, got, out, m
<1>6. Total(got, m) = Total(all, m) - Total(open, m)
  BY <1>1, <1>5, TotalOfDifference
<1>7. Total(got, m) = paid[c] /\ Total(out, m) = Owing(c)
  BY <1>1, <1>3, <1>4, <1>6 DEF Owing
<1> QED BY <1>2, <1>4, <1>7 DEF got, out, m

LEMMA ExpectedWriteOffOfState ==
    ASSUME BooksInv, NEW c \in Contract
    PROVE  ExpectedWriteOff(c) = writeOff[c] /\ writeOff[c] \in Nat
<1> DEFINE Row(x) == [contract |-> x, month |-> terminal[x], amount |-> writeOff[x]]
           mine == {w \in writeOffs : w.contract = c /\ w.month <= month}
<1>1. writeOffs = {Row(x) : x \in ChargedOff} /\ writeOff[c] \in Nat /\ terminal[c] <= month
  BY DEF BooksInv, WriteOffsOfState, LedgerInv, TypeOK, StatusOfDebt
<1>2. Row(c).contract = c /\ Row(c).month = terminal[c] /\ Row(c).amount = writeOff[c]
      /\ \A x \in ChargedOff : Row(x).contract = x
  OBVIOUS
<1>3. ExpectedWriteOff(c) = MapThenSumSet(LAMBDA w : w.amount, mine)
  BY DEF ExpectedWriteOff
<1> HIDE DEF Row
<1>4. CASE c \in ChargedOff
  <2>1. mine = {Row(c)}
    BY <1>1, <1>2, <1>4
  <2>2. MapThenSumSet(LAMBDA x : x.amount, {Row(c)}) = Row(c).amount
    BY <1>1, <1>2, SumOverOne
  <2> QED BY <1>1, <1>2, <1>3, <2>1, <2>2
<1>5. CASE c \notin ChargedOff
  <2>1. mine = {}
    BY <1>1, <1>2, <1>5
  <2>2. writeOff[c] = 0
    BY <1>5 DEF ChargedOff, BooksInv, StatusOfDebt
  <2> QED BY <1>1, <1>3, <2>1, <2>2, SumOverNone
<1> QED BY <1>4, <1>5

LEMMA ExpectedBalanceOfState ==
    ASSUME BooksInv, NEW c \in Contract
    PROVE  ExpectedBalance(c) = Owing(c) - writeOff[c]
<1>1. Owing(c) \in Nat
  BY OwedUnderInv, ScheduledTotalIsNat DEF BooksInv, Owing
<1>2. writeOff[c] = 0 \/ writeOff[c] = Owing(c)
  BY DEF BooksInv, StatusOfDebt
<1>3. ExpectedBalance(c) = AtLeastZero(Owing(c) - writeOff[c])
  BY ExpectedAmounts, ExpectedWriteOffOfState DEF ExpectedBalance
<1> QED BY <1>1, <1>2, <1>3 DEF AtLeastZero

LEMMA AmountsReconciledOfState == BooksInv => AmountsReconciled
<1> SUFFICES ASSUME BooksInv, NEW c \in Contract, snap[c].month = month
             PROVE  /\ snap[c].paid = Total([k \in Installments(c) |-> ExpectedPaid(c, k)], Term[c])
                    /\ snap[c].balance = ExpectedBalance(c)
                    /\ snap[c].writeOff = ExpectedWriteOff(c)
  BY DEF AmountsReconciled
<1>1. snap[c].month > 0
  BY SizesAssumption DEF BooksInv, LedgerInv, TypeOK
<1>2. RowOfState(c)
  BY <1>1 DEF BooksInv, SnapshotsOfState
<1> QED BY <1>2, ExpectedAmounts, ExpectedWriteOffOfState, ExpectedBalanceOfState DEF RowOfState

LEMMA ExpectedDpdOfState ==
    ASSUME BooksInv, NothingBelowTolerance, NEW c \in Contract
    PROVE  ExpectedDpd(c) = DpdIn(c, rem[c], month)
<1>1. ASSUME NEW k \in Installments(c)
      PROVE  ExpectedOutstanding(c, k) > Tolerance <=> RemainingTotal(rem[c], k) > 0
  <2>1. ExpectedOutstanding(c, k) = RemainingTotal(rem[c], k) /\ RemainingTotal(rem[c], k) \in Nat
    BY ExpectedAmounts
  <2>2. RemainingTotal(rem[c], k) \notin 1..Tolerance
    BY DEF NothingBelowTolerance
  <2> QED BY <2>1, <2>2, SizesAssumption
<1>2. {k \in Installments(c) : ExpectedOutstanding(c, k) > Tolerance /\ DueDate[c][k] < MonthEnd(month)}
        = LateIn(c, rem[c], month)
  BY <1>1 DEF LateIn
<1> QED BY <1>2 DEF ExpectedDpd, DpdIn

(***************************************************************************)
(* The amounts of every snapshot (cumulative_paid, total_balance and       *)
(* cumulative_write_off) are the ones _ledger_reconciliation() rebuilds    *)
(* from the schedule and the dated rows, at any tolerance.                 *)
(***************************************************************************)
THEOREM AmountsAlwaysReconcile == Spec => []AmountsReconciled
BY BooksInvariant, AmountsReconciledOfState, PTL

(***************************************************************************)
(* Every snapshot reconciles in full, days past due included, as long as no*)
(* installment owes less than the tolerance without being paid.            *)
(***************************************************************************)
THEOREM SnapshotsReconcile == Spec => [](NothingBelowTolerance => SnapshotReconciled)
<1>1. BooksInv => (NothingBelowTolerance => SnapshotReconciled)
  <2> SUFFICES ASSUME BooksInv, NothingBelowTolerance, NEW c \in Contract, snap[c].month = month
               PROVE  Reconciled(c)
    BY DEF SnapshotReconciled
  <2>1. snap[c].month > 0
    BY SizesAssumption DEF BooksInv, LedgerInv, TypeOK
  <2>2. RowOfState(c)
    BY <2>1 DEF BooksInv, SnapshotsOfState
  <2>3. snap[c].dpd = ExpectedDpd(c)
    BY <2>2, ExpectedDpdOfState DEF RowOfState
  <2>4. AmountsReconciled
    BY AmountsReconciledOfState
  <2> QED BY <2>3, <2>4 DEF AmountsReconciled, Reconciled
<1> QED BY <1>1, BooksInvariant, PTL

(***************************************************************************)
(* With a tolerance of zero, as in the run MCLedger, that is no condition. *)
(***************************************************************************)
COROLLARY SnapshotsReconcileExactly ==
    ASSUME Tolerance = 0
    PROVE  Spec => []SnapshotReconciled
<1>1. NothingBelowTolerance
  BY DEF NothingBelowTolerance
<1>2. Spec => []NothingBelowTolerance
  <2>1. NothingBelowTolerance'
    BY DEF NothingBelowTolerance
  <2> QED BY <1>1, <2>1, PTL
<1> QED BY <1>2, SnapshotsReconcile, PTL

-----------------------------------------------------------------------------
(***************************************************************************)
(* Nothing is lost, and recoveries follow write-offs.                      *)
(***************************************************************************)
(***************************************************************************)
(* In every snapshot each unit of the schedule is collected, on the books  *)
(* or written off, and no recovery exceeds the write-off it follows.       *)
(***************************************************************************)
THEOREM NothingIsLost == Spec => []NothingLost
<1>1. BooksInv => NothingLost
  <2> SUFFICES ASSUME BooksInv PROVE NothingLost
    OBVIOUS
  <2>1. ASSUME NEW c \in Contract, snap[c].month > 0
        PROVE  snap[c].paid + snap[c].balance + snap[c].writeOff = ScheduledTotal(c)
    <3>1. RowOfState(c)
      BY <2>1 DEF BooksInv, SnapshotsOfState
    <3>2. paid[c] \in Nat /\ writeOff[c] \in Nat /\ ScheduledTotal(c) \in Nat
      BY ScheduledTotalIsNat DEF BooksInv, LedgerInv, TypeOK
    <3> QED BY <3>1, <3>2 DEF RowOfState, Owing
  <2>2. ASSUME NEW x \in recoveries PROVE x.amount <= writeOff[x.contract]
    <3>1. x.contract \in Contract /\ x.amount \in 0..writeOff[x.contract]
      BY DEF BooksInv, RecoveriesOfState, ChargedOff
    <3> QED BY <3>1 DEF BooksInv, LedgerInv, TypeOK
  <2> QED BY <2>1, <2>2 DEF NothingLost
<1> QED BY <1>1, BooksInvariant, PTL

(***************************************************************************)
(* Write-offs and recoveries are dated as the temporal rules demand, one   *)
(* of each per contract at most, and no scheduled recovery is missed.      *)
(***************************************************************************)
THEOREM RecoveriesAreInOrder == Spec => []RecoveriesFollowWriteOffs
<1>1. BooksInv => RecoveriesFollowWriteOffs
  <2> SUFFICES ASSUME BooksInv PROVE RecoveriesFollowWriteOffs
    OBVIOUS
  <2> DEFINE Row(x) == [contract |-> x, month |-> terminal[x], amount |-> writeOff[x]]
  <2>1. /\ writeOffs = {Row(x) : x \in ChargedOff}
        /\ \A x \in ChargedOff : Row(x).contract = x /\ Row(x).month = terminal[x]
    BY DEF BooksInv, WriteOffsOfState
  <2>2. ASSUME NEW x \in ChargedOff
        PROVE  /\ terminal[x] # 0 /\ terminal[x] \in 0..Horizon
               /\ MonthEnd(terminal[x]) >= Disbursed[x]
    <3>1. x \in Contract /\ terminal[x] # 0 /\ terminal[x] \in 0..Horizon
      BY DEF BooksInv, StatusOfDebt, ChargedOff, IsTerminal, LedgerInv, TypeOK
    <3>2. Disbursed[x] <= MonthEnd(terminal[x]) /\ Disbursed[x] \in Nat
      BY <3>1, ContractsAssumption DEF BooksInv, StatusOfDebt
    <3>3. MonthEnd(terminal[x]) \in Nat
      BY <3>1, SizesAssumption, MonthEndGrows
    <3> QED BY <3>1, <3>2, <3>3
  <2> HIDE DEF Row
  <2>3. \A w \in writeOffs : WriteOffNotBeforeContract(w)
    BY <2>1, <2>2 DEF WriteOffNotBeforeContract
  <2>4. ASSUME NEW x \in recoveries
        PROVE  /\ RecoveryAfterWriteOff(x)
               /\ \A w \in writeOffs :
                     w.contract = x.contract => x.month - w.month \in 1..MaxRecoveryMonths
    <3>1. /\ x.contract \in ChargedOff /\ x.month \in 1..Horizon
          /\ x.month - terminal[x.contract] \in 1..MaxRecoveryMonths
      BY DEF BooksInv, RecoveriesOfState, InTime
    <3>2. \A w \in writeOffs : w.contract = x.contract => w.month = terminal[x.contract]
      BY <2>1
    <3>3. Row(x.contract) \in writeOffs /\ Row(x.contract).contract = x.contract
          /\ Row(x.contract).month = terminal[x.contract]
      BY <2>1, <3>1
    <3>4. terminal[x.contract] <= x.month
      BY <2>2, <3>1, SizesAssumption
    <3> QED BY <3>1, <3>2, <3>3, <3>4 DEF RecoveryAfterWriteOff
  <2>5. ASSUME NEW x \in recoveries \cup writeOffs, NEW y \in recoveries \cup writeOffs,
               x.contract = y.contract, x \in writeOffs <=> y \in writeOffs
        PROVE  x = y
    BY <2>1, <2>5 DEF BooksInv, RecoveriesOfState
  <2>6. ASSUME NEW c \in Contract, scheduled[c] # NoRecovery
        PROVE  /\ scheduled[c].target >= month
               /\ status[c] = "charged_off"
               /\ ~\E x \in recoveries : x.contract = c
    BY <2>6 DEF BooksInv, ScheduledOfState, ChargedOff
  <2> QED BY <2>3, <2>4, <2>5, <2>6 DEF RecoveriesFollowWriteOffs
<1> QED BY <1>1, BooksInvariant, PTL

-----------------------------------------------------------------------------
(***************************************************************************)
(* The final statuses of the installments.                                 *)
(***************************************************************************)
LEMMA FinalStatusesOfState ==
    ASSUME BooksInv, NEW c \in Contract, final[c] # <<>>
    PROVE  /\ month = Horizon + 1 /\ turn = 0
           /\ \A k \in Installments(c) : final[c][k] = InstallmentStatus(c, k)
           /\ \A k \in Installments(c) : RemainingTotal(rem[c], k) \in Nat
           /\ \A k \in Installments(c) :
                 final[c][k] = "paid" <=> RemainingTotal(rem[c], k) = 0
<1>1. turn = 0
  BY DEF BooksInv, FinalOfState
<1>2. /\ month = Horizon + 1
      /\ \A k \in Installments(c) : final[c][k] = InstallmentStatus(c, k)
  BY <1>1 DEF BooksInv, FinalOfState
<1>3. ASSUME NEW k \in Installments(c) PROVE RemainingTotal(rem[c], k) \in Nat
  BY OwedUnderInv, RemainingTotalOfSlots DEF BooksInv
<1>4. ASSUME NEW k \in Installments(c)
      PROVE  final[c][k] = "paid" <=> RemainingTotal(rem[c], k) = 0
  <2>1. final[c][k] = InstallmentStatus(c, k) /\ RemainingTotal(rem[c], k) \in Nat
    BY <1>2, <1>3
  <2>2. RemainingTotal(rem[c], k) <= 0 <=> RemainingTotal(rem[c], k) = 0
    BY <2>1
  <2>3. InstallmentStatus(c, k) = "paid" <=> RemainingTotal(rem[c], k) <= 0
    BY DEF InstallmentStatus
  <2> QED BY <2>1, <2>2, <2>3
<1> QED BY <1>1, <1>2, <1>3, <1>4

(***************************************************************************)
(* What the last snapshot's status says of a contract's debt.              *)
(***************************************************************************)
LEMMA StatusSaysOfDebt ==
    ASSUME BooksInv, NEW c \in Contract
    PROVE  /\ Owing(c) \in Nat /\ Total(rem[c], NumSlots(c)) = Owing(c)
           /\ status[c] = "settled" => Owing(c) <= Tolerance
           /\ status[c] = "charged_off" => Owing(c) > 0
           /\ status[c] = "delinquent" => LateIn(c, rem[c], snap[c].month) # {}
           /\ status[c] = "active" /\ snap[c].month > 0 => LateIn(c, rem[c], snap[c].month) = {}
           /\ status[c] # "active" => snap[c].month > 0
<1>1. Owing(c) \in Nat /\ Total(rem[c], NumSlots(c)) = Owing(c)
  BY OwedUnderInv, ScheduledTotalIsNat DEF BooksInv, Owing
<1>2. RowIsCurrent(c) /\ (snap[c].month > 0 => RowOfState(c))
  BY DEF BooksInv, SnapshotsOfState
<1>3. snap[c].month \in Nat /\ (status[c] # "active" => snap[c].month > 0)
  BY <1>2, SizesAssumption DEF RowIsCurrent
<1>4. CASE ~(snap[c].month > 0)
  BY <1>1, <1>3, <1>4
<1>5. CASE snap[c].month > 0
  <2>1. /\ status[c] = Classify(Owing(c), snap[c].dpd)
        /\ snap[c].dpd = DpdIn(c, rem[c], snap[c].month)
    BY <1>2, <1>5 DEF RowOfState
  <2>2. snap[c].dpd \in Nat /\ (snap[c].dpd = 0 <=> LateIn(c, rem[c], snap[c].month) = {})
    BY <1>3, <2>1, PastDueMeansLate
  <2>3. /\ status[c] = "settled" => Owing(c) <= Tolerance
        /\ status[c] = "charged_off" => Owing(c) > 0
        /\ status[c] = "delinquent" => snap[c].dpd > 0
        /\ status[c] = "active" => snap[c].dpd = 0
    BY <1>1, <2>1, <2>2, SizesAssumption DEF Classify
  <2> QED BY <1>1, <1>3, <1>5, <2>2, <2>3
<1> QED BY <1>4, <1>5

(***************************************************************************)
(* The installments table tells the same story as the last snapshots.      *)
(***************************************************************************)
THEOREM FinalStatusesMatch == Spec => [](NothingBelowTolerance => FinalStatusesAgree)
<1>1. ASSUME BooksInv, NothingBelowTolerance, NEW c \in Contract, final[c] # <<>>
      PROVE  LET statuses == {final[c][k] : k \in Installments(c)}
                 late == {k \in Installments(c) : /\ DueDate[c][k] < MonthEnd(Horizon)
                                                  /\ final[c][k] # "paid"}
             IN  /\ status[c] = "settled" => statuses \subseteq {"paid"}
                 /\ status[c] = "charged_off" => "written_off" \in statuses
                                                 /\ statuses \subseteq {"paid", "written_off"}
                 /\ status[c] = "active" /\ snap[c].month > 0 => late = {}
                 /\ status[c] = "delinquent" => late # {}
  <2> DEFINE statuses == {final[c][k] : k \in Installments(c)}
             late == {k \in Installments(c) : /\ DueDate[c][k] < MonthEnd(Horizon)
                                              /\ final[c][k] # "paid"}
  <2>1. /\ month = Horizon + 1 /\ turn = 0
        /\ \A k \in Installments(c) : /\ final[c][k] = InstallmentStatus(c, k)
                                      /\ RemainingTotal(rem[c], k) \in Nat
                                      /\ final[c][k] = "paid" <=> RemainingTotal(rem[c], k) = 0
    BY <1>1, FinalStatusesOfState
  <2>2. late = LateIn(c, rem[c], Horizon)
    <3>1. \A k \in Installments(c) : final[c][k] # "paid" <=> RemainingTotal(rem[c], k) > 0
      BY <2>1
    <3> QED BY <3>1 DEF LateIn
  <2>3. rem[c] \in [Slots(c) -> Nat]
    BY <1>1 DEF BooksInv, LedgerInv, TypeOK
  <2>4. /\ Owing(c) \in Nat /\ Total(rem[c], NumSlots(c)) = Owing(c)
        /\ status[c] = "settled" => Owing(c) <= Tolerance
        /\ status[c] = "charged_off" => Owing(c) > 0
        /\ status[c] = "delinquent" => LateIn(c, rem[c], snap[c].month) # {}
        /\ status[c] = "active" /\ snap[c].month > 0 => LateIn(c, rem[c], snap[c].month) = {}
        /\ status[c] # "active" => snap[c].month > 0
    BY <1>1, StatusSaysOfDebt
  <2>5. ASSUME status[c] = "settled" PROVE statuses \subseteq {"paid"}
    <3> SUFFICES ASSUME NEW k \in Installments(c) PROVE RemainingTotal(rem[c], k) = 0
      BY <2>1
    <3>1. RemainingTotal(rem[c], k) <= Owing(c) /\ RemainingTotal(rem[c], k) \in Nat
      BY <2>1, <2>3, <2>4, InstallmentWithinTotal
    <3>2. RemainingTotal(rem[c], k) \notin 1..Tolerance
      BY <1>1 DEF NothingBelowTolerance
    <3> QED BY <2>4, <2>5, <3>1, <3>2, SizesAssumption
  <2>6. ASSUME status[c] = "charged_off"
        PROVE  "written_off" \in statuses /\ statuses \subseteq {"paid", "written_off"}
    <3>1. \A k \in Installments(c) : final[c][k] \in {"paid", "written_off"}
      BY <2>1, <2>6 DEF InstallmentStatus
    <3>2. PICK k \in Installments(c) : RemainingTotal(rem[c], k) # 0
      BY <2>3, <2>4, <2>6, InstallmentWithinTotal
    <3> QED BY <2>1, <3>1, <3>2
  <2>7. ASSUME status[c] \in {"active", "delinquent"}, snap[c].month > 0 PROVE snap[c].month = Horizon
    <3>1. terminal[c] = 0 /\ RowIsCurrent(c)
      BY <1>1, <2>7 DEF BooksInv, StatusOfDebt, SnapshotsOfState, IsTerminal
    <3>2. ~(c < turn)
      BY <2>1 DEF Contract
    <3> QED BY <2>1, <2>7, <3>1, <3>2, SizesAssumption DEF RowIsCurrent
  <2> QED BY <2>2, <2>4, <2>5, <2>6, <2>7
<1>2. BooksInv => (NothingBelowTolerance => FinalStatusesAgree)
  BY <1>1 DEF FinalStatusesAgree
<1> QED BY <1>2, BooksInvariant, PTL

-----------------------------------------------------------------------------
(***************************************************************************)
(* Snapshots move forward, and what a cure does.                           *)
(***************************************************************************)
(***************************************************************************)
(* The installments due before the end of a month come first.              *)
(***************************************************************************)
LEMMA DueBeforeIsAPrefix ==
    ASSUME NEW c \in Contract, NEW m \in Nat
    PROVE  \E j \in 0..Term[c] : \A k \in Installments(c) : DueDate[c][k] < MonthEnd(m) <=> k <= j
<1> DEFINE Stops == {j \in 0..Term[c] : j = Term[c] \/ ~(DueDate[c][j + 1] < MonthEnd(m))}
<1>1. Term[c] \in Nat
  BY SlotsOfInstallments
<1>2. Stops \in SUBSET Nat /\ Term[c] \in Stops
  BY <1>1
<1>3. PICK j \in Stops : \A i \in Stops : j <= i
  <2> HIDE DEF Stops
  <2> QED BY <1>2, LeastElement
<1>4. \A k \in Installments(c) : DueDate[c][k] \in Nat
  BY ContractsAssumption
<1>5. ASSUME NEW k \in Installments(c), k <= j PROVE DueDate[c][k] < MonthEnd(m)
  <2>1. k - 1 \in 0..Term[c] /\ (k - 1) + 1 = k /\ k - 1 # Term[c] /\ ~(j <= k - 1)
    BY <1>1, <1>3, <1>5 DEF Installments
  <2>2. k - 1 \notin Stops
    BY <1>3, <2>1
  <2>3. DueDate[c][(k - 1) + 1] < MonthEnd(m)
    BY <2>1, <2>2
  <2> QED BY <2>1, <2>3
<1>6. ASSUME NEW k \in Installments(c), ~(k <= j) PROVE ~(DueDate[c][k] < MonthEnd(m))
  <2>1. j + 1 \in Installments(c) /\ j # Term[c] /\ (k = j + 1 \/ j + 1 < k)
    BY <1>1, <1>3, <1>6 DEF Installments
  <2>2. ~(DueDate[c][j + 1] < MonthEnd(m))
    BY <1>3, <2>1
  <2> DEFINE l == j + 1
  <2>3. l \in Installments(c) /\ (k = l \/ l < k) /\ ~(DueDate[c][l] < MonthEnd(m))
    BY <2>1, <2>2
  <2> HIDE DEF l
  <2>4. DueDate[c][l] <= DueDate[c][k]
    BY <1>4, <2>3, ContractsAssumption
  <2>5. MonthEnd(m) \in Nat /\ DueDate[c][l] \in Nat /\ DueDate[c][k] \in Nat
    BY <1>4, <2>3, MonthEndGrows
  <2> QED BY <2>3, <2>4, <2>5
<1> QED BY <1>3, <1>5, <1>6

(***************************************************************************)
(* Paying what is overdue clears every slot due before the month end and   *)
(* no other.                                                               *)
(***************************************************************************)
LEMMA PayingTheOverdue ==
    ASSUME BooksInv, NEW c \in Contract
    PROVE  \A s \in Slots(c) :
              Left(c, paid[c] + SumOver(c, rem[c], Overdue(c)))[s]
                = IF DueDate[c][InstallmentOf(s)] < MonthEnd(month) THEN 0 ELSE rem[c][s]
<1> DEFINE n == NumSlots(c)
<1>1. /\ rem[c] \in [Slots(c) -> Nat] /\ paid[c] \in Nat /\ month \in Nat
      /\ n \in Nat /\ Schedule[c] \in [1..n -> Nat] /\ rem[c] \in [1..n -> Nat]
      /\ rem[c] = OldestFirst(Schedule[c], paid[c], n) /\ head[c] \in 0..Term[c] /\ Term[c] \in Nat
      /\ \A s \in Slots(c) : InstallmentOf(s) <= head[c] => rem[c][s] = 0
  <2>1. /\ rem[c] \in [Slots(c) -> Nat] /\ paid[c] \in Nat /\ month \in Nat
    BY SizesAssumption DEF BooksInv, LedgerInv, TypeOK
  <2>2. /\ rem[c] = OldestFirst(Schedule[c], paid[c], n) /\ head[c] \in 0..Term[c]
        /\ \A s \in Slots(c) : InstallmentOf(s) <= head[c] => rem[c][s] = 0
    BY OwedUnderInv DEF BooksInv
  <2>3. n \in Nat /\ Term[c] \in Nat /\ Schedule[c] \in [1..n -> Nat]
    BY SlotsOfInstallments, ScheduledTotalIsNat
  <2> QED BY <2>1, <2>2, <2>3 DEF Slots
<1>2. PICK j \in 0..Term[c] : \A k \in Installments(c) : DueDate[c][k] < MonthEnd(month) <=> k <= j
  BY <1>1, DueBeforeIsAPrefix
<1>3. ASSUME NEW s \in Slots(c)
      PROVE  InstallmentOf(s) \in Overdue(c) /\ rem[c][s] # 0 <=> InstallmentOf(s) <= j /\ rem[c][s] # 0
  <2>1. InstallmentOf(s) \in Installments(c)
    BY SlotsOfInstallments
  <2>2. rem[c][s] # 0 => InstallmentOf(s) \in Active(c, head[c])
    BY <1>1, <2>1 DEF Active, Installments
  <2> QED BY <1>2, <2>1, <2>2 DEF Overdue
<1>4. 3 * j \in 0..n /\ SumOver(c, rem[c], Overdue(c)) = RunningTotal(rem[c], n)[3 * j]
  BY <1>1, <1>3, SumOverFirst
<1>5. SumOver(c, rem[c], Overdue(c)) \in Nat
  BY <1>1, SumOverBounded
<1> DEFINE due == SumOver(c, rem[c], Overdue(c))
<1>6. Left(c, paid[c] + due) = OldestFirst(rem[c], due, n)
  <2> HIDE DEF due, n
  <2>1. OldestFirst(OldestFirst(Schedule[c], paid[c], n), due, n)
          = OldestFirst(Schedule[c], paid[c] + due, n)
    BY <1>1, <1>5, OldestFirstTwice DEF due
  <2>2. OldestFirst(rem[c], due, n) = OldestFirst(OldestFirst(Schedule[c], paid[c], n), due, n)
    BY <1>1, Zenon
  <2> QED BY <2>1, <2>2 DEF Left, n
<1>7. ASSUME NEW s \in Slots(c)
      PROVE  OldestFirst(rem[c], due, n)[s] = IF s <= 3 * j THEN 0 ELSE rem[c][s]
  <2> HIDE DEF n
  <2>1. s \in 1..n
    BY DEF Slots, n
  <2>2. OldestFirst(rem[c], RunningTotal(rem[c], n)[3 * j], n)[s] = IF s <= 3 * j THEN 0 ELSE rem[c][s]
    BY <1>1, <1>4, <2>1, PayingTheFirst
  <2> QED BY <1>4, <2>2
<1>8. ASSUME NEW s \in Slots(c)
      PROVE  DueDate[c][InstallmentOf(s)] < MonthEnd(month) <=> s <= 3 * j
  <2>1. InstallmentOf(s) \in Installments(c) /\ s \in Nat /\ j \in Nat
    BY <1>1, SlotsOfInstallments DEF Slots
  <2>2. InstallmentOf(s) <= j <=> s <= 3 * j
    BY <2>1 DEF InstallmentOf
  <2> QED BY <1>2, <2>1, <2>2
<1> QED BY <1>6, <1>7, <1>8

LEMMA CureCleans ==
    ASSUME BooksInv, NEW c \in Contract, NEW p \in Nat, Closes(c, p), month \in 1..Horizon,
           p = paid[c] + SumOver(c, rem[c], Overdue(c))
    PROVE  /\ snap'[c].dpd = 0 /\ snap'[c].pastDue = 0
           /\ \A s \in Slots(c) :
                 DueDate[c][InstallmentOf(s)] >= MonthEnd(month) => rem'[c][s] = rem[c][s]
<1> DEFINE r == Left(c, p)
<1>1. \A s \in Slots(c) : r[s] = IF DueDate[c][InstallmentOf(s)] < MonthEnd(month) THEN 0 ELSE rem[c][s]
  BY PayingTheOverdue
<1>2. /\ rem'[c] = r /\ snap'[c].dpd = DpdIn(c, r, month)
      /\ snap'[c].pastDue \in {0, SumOver(c, r, DueBefore(c, month))}
  BY ClosedContract DEF DpdAfter
<1>3. r \in [Slots(c) -> Nat] /\ month \in Nat /\ MonthEnd(month) \in Nat /\ NumSlots(c) \in Nat
  <2>1. month \in Nat
    OBVIOUS
  <2> QED BY <2>1, MonthEndGrows, ScheduledTotalIsNat, OldestFirstTyped DEF Left, Slots
<1> HIDE DEF r
<1>4. snap'[c].dpd = 0
  <2>1. ASSUME NEW k \in Installments(c), DueDate[c][k] < MonthEnd(month) PROVE RemainingTotal(r, k) = 0
    <3>1. \A s \in Slots(c) : InstallmentOf(s) = k => r[s] = 0
      BY <1>1, <2>1
    <3> QED BY <1>3, <3>1, RemainingTotalOfSlots
  <2>2. LateIn(c, r, month) = {}
    BY <2>1 DEF LateIn
  <2> QED BY <1>2, <1>3, <2>2, PastDueMeansLate
<1>5. SumOver(c, r, DueBefore(c, month)) = 0
  <2> DEFINE q == [s \in Slots(c) |-> IF InstallmentOf(s) \in DueBefore(c, month) THEN r[s] ELSE 0]
  <2>1. \A s \in Slots(c) : q[s] = 0
    BY <1>1 DEF DueBefore
  <2>2. q \in [1..NumSlots(c) -> Int] /\ \A s \in 1..NumSlots(c) : q[s] = 0
    BY <1>3, <2>1 DEF Slots
  <2>3. SumOver(c, r, DueBefore(c, month)) = Total(q, NumSlots(c))
    BY DEF SumOver
  <2> HIDE DEF q
  <2> QED BY <1>3, <2>2, <2>3, TotalOfZeroes
<1>6. ASSUME NEW s \in Slots(c), DueDate[c][InstallmentOf(s)] >= MonthEnd(month)
      PROVE  rem'[c][s] = rem[c][s]
  <2>1. DueDate[c][InstallmentOf(s)] \in Nat
    BY SlotsOfInstallments, ContractsAssumption
  <2>2. ~(DueDate[c][InstallmentOf(s)] < MonthEnd(month))
    BY <1>3, <1>6, <2>1
  <2> QED BY <1>1, <1>2, <2>2
<1> QED BY <1>2, <1>4, <1>5, <1>6

MovesForward ==
    \A c \in Contract :
        /\ snap'[c] # snap[c] => /\ PaidNonDecreasing(snap[c], snap'[c])
                                /\ WriteOffNonDecreasing(snap[c], snap'[c])
                                /\ NoRowAfterTerminal(snap[c])
        /\ Cured(c) =>
              /\ snap'[c].dpd = 0 /\ snap'[c].pastDue = 0
              /\ \A s \in Slots(c) :
                    DueDate[c][InstallmentOf(s)] >= MonthEnd(month) => rem'[c][s] = rem[c][s]

LEMMA VisitMovesForward ==
    ASSUME BooksInv, NEW c \in Contract, ProcessContract(c)
    PROVE  MovesForward
<1>1. /\ month \in 1..Horizon /\ turn = c /\ terminal[c] = 0 /\ \E p \in Nat : Closes(c, p)
  BY VisitCloses DEF BooksInv
<1>2. PICK p \in Nat : Closes(c, p)
  BY <1>1
<1>3. /\ p \in paid[c]..ScheduledTotal(c) /\ PaysWhatIsOverdue(c, p)
      /\ paid[c] \in Nat /\ ScheduledTotal(c) \in Nat
  BY <1>2, ScheduledTotalIsNat DEF Closes, BooksInv, LedgerInv, TypeOK
<1>4. /\ snap'[c].paid = p /\ snap'[c].writeOff = LostAfter(c, p)
      /\ \A x \in Contract : x # c => snap'[x] = snap[x]
  BY <1>2, ClosedContract
<1>5. /\ snap[c].paid <= paid[c] /\ snap[c].paid \in Nat /\ snap[c].writeOff = 0
      /\ ~IsTerminal(snap[c].status)
  <2>1. ~IsTerminal(status[c]) /\ writeOff[c] = 0
    BY <1>1 DEF BooksInv, StatusOfDebt, IsTerminal
  <2>2. RowIsCurrent(c) /\ (snap[c].month > 0 => RowOfState(c)) /\ snap[c].month \in Nat
    BY SizesAssumption DEF BooksInv, SnapshotsOfState, RowIsCurrent
  <2>3. CASE snap[c].month > 0
    BY <1>3, <2>1, <2>2, <2>3 DEF RowOfState
  <2>4. CASE snap[c].month = 0
    BY <1>3, <2>2, <2>4 DEF RowIsCurrent, NoSnapshot, IsTerminal
  <2> QED BY <2>2, <2>3, <2>4
<1>6. /\ PaidNonDecreasing(snap[c], snap'[c]) /\ WriteOffNonDecreasing(snap[c], snap'[c])
      /\ NoRowAfterTerminal(snap[c])
  <2>1. LostAfter(c, p) \in Nat
    BY <1>3 DEF LostAfter
  <2> QED BY <1>3, <1>4, <1>5, <2>1 DEF PaidNonDecreasing, WriteOffNonDecreasing, NoRowAfterTerminal
<1>7. ASSUME NEW x \in Contract, Cured(x)
      PROVE  /\ snap'[x].dpd = 0 /\ snap'[x].pastDue = 0
             /\ \A s \in Slots(x) :
                   DueDate[x][InstallmentOf(s)] >= MonthEnd(month) => rem'[x][s] = rem[x][s]
  <2>1. x = c /\ events'[c].payment = "cure" /\ ~events'[c].reversed
    BY <1>1, <1>7 DEF Cured
  <2>2. p = paid[c] + SumOver(c, rem[c], Overdue(c))
    BY <1>3, <2>1 DEF PaysWhatIsOverdue
  <2> QED BY <1>1, <1>2, <2>1, <2>2, CureCleans
<1> QED BY <1>4, <1>6, <1>7 DEF MovesForward

(***************************************************************************)
(* No snapshot reports less collected or less written off than the one     *)
(* before; a terminal contract gets no further row; and a cure that stands *)
(* clears exactly what was overdue (ADR 0010).                             *)
(***************************************************************************)
THEOREM SnapshotsOnlyMoveForward == Spec => SnapshotsMoveForward
<1>1. BooksInv /\ [Next]_vars => [MovesForward]_vars
  <2> SUFFICES ASSUME BooksInv, Next PROVE MovesForward
    OBVIOUS
  <2>1. ASSUME NEW c \in Contract, ProcessContract(c) PROVE MovesForward
    BY <2>1, VisitMovesForward
  <2>2. ASSUME NEW c \in Contract, PassOver(c) PROVE MovesForward
    <3>1. snap' = snap /\ turn = c /\ Waiting(c)
      BY <2>2 DEF PassOver
    <3> QED BY <3>1 DEF MovesForward, Cured
  <2>3. CASE EmitRecoveries \/ Finalise
    <3>1. snap' = snap /\ turn' \in {0, 1}
      BY <2>3 DEF EmitRecoveries, Finalise
    <3>2. \A x \in Contract : x + 1 \notin {0, 1}
      BY DEF Contract
    <3> QED BY <3>1, <3>2 DEF MovesForward, Cured
  <2> QED BY <2>1, <2>2, <2>3 DEF Next
<1>2. SnapshotsMoveForward <=> [][MovesForward]_vars
  BY DEF SnapshotsMoveForward, MovesForward
<1>3. []BooksInv /\ [][Next]_vars => [][MovesForward]_vars
  BY <1>1, PTL
<1> QED BY <1>2, <1>3, BooksInvariant, PTL DEF Spec

-----------------------------------------------------------------------------
(***************************************************************************)
(* The ledger implements the loan book.                                    *)
(***************************************************************************)
BookState == [c \in Contract |->
    IF status[c] \in {"active", "delinquent"} THEN "performing" ELSE status[c]]
BookRecovered == [c \in Contract |-> IF CollectedOf(c) = {} THEN -1 ELSE Max(CollectedOf(c))]

LEMMA LedgerStartsAsBook == Init => Book!Init
<1> SUFFICES ASSUME Init PROVE Book!Init
  OBVIOUS
<1>1. \A c \in Contract : status[c] = "active" /\ CollectedOf(c) = {}
  BY DEF Init, CollectedOf
<1>2. paid = [c \in Contract |-> 0] /\ writeOff = [c \in Contract |-> 0]
  BY DEF Init
<1> QED BY <1>1, <1>2 DEF Book!Init, Book!NotRecovered

\* A visit is one month of the contract's loan.
LEMMA VisitCollects ==
    ASSUME BooksInv, NEW c \in Contract, ProcessContract(c)
    PROVE  Book!Next
<1>1. /\ month \in 1..Horizon /\ terminal[c] = 0 /\ recoveries' = recoveries
      /\ \E p \in Nat : Closes(c, p)
  BY VisitCloses DEF BooksInv
<1>2. PICK p \in Nat : Closes(c, p)
  BY <1>1
<1>3. /\ p \in paid[c]..ScheduledTotal(c) /\ WritesState(c, p)
      /\ paid \in [Contract -> Nat] /\ ScheduledTotal(c) \in Nat /\ DOMAIN status = Contract
      /\ writeOff \in [Contract -> Nat]
  BY <1>2, ScheduledTotalIsNat DEF Closes, BooksInv, LedgerInv, TypeOK
<1>0. PICK amount \in 0..(ScheduledTotal(c) - paid[c]) : amount = p - paid[c]
  BY <1>3
<1> DEFINE rest == ScheduledTotal(c) - paid[c] - amount
           st == StatusAfter(c, p)
<1>4. /\ amount \in 0..(ScheduledTotal(c) - paid[c]) /\ rest = ScheduledTotal(c) - p
      /\ paid[c] + amount = p /\ rest \in Nat
  BY <1>0, <1>3
<1>5. status[c] \in {"active", "delinquent"} /\ writeOff[c] = 0
  BY <1>1 DEF BooksInv, StatusOfDebt, IsTerminal, LedgerInv, TypeOK
<1>6. /\ paid' = [paid EXCEPT ![c] = p] /\ status' = [status EXCEPT ![c] = st]
      /\ writeOff' = [writeOff EXCEPT ![c] = IF st = "charged_off" THEN rest ELSE 0]
  BY <1>3, <1>4 DEF WritesState, LostAfter
<1>7. /\ st \in {"active", "delinquent", "settled", "charged_off"}
      /\ st = "settled" <=> rest <= Tolerance
  BY <1>4 DEF StatusAfter, Classify
<1>8. \A x \in Contract : CollectedOf(x)' = CollectedOf(x)
  BY <1>1 DEF CollectedOf
<1> HIDE DEF rest, st
<1>9. BookState[c] = "performing" /\ BookRecovered' = BookRecovered
      /\ BookState' = [BookState EXCEPT ![c] =
            IF st \in {"active", "delinquent"} THEN "performing" ELSE st]
  BY <1>3, <1>5, <1>6, <1>8 DEF BookState, BookRecovered
<1>10. paid' = [paid EXCEPT ![c] = @ + amount]
  BY <1>4, <1>6
<1>11. rest > Tolerance <=> ~(rest <= Tolerance)
  BY <1>4, SizesAssumption
<1>12. \/ /\ rest <= Tolerance
          /\ BookState' = [BookState EXCEPT ![c] = "settled"] /\ writeOff' = writeOff
       \/ /\ rest > Tolerance
          /\ BookState' = BookState /\ writeOff' = writeOff
       \/ /\ rest > Tolerance
          /\ BookState' = [BookState EXCEPT ![c] = "charged_off"]
          /\ writeOff' = [writeOff EXCEPT ![c] = rest]
  <2>1. st # "charged_off" => writeOff' = writeOff
    BY <1>3, <1>5, <1>6
  <2>2. st \in {"active", "delinquent"} => BookState' = BookState
    <3>1. BookState = [BookState EXCEPT ![c] = "performing"]
      BY <1>9 DEF BookState
    <3> QED BY <1>9, <3>1
  <2>3. CASE st = "settled"
    BY <1>7, <1>9, <2>1, <2>3
  <2>4. CASE st = "charged_off"
    BY <1>6, <1>7, <1>9, <1>11, <2>4
  <2>5. CASE st \in {"active", "delinquent"}
    BY <1>7, <1>11, <2>1, <2>2, <2>5
  <2> QED BY <1>7, <2>3, <2>4, <2>5
<1>13. [x \in Contract |-> ScheduledTotal(x)][c] - paid[c] - amount = rest
  BY DEF rest
<1>14. Book!Collect(c, amount)
  BY <1>9, <1>10, <1>12, <1>13 DEF Book!Collect, BookState, BookRecovered
<1>15. amount \in 0..([x \in Contract |-> ScheduledTotal(x)][c] - paid[c])
  BY <1>4
<1>16. \E l \in Contract :
          \E a \in 0..([x \in Contract |-> ScheduledTotal(x)][l] - paid[l]) : Book!Collect(l, a)
  BY <1>14, <1>15, Zenon
<1> QED BY <1>16, Zenon DEF Book!Next

\* The recovery pass of a month is one Recover of the loan book, or nothing.
LEMMA EmitRecovers ==
    ASSUME BooksInv, EmitRecoveries
    PROVE  /\ UNCHANGED <<BookState, paid, writeOff>>
           /\ LandingNow = {} => BookRecovered' = BookRecovered
           /\ LandingNow # {} => Book!Recover(LandingNow)
<1> DEFINE Landed(c) == [contract |-> c, month |-> month, amount |-> scheduled[c].amount]
<1>1. /\ UNCHANGED <<status, paid, writeOff>>
      /\ recoveries' = recoveries \cup {Landed(c) : c \in LandingNow}
  BY DEF EmitRecoveries
<1>2. LandingNow \subseteq Contract
  BY DEF LandingNow, DueRecoveries
<1>3. ASSUME NEW c \in LandingNow
      PROVE  /\ status[c] = "charged_off" /\ scheduled[c].amount \in 0..writeOff[c]
             /\ CollectedOf(c) = {} /\ CollectedOf(c)' = {scheduled[c].amount}
  <2>1. /\ c \in ChargedOff /\ scheduled[c].amount \in 0..writeOff[c]
        /\ \A x \in recoveries : x.contract # c
    BY DEF LandingNow, DueRecoveries, BooksInv, ScheduledOfState
  <2>2. CollectedOf(c) = {}
    BY <2>1 DEF CollectedOf
  <2>3. \A x \in LandingNow : Landed(x).contract = x /\ Landed(x).amount = scheduled[x].amount
    OBVIOUS
  <2> HIDE DEF Landed
  <2>4. {y \in recoveries' : y.contract = c} = {Landed(c)}
    BY <1>1, <2>1, <2>3
  <2>5. CollectedOf(c)' = {scheduled[c].amount}
    BY <2>3, <2>4 DEF CollectedOf
  <2> QED BY <2>1, <2>2, <2>5 DEF ChargedOff
<1>4. ASSUME NEW c \in Contract, c \notin LandingNow PROVE CollectedOf(c)' = CollectedOf(c)
  <2>1. \A x \in LandingNow : Landed(x).contract = x
    OBVIOUS
  <2> HIDE DEF Landed
  <2>2. {y \in recoveries' : y.contract = c} = {y \in recoveries : y.contract = c}
    BY <1>1, <1>4, <2>1
  <2> QED BY <2>2 DEF CollectedOf
<1>5. UNCHANGED <<BookState, paid, writeOff>>
  BY <1>1 DEF BookState
<1>6. LandingNow = {} => BookRecovered' = BookRecovered
  BY <1>4 DEF BookRecovered
<1>7. ASSUME NEW c \in LandingNow
      PROVE  BookState[c] = "charged_off" /\ BookRecovered[c] = -1 /\ BookRecovered'[c] \in 0..writeOff[c]
  <2>1. c \in Contract /\ writeOff[c] \in Nat
    BY <1>2 DEF BooksInv, LedgerInv, TypeOK
  <2>2. Max({scheduled[c].amount}) = scheduled[c].amount
    BY <1>3, <2>1, GreatestOfOne
  <2> QED BY <1>2, <1>3, <2>1, <2>2 DEF BookState, BookRecovered
<1>8. \A c \in Contract : c \notin LandingNow => BookRecovered'[c] = BookRecovered[c]
  BY <1>4 DEF BookRecovered
<1>9. LandingNow # {} => Book!Recover(LandingNow)
  BY <1>5, <1>7, <1>8, <1>2 DEF Book!Recover, Book!NotRecovered, BookState, BookRecovered
<1> QED BY <1>5, <1>6, <1>9

(***************************************************************************)
(* The month-by-month ledger implements the loan book, whatever the        *)
(* schedules and however many contracts: performing until settled or       *)
(* charged off for good, a charge-off loses what was not collected, and at *)
(* most one recovery follows it.                                           *)
(***************************************************************************)
THEOREM LedgerImplementsLoanBook == Spec => ImplementsLoanBook
<1>1. BooksInv /\ [Next]_vars => [Book!Next]_<<BookState, paid, writeOff, BookRecovered>>
  <2> SUFFICES ASSUME BooksInv, [Next]_vars
               PROVE  [Book!Next]_<<BookState, paid, writeOff, BookRecovered>>
    OBVIOUS
  <2>1. ASSUME NEW c \in Contract, ProcessContract(c) PROVE Book!Next
    BY <2>1, VisitCollects
  <2>2. CASE EmitRecoveries /\ LandingNow # {}
    <3>1. Book!Recover(LandingNow) /\ LandingNow \in SUBSET Contract
      BY <2>2, EmitRecovers DEF LandingNow, DueRecoveries
    <3>2. \E S \in SUBSET Contract : Book!Recover(S)
      BY <3>1, Zenon
    <3> QED BY <3>2, Zenon DEF Book!Next
  <2>3. CASE EmitRecoveries /\ LandingNow = {}
    BY <2>3, EmitRecovers
  <2>4. ASSUME UNCHANGED <<status, paid, writeOff, recoveries>>
        PROVE  UNCHANGED <<BookState, paid, writeOff, BookRecovered>>
    BY <2>4 DEF BookState, BookRecovered, CollectedOf
  <2>5. CASE (\E c \in Contract : PassOver(c)) \/ Finalise \/ UNCHANGED vars
    BY <2>4, <2>5 DEF PassOver, Finalise, vars
  <2> QED BY <2>1, <2>2, <2>3, <2>5 DEF Next
<1>2. Book!bookVars = <<BookState, paid, writeOff, BookRecovered>>
  BY DEF Book!bookVars, BookState, BookRecovered
<1>3. BooksInv /\ [Next]_vars => [Book!Next]_(Book!bookVars)
  BY <1>1 DEF Book!bookVars, BookState, BookRecovered
<1> QED BY BooksInvariant, LedgerStartsAsBook, <1>3, PTL DEF Spec, ImplementsLoanBook, Book!Spec
=============================================================================
