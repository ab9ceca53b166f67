--------------------------- MODULE GenerationProofs ---------------------------
(***************************************************************************)
(* Theorems about the generation of synthetic data among the Studies, for  *)
(* every value of its constants: scenarios compared under common random    *)
(* numbers; payment schedules, the calendar of their due dates, and the    *)
(* validation of generated runs and of their controlled defects.           *)
(***************************************************************************)
EXTENDS Studies, TLAPS, FiniteSetTheorems, WellFoundedInduction

(* A step of the whole leaves the focus, and is one of the component that  *)
(* has it, or leaves the variables of that component.                      *)
LEMMA FocusMoves ==
    ASSUME [StudiesNext]_studiesVars
    PROVE  /\ focus' = focus
           /\ focus = "suite" => Compared!CommonNext \/ UNCHANGED suiteVars
           /\ focus = "origination" => Originated!OriginationNext \/ UNCHANGED originationVars
BY SMT DEF StudiesNext, StudiesMoves, studiesVars, suiteVars, originationVars

(* What is counted from 1 to n.                                            *)
LEMMA CountOfPart ==
    ASSUME NEW n \in Nat, NEW T \in SUBSET (1..n)
    PROVE  IsFiniteSet(T) /\ Cardinality(T) \in 0..n
<1>1. IsFiniteSet(1..n) /\ Cardinality(1..n) = n
  BY FS_Interval
<1>2. IsFiniteSet(T) /\ Cardinality(T) <= n
  BY <1>1, FS_Subset
<1> QED BY <1>2, FS_CardinalityType

LEMMA FunctionIsSeq ==
    ASSUME NEW n \in Nat, NEW S, NEW f \in [1..n -> S]
    PROVE  f \in Seq(S) /\ Len(f) = n
OBVIOUS

(***************************************************************************)
(* Every non-empty set of naturals has a least element.                    *)
(***************************************************************************)
LEMMA LeastElement ==
    ASSUME NEW S \in SUBSET Nat, S # {}
    PROVE  \E m \in S : \A n \in S : m <= n
<1>1. IsWellFoundedOn(OpToRel(<, Nat), Nat)
  BY NatLessThanWellFounded
<1>2. PICK m \in S : \A n \in S : ~(<<n, m>> \in OpToRel(<, Nat))
  BY <1>1, WFMin
<1>3. \A n \in S : ~(n < m)
  BY <1>2 DEF OpToRel
<1> QED BY <1>3

(***************************************************************************)
(* Induction over 0..n, for a property given as the set of its instances.  *)
(***************************************************************************)
LEMMA UpToInduction ==
    ASSUME NEW n \in Nat, NEW S, 0 \in S,
           \A k \in 0..n : k \in S /\ k + 1 <= n => k + 1 \in S
    PROVE  \A k \in 0..n : k \in S
<1>1. SUFFICES ASSUME NEW b \in 0..n, b \notin S PROVE FALSE
  OBVIOUS
<1> DEFINE Bad == {k \in Nat : k <= n /\ k \notin S}
<1>2. Bad \in SUBSET Nat /\ Bad # {}
  BY <1>1
<1>3. PICK m \in Bad : \A k \in Bad : m <= k
  <2> HIDE DEF Bad
  <2> QED BY <1>2, LeastElement
<1>4. m # 0 /\ m - 1 \in 0..n /\ m - 1 \in S
  BY <1>3
<1> QED BY <1>3, <1>4

(***************************************************************************)
(* Recursion over 0..n, for a step given as a function.                    *)
(***************************************************************************)
LEMMA Recursion ==
    ASSUME NEW n \in Nat, NEW a \in Int, NEW F \in [1..n -> [Int -> Int]]
    PROVE  \E f \in [0..n -> Int] : f[0] = a /\ \A k \in 1..n : f[k] = F[k][f[k - 1]]
<1> DEFINE Upto(m, f) == f[0] = a /\ \A k \in 1..m : f[k] = F[k][f[k - 1]]
           Good == {m \in 0..n : \E f \in [0..m -> Int] : Upto(m, f)}
<1>1. 0 \in Good
  <2> DEFINE f == [k \in 0..0 |-> a]
  <2>1. f \in [0..0 -> Int] /\ Upto(0, f)
    OBVIOUS
  <2> HIDE DEF f, Upto
  <2> QED BY <2>1
<1>2. \A m \in 0..n : m \in Good /\ m + 1 <= n => m + 1 \in Good
  <2> SUFFICES ASSUME NEW m \in 0..n, m \in Good, m + 1 <= n PROVE m + 1 \in Good
    OBVIOUS
  <2>1. PICK f \in [0..m -> Int] : Upto(m, f)
    OBVIOUS
  <2> DEFINE next == F[m + 1][f[m]]
             g == [k \in 0..(m + 1) |-> IF k = m + 1 THEN next ELSE f[k]]
  <2>2. g \in [0..(m + 1) -> Int]
    <3>1. m + 1 \in 1..n /\ f[m] \in Int
      OBVIOUS
    <3>2. next \in Int
      BY <3>1
    <3> HIDE DEF next
    <3> QED BY <3>2
  <2>3. \A k \in 1..(m + 1) : g[k] = F[k][g[k - 1]]
    <3> TAKE k \in 1..(m + 1)
    <3>1. CASE k = m + 1
      BY <3>1
    <3>2. CASE k # m + 1
      <4>1. k \in 1..m /\ g[k] = f[k] /\ g[k - 1] = f[k - 1]
        BY <3>2
      <4> HIDE DEF g
      <4> QED BY <2>1, <4>1
    <3> QED BY <3>1, <3>2
  <2>4. g[0] = a
    BY <2>1
  <2>5. Upto(m + 1, g)
    BY <2>3, <2>4
  <2> HIDE DEF next, g, Upto
  <2> QED BY <2>2, <2>5
<1>3. \A m \in 0..n : m \in Good
  <2> HIDE DEF Good
  <2> QED BY <1>1, <1>2, UpToInduction
<1>4. n \in Good
  <2> HIDE DEF Good
  <2> QED BY <1>3
<1> QED BY <1>4


-----------------------------------------------------------------------------
(***************************************************************************)
(* Common random numbers.  A month of a run without a shock is determined  *)
(* by the tape: what the ledger has booked, the month and the contracts    *)
(* that are left make a moment, and every moment has one successor.        *)
(***************************************************************************)
LEMMA SuiteConstants ==
    /\ SuiteCustomers \in Nat \ {0} /\ SuiteMonths \in Nat \ {0}
    /\ SuiteTerm \in 1..SuiteMonths /\ SuiteMaxSeeds \in Nat \ {0}
    /\ \A c \in SuiteConfigs :
          /\ c.crn \in BOOLEAN /\ c.cutoff \in Int /\ c.shock \in Nat
          /\ c.name = "policy_expansion" => c.cutoff <= 1
          /\ c.name = "policy_tightening" => c.cutoff >= 1
          /\ c.shock # 0 => c.cutoff = 1 /\ c.onTime = 2 /\ c.cure = 1
BY StudiesAssumption DEF StudiesAssumption, Compared!CommonRandomAssumption, Compared!ConfigsAssumption,
                         Compared!Baseline

LEMMA ComparedCardinality == \A S : Compared!Cardinality(S) = Cardinality(S)
BY DEF Compared!Cardinality, Cardinality

(* A book has the fields of NoBook.                                        *)
IsBook(b) ==
    /\ b = [population |-> b.population, approved |-> b.approved, contracts |-> b.contracts,
            paid |-> b.paid, rows |-> b.rows, late |-> b.late, read |-> b.read]
    /\ b.read \in Nat

Edited(b, c, net, rows, late, n) ==
    [b EXCEPT !.paid = [@ EXCEPT ![c] = net], !.rows = @ \cup rows,
              !.late = @ \cup late, !.read = @ + 1 + n]
LEMMA BookEdited ==
    ASSUME NEW b, IsBook(b), NEW c, NEW net, NEW rows, NEW late, NEW n
    PROVE  Edited(b, c, net, rows, late, n)
           = [population |-> b.population, approved |-> b.approved, contracts |-> b.contracts,
              paid |-> [b.paid EXCEPT ![c] = net], rows |-> b.rows \cup rows,
              late |-> b.late \cup late, read |-> b.read + 1 + n]
<1> DEFINE x == [b.paid EXCEPT ![c] = net]
           y == b.rows \cup rows
           z == b.late \cup late
           k == b.read + 1 + n
           q1 == [b EXCEPT !.paid = x]
           q2 == [q1 EXCEPT !.rows = y]
           q3 == [q2 EXCEPT !.late = z]
           q4 == [q3 EXCEPT !.read = k]
<1>1. Edited(b, c, net, rows, late, n) = q4
  BY Zenon DEF Edited
<1> HIDE DEF x, y, z, k
<1>2. q1 = [population |-> b.population, approved |-> b.approved, contracts |-> b.contracts,
            paid |-> x, rows |-> b.rows, late |-> b.late, read |-> b.read]
  BY DEF IsBook
<1> HIDE DEF q1
<1>3. q2 = [population |-> b.population, approved |-> b.approved, contracts |-> b.contracts,
            paid |-> x, rows |-> y, late |-> b.late, read |-> b.read]
  BY <1>2
<1> HIDE DEF q2
<1>4. q3 = [population |-> b.population, approved |-> b.approved, contracts |-> b.contracts,
            paid |-> x, rows |-> y, late |-> z, read |-> b.read]
  BY <1>3
<1> HIDE DEF q3
<1>5. q4 = [population |-> b.population, approved |-> b.approved, contracts |-> b.contracts,
            paid |-> x, rows |-> y, late |-> z, read |-> k]
  BY <1>4
<1> HIDE DEF q4
<1> QED BY <1>1, <1>5, Zenon DEF x, y, z, k

Adds(b, e, month, n) ==
    /\ IsBook(e) /\ e.read = b.read + 1 + n
    /\ e.population = b.population /\ e.approved = b.approved
    /\ e.contracts = b.contracts
    /\ b.rows \subseteq e.rows /\ \A r \in e.rows : r \in b.rows \/ r[1] = month
    /\ b.late \subseteq e.late /\ \A l \in e.late : l \in b.late \/ l[1] = month

LEMMA EnteredIsBook ==
    ASSUME NEW b, IsBook(b), NEW month, NEW c, NEW after, NEW n \in {0, 1},
           NEW details, Len(details) = n
    PROVE  Adds(b, Compared!Entered(b, month, c, after, details), month, n)
<1> DEFINE e == Compared!Entered(b, month, c, after, details)
           net == IF details = <<2>> THEN b.paid[c] ELSE after
           rows == {<<month, c, after - b.paid[c], d>> : d \in Compared!Range(details)}
           late == IF net < month THEN {<<month, c>>} ELSE {}
<1>1. e = [population |-> b.population, approved |-> b.approved, contracts |-> b.contracts,
           paid |-> [b.paid EXCEPT ![c] = net], rows |-> b.rows \cup rows,
           late |-> b.late \cup late, read |-> b.read + 1 + Len(details)]
  <2> DEFINE n1 == Len(details)
  <2>1. e = Edited(b, c, net, rows, late, n1)
    BY Zenon DEF Compared!Entered, Edited
  <2> HIDE DEF rows, late, net, n1, e
  <2> QED BY <2>1, BookEdited DEF n1
<1>2. (\A r \in rows : r[1] = month) /\ \A l \in late : l[1] = month
  OBVIOUS
<1> HIDE DEF e, rows, late
<1>3. /\ e.population = b.population /\ e.approved = b.approved /\ e.contracts = b.contracts
      /\ e.rows = b.rows \cup rows /\ e.late = b.late \cup late /\ e.read = b.read + 1 + n
      /\ e.paid = [b.paid EXCEPT ![c] = net]
  BY <1>1
<1>4. IsBook(e)
  <2>1. e.read \in Nat
    BY <1>3 DEF IsBook
  <2>2. e = [population |-> e.population, approved |-> e.approved, contracts |-> e.contracts,
             paid |-> e.paid, rows |-> e.rows, late |-> e.late, read |-> e.read]
    BY <1>1
  <2> QED BY <2>1, <2>2 DEF IsBook
<1> QED BY <1>2, <1>3, <1>4 DEF e, Adds

(* The next moment of a run without a shock, when the tape is pay.         *)
Moment(b, month, left) == [book |-> b, month |-> month, left |-> left]
AfterDraw(m, draw) ==
    LET paid == m.book.paid[Head(m.left)]
    IN  IF paid < m.month - 1
        THEN IF draw < 1 THEN m.month ELSE paid
        ELSE IF draw < 2 THEN m.month ELSE paid
Details(pay, m) ==
    IF AfterDraw(m, pay[m.book.read + 1]) > m.book.paid[Head(m.left)]
    THEN <<pay[m.book.read + 2]>> ELSE <<>>
Successor(pay, m) ==
    IF m.left # <<>>
    THEN Moment(Compared!Entered(m.book, m.month, Head(m.left),
                                 AfterDraw(m, pay[m.book.read + 1]), Details(pay, m)),
                m.month, Tail(m.left))
    ELSE Moment(m.book, m.month + 1, Compared!Open(m.book))
IsLast(m) == m.left = <<>> /\ ~(m.month < SuiteMonths /\ m.month < SuiteTerm)

Earlier(S, month) == {r \in S : r[1] < month}
(* The moments of a run without a shock, from the first.                   *)
Story(pay, first, s, n) ==
    /\ n \in Nat /\ s[0] = first
    /\ \A i \in 1..n : s[i] = Successor(pay, s[i - 1]) /\ ~IsLast(s[i - 1])
    /\ \A i \in 0..n :
          /\ s[i] = Moment(s[i].book, s[i].month, s[i].left)
          /\ IsBook(s[i].book) /\ s[i].book.read <= Len(pay)
          /\ s[i].month \in Nat /\ s[i].month <= s[n].month
          /\ s[i].book.contracts = s[n].book.contracts
          /\ \A month \in Nat : month <= s[i].month =>
                /\ Earlier(s[i].book.rows, month) = Earlier(s[n].book.rows, month)
                /\ Earlier(s[i].book.late, month) = Earlier(s[n].book.late, month)

LEMMA StoryBegins ==
    ASSUME NEW pay, NEW first, first = Moment(first.book, first.month, first.left),
           IsBook(first.book), first.book.read <= Len(pay), first.month \in Nat
    PROVE  Story(pay, first, [i \in 0..0 |-> first], 0)
<1> DEFINE s == [i \in 0..0 |-> first]
<1>1. \A i \in 0..0 : i = 0 /\ s[i] = first
  OBVIOUS
<1>2. 1..0 = {}
  OBVIOUS
<1> HIDE DEF s
<1>3. Story(pay, first, s, 0)
  BY <1>1, <1>2 DEF Story
<1> QED BY <1>3 DEF s

(* A longer tape tells the same.                                           *)
Prefix(pay, longer) ==
    /\ pay \in Seq(Compared!Draws) /\ longer \in Seq(Compared!Draws) /\ Len(pay) <= Len(longer)
    /\ \A i \in 1..Len(pay) : longer[i] = pay[i]

LEMMA SuccessorOf ==
    ASSUME NEW pay, NEW m, IsBook(m.book), m.month \in Nat
    PROVE  LET t == Successor(pay, m)
           IN  /\ t = Moment(t.book, t.month, t.left) /\ IsBook(t.book)
               /\ t.book.contracts = m.book.contracts
               /\ t.month \in Nat /\ m.month <= t.month /\ t.month <= m.month + 1
               /\ \A month \in Nat : month <= m.month =>
                     /\ Earlier(t.book.rows, month) = Earlier(m.book.rows, month)
                     /\ Earlier(t.book.late, month) = Earlier(m.book.late, month)
               /\ m.left # <<>> => /\ Len(Details(pay, m)) \in {0, 1}
                                   /\ t.book.read = m.book.read + 1 + Len(Details(pay, m))
               /\ m.left = <<>> => t.book.read = m.book.read
<1> DEFINE t == Successor(pay, m)
<1>1. CASE m.left # <<>>
  <2> DEFINE after == AfterDraw(m, pay[m.book.read + 1])
             e == Compared!Entered(m.book, m.month, Head(m.left), after, Details(pay, m))
  <2>1. t = Moment(e, m.month, Tail(m.left))
    BY <1>1 DEF Successor
  <2>2. Len(Details(pay, m)) \in {0, 1}
    BY DEF Details
  <2>3. /\ IsBook(e) /\ e.read = m.book.read + 1 + Len(Details(pay, m))
        /\ e.contracts = m.book.contracts
        /\ m.book.rows \subseteq e.rows /\ \A r \in e.rows : r \in m.book.rows \/ r[1] = m.month
        /\ m.book.late \subseteq e.late /\ \A l \in e.late : l \in m.book.late \/ l[1] = m.month
    <3> DEFINE b == m.book
               c == Head(m.left)
               d == Details(pay, m)
               now == m.month
               n == Len(d)
    <3> HIDE DEF after, b, c, d, now, n
    <3>1. IsBook(b) /\ n \in {0, 1} /\ Len(d) = n
      BY <2>2 DEF b, d, n
    <3>2. Adds(b, Compared!Entered(b, now, c, after, d), now, n)
      BY <3>1, EnteredIsBook
    <3> QED BY <3>2 DEF b, c, d, now, n, Adds
  <2>4. t.book = e /\ t.month = m.month /\ t.left = Tail(m.left)
    BY <2>1 DEF Moment
  <2> HIDE DEF t, e, after
  <2>5. ASSUME NEW month \in Nat, month <= m.month
        PROVE  /\ Earlier(t.book.rows, month) = Earlier(m.book.rows, month)
               /\ Earlier(t.book.late, month) = Earlier(m.book.late, month)
    <3>1. ~(m.month < month)
      BY <2>5
    <3> QED BY <2>3, <2>4, <3>1 DEF Earlier
  <2> QED BY <1>1, <2>1, <2>2, <2>3, <2>4, <2>5 DEF t
<1>2. CASE m.left = <<>>
  <2>1. t = Moment(m.book, m.month + 1, Compared!Open(m.book))
    BY <1>2 DEF Successor
  <2>2. t.book = m.book /\ t.month = m.month + 1 /\ t.left = Compared!Open(m.book)
    BY <2>1 DEF Moment
  <2> HIDE DEF t
  <2> QED BY <1>2, <2>1, <2>2 DEF t
<1> QED BY <1>1, <1>2

LEMMA SuccessorStays ==
    ASSUME NEW pay, NEW longer, Prefix(pay, longer), NEW m, IsBook(m.book), m.month \in Nat,
           Successor(pay, m).book.read <= Len(pay)
    PROVE  Successor(longer, m) = Successor(pay, m)
<1>1. CASE m.left # <<>>
  <2> DEFINE k == m.book.read
             n == Len(pay)
  <2>0. k \in Nat /\ n \in Nat
    BY DEF IsBook, Prefix
  <2>1. Len(Details(pay, m)) \in {0, 1} /\ k + 1 + Len(Details(pay, m)) <= n
    BY <1>1, SuccessorOf
  <2> HIDE DEF n
  <2>2. k + 1 \in 1..n
    BY <2>0, <2>1
  <2>3. longer[k + 1] = pay[k + 1]
    BY <2>2 DEF Prefix, n
  <2>4. Details(longer, m) = Details(pay, m)
    <3>1. CASE AfterDraw(m, pay[k + 1]) > m.book.paid[Head(m.left)]
      <4>1. Details(pay, m) = <<pay[k + 2]>>
        BY <3>1 DEF Details
      <4>2. Len(Details(pay, m)) = 1
        BY <4>1
      <4>3. k + 2 \in 1..n
        BY <2>0, <2>1, <4>2
      <4>4. longer[k + 2] = pay[k + 2]
        BY <4>3 DEF Prefix, n
      <4> QED BY <2>3, <3>1, <4>1, <4>4 DEF Details
    <3>2. CASE ~(AfterDraw(m, pay[k + 1]) > m.book.paid[Head(m.left)])
      BY <2>3, <3>2 DEF Details
    <3> QED BY <3>1, <3>2
  <2> QED BY <1>1, <2>3, <2>4 DEF Successor
<1>2. CASE m.left = <<>>
  BY <1>2 DEF Successor
<1> QED BY <1>1, <1>2

LEMMA StoryStays ==
    ASSUME NEW pay, NEW longer, Prefix(pay, longer), NEW first, NEW s, NEW n, Story(pay, first, s, n)
    PROVE  Story(longer, first, s, n)
<1>1. ASSUME NEW i \in 1..n PROVE s[i] = Successor(longer, s[i - 1])
  <2>1. i \in 0..n /\ i - 1 \in 0..n /\ n \in Nat
    BY DEF Story
  <2>2. s[i] = Successor(pay, s[i - 1])
    BY DEF Story
  <2>3. IsBook(s[i - 1].book) /\ s[i - 1].month \in Nat /\ s[i].book.read <= Len(pay)
    BY <2>1 DEF Story
  <2> QED BY <2>2, <2>3, SuccessorStays
<1>2. \A i \in 0..n : s[i].book.read <= Len(longer)
  <2> SUFFICES ASSUME NEW i \in 0..n PROVE s[i].book.read <= Len(longer)
    OBVIOUS
  <2>1. s[i].book.read <= Len(pay) /\ s[i].book.read \in Nat
    BY DEF Story, IsBook
  <2>2. Len(pay) \in Nat /\ Len(longer) \in Nat /\ Len(pay) <= Len(longer)
    BY DEF Prefix
  <2> QED BY <2>1, <2>2
<1> QED BY <1>1, <1>2 DEF Story

Continued(s, n, m) == [i \in 0..(n + 1) |-> IF i = n + 1 THEN m ELSE s[i]]

LEMMA StoryGoesOn ==
    ASSUME NEW pay, NEW first, NEW s, NEW n, Story(pay, first, s, n), ~IsLast(s[n]),
           Successor(pay, s[n]).book.read <= Len(pay)
    PROVE  /\ Story(pay, first, Continued(s, n, Successor(pay, s[n])), n + 1)
           /\ Continued(s, n, Successor(pay, s[n]))[n + 1] = Successor(pay, s[n])
<1> DEFINE m == s[n]
           x == Successor(pay, m)
           t == Continued(s, n, x)
<1>1. n \in Nat /\ n \in 0..n /\ n + 1 \in Nat
  BY DEF Story
<1>2. IsBook(m.book) /\ m.month \in Nat
  BY <1>1 DEF Story
<1>3. /\ x = Moment(x.book, x.month, x.left) /\ IsBook(x.book)
      /\ x.book.contracts = m.book.contracts
      /\ x.month \in Nat /\ m.month <= x.month
      /\ \A month \in Nat : month <= m.month =>
            /\ Earlier(x.book.rows, month) = Earlier(m.book.rows, month)
            /\ Earlier(x.book.late, month) = Earlier(m.book.late, month)
  BY <1>2, SuccessorOf
<1>4. t[n + 1] = x /\ \A i \in 0..n : t[i] = s[i]
  BY <1>1 DEF Continued
<1> HIDE DEF t, m
<1>5. \A i \in 0..(n + 1) : i \in 0..n \/ i = n + 1
  BY <1>1
<1>6. t[0] = first
  BY <1>1, <1>4 DEF Story
<1>7. ASSUME NEW i \in 1..(n + 1) PROVE t[i] = Successor(pay, t[i - 1]) /\ ~IsLast(t[i - 1])
  <2>1. CASE i = n + 1
    <3>1. i - 1 = n
      BY <1>1, <2>1
    <3>2. t[i - 1] = m /\ t[i] = x
      BY <1>1, <1>4, <2>1, <3>1 DEF m
    <3> QED BY <3>2 DEF m
  <2>2. CASE i # n + 1
    <3>1. i \in 1..n /\ i \in 0..n /\ i - 1 \in 0..n
      BY <1>1, <2>2
    <3>2. t[i] = s[i] /\ t[i - 1] = s[i - 1]
      BY <1>4, <3>1
    <3> QED BY <3>1, <3>2 DEF Story
  <2> QED BY <2>1, <2>2
<1> HIDE DEF x
<1>8. ASSUME NEW i \in 0..(n + 1)
      PROVE  /\ t[i] = Moment(t[i].book, t[i].month, t[i].left)
             /\ IsBook(t[i].book) /\ t[i].book.read <= Len(pay)
             /\ t[i].month \in Nat /\ t[i].month <= t[n + 1].month
             /\ t[i].book.contracts = t[n + 1].book.contracts
             /\ \A month \in Nat : month <= t[i].month =>
                   /\ Earlier(t[i].book.rows, month) = Earlier(t[n + 1].book.rows, month)
                   /\ Earlier(t[i].book.late, month) = Earlier(t[n + 1].book.late, month)
  <2>1. CASE i = n + 1
    <3>1. x.book.read <= Len(pay)
      BY DEF x, m
    <3>2. t[i] = x /\ t[n + 1] = x
      BY <1>4, <2>1
    <3>3. x.month <= x.month
      BY <1>3
    <3> QED BY <1>3, <3>1, <3>2, <3>3
  <2>2. CASE i \in 0..n
    <3>1. t[i] = s[i] /\ t[n + 1] = x
      BY <1>4, <2>2
    <3>2. /\ s[i] = Moment(s[i].book, s[i].month, s[i].left)
          /\ IsBook(s[i].book) /\ s[i].book.read <= Len(pay)
          /\ s[i].month \in Nat /\ s[i].month <= m.month
          /\ s[i].book.contracts = m.book.contracts
          /\ \A month \in Nat : month <= s[i].month =>
                /\ Earlier(s[i].book.rows, month) = Earlier(m.book.rows, month)
                /\ Earlier(s[i].book.late, month) = Earlier(m.book.late, month)
      BY <2>2 DEF Story, m
    <3>3. s[i].month <= x.month
      BY <1>2, <1>3, <3>2
    <3>4. ASSUME NEW month \in Nat, month <= s[i].month
          PROVE  /\ Earlier(s[i].book.rows, month) = Earlier(x.book.rows, month)
                 /\ Earlier(s[i].book.late, month) = Earlier(x.book.late, month)
      <4>1. month <= m.month
        BY <1>2, <3>2, <3>4
      <4> QED BY <1>3, <3>2, <3>4, <4>1
    <3> QED BY <1>3, <3>1, <3>2, <3>3, <3>4
  <2> QED BY <1>5, <2>1, <2>2
<1>9. Story(pay, first, t, n + 1)
  BY <1>1, <1>6, <1>7, <1>8 DEF Story
<1> QED BY <1>4, <1>9 DEF t, x, m

(***************************************************************************)
(* Drawing.  The draws of the first run that a second run reads again are  *)
(* the same.                                                               *)
(***************************************************************************)
LEMMA DrawnFirst ==
    ASSUME NEW S, NEW n \in Nat, NEW s \in Compared!NextDraws(<<>>, 0, n, S)
    PROVE  s \in [1..n -> S] /\ Len(s) = n /\ Compared!Extended(<<>>, 0, s) = s
<1>1. s \in [1..n -> S]
  BY DEF Compared!NextDraws
<1>2. s \in Seq(S) /\ Len(s) = n
  BY <1>1, FunctionIsSeq
<1>3. Compared!Extended(<<>>, 0, s) = s
  <2>1. CASE n = 0
    <3>1. s = <<>>
      BY <1>2, <2>1
    <3> QED BY <3>1 DEF Compared!Extended
  <2>2. CASE n # 0
    <3>1. Compared!Extended(<<>>, 0, s) = SubSeq(<<>>, 1, 0) \o s
      BY <1>2, <2>2 DEF Compared!Extended
    <3>2. SubSeq(<<>>, 1, 0) = <<>>
      OBVIOUS
    <3>3. <<>> \o s = s
      BY <1>2
    <3> QED BY <3>1, <3>2, <3>3
  <2> QED BY <2>1, <2>2
<1> QED BY <1>1, <1>2, <1>3

LEMMA DrawnAgain ==
    ASSUME NEW S, NEW n \in Nat, NEW stream \in [1..n -> S], NEW s \in Compared!NextDraws(stream, 0, n, S)
    PROVE  s = stream /\ Compared!Extended(stream, 0, s) = stream
<1>1. Len(stream) = n
  BY FunctionIsSeq
<1>2. s \in [1..n -> S] /\ \A i \in 1..n : 0 + i <= n => s[i] = stream[0 + i]
  BY <1>1 DEF Compared!NextDraws
<1>3. s = stream
  BY <1>2
<1>4. Compared!Extended(stream, 0, s) = stream
  BY <1>1, <1>3 DEF Compared!Extended
<1> QED BY <1>3, <1>4

LEMMA Joined ==
    ASSUME NEW S, NEW a \in Seq(S), NEW b \in Seq(S)
    PROVE  /\ a \o b \in Seq(S) /\ Len(a \o b) = Len(a) + Len(b)
           /\ \A i \in 1..(Len(a) + Len(b)) : (a \o b)[i] = IF i <= Len(a) THEN a[i] ELSE b[i - Len(a)]
OBVIOUS

ReadFrom(stream, k, n, first, details, longer) ==
    /\ Prefix(stream, longer) /\ k + 1 + n <= Len(longer)
    /\ longer[k + 1] = first[1]
    /\ n = 1 => longer[k + 2] = details[1]
    /\ Len(details) = n
    /\ k = Len(stream) => Len(longer) = k + 1 + n

LEMMA DrawnNext ==
    ASSUME NEW stream \in Seq(Compared!Draws), NEW k \in Nat, k <= Len(stream), NEW n \in {0, 1},
           NEW first \in Compared!NextDraws(stream, k, 1, Compared!Draws),
           NEW details \in Compared!NextDraws(stream, k + 1, n, Compared!Draws)
    PROVE  ReadFrom(stream, k, n, first, details, Compared!Extended(stream, k, first \o details))
<1> DEFINE D == Compared!Draws
           x == first \o details
           longer == Compared!Extended(stream, k, x)
           N == Len(stream)
<1>1. /\ first \in [1..1 -> D] /\ details \in [1..n -> D] /\ N \in Nat
      /\ k + 1 <= N => first[1] = stream[k + 1]
      /\ n = 1 /\ k + 2 <= N => details[1] = stream[k + 2]
  <2>1. first \in [1..1 -> D] /\ \A i \in 1..1 : k + i <= N => first[i] = stream[k + i]
    BY DEF Compared!NextDraws
  <2>2. details \in [1..n -> D] /\ \A i \in 1..n : k + 1 + i <= N => details[i] = stream[k + 1 + i]
    BY DEF Compared!NextDraws
  <2>3. n = 1 => 1 \in 1..n /\ k + 1 + 1 = k + 2
    OBVIOUS
  <2> QED BY <2>1, <2>2, <2>3
<1> HIDE DEF D
<1>2. first \in Seq(D) /\ Len(first) = 1 /\ details \in Seq(D) /\ Len(details) = n
  BY <1>1, FunctionIsSeq
<1>3. /\ x \in Seq(D) /\ Len(x) = 1 + n
      /\ \A i \in 1..(1 + n) : x[i] = IF i <= 1 THEN first[i] ELSE details[i - 1]
  <2> DEFINE a == first
             b == details
  <2> HIDE DEF a, b
  <2>1. a \in Seq(D) /\ b \in Seq(D)
    BY <1>2 DEF a, b
  <2>2. /\ a \o b \in Seq(D) /\ Len(a \o b) = Len(a) + Len(b)
        /\ \A i \in 1..(Len(a) + Len(b)) : (a \o b)[i] = IF i <= Len(a) THEN a[i] ELSE b[i - Len(a)]
    BY <2>1, Joined
  <2>3. x = a \o b
    BY DEF a, b
  <2> HIDE DEF x
  <2> QED BY <1>2, <2>2, <2>3 DEF a, b
<1> HIDE DEF x
<1>4. x[1] = first[1] /\ (n = 1 => x[2] = details[1])
  BY <1>3
<1>5. \A i \in 1..(1 + n) : k + i <= N => x[i] = stream[k + i]
  <2> SUFFICES ASSUME NEW i \in 1..(1 + n), k + i <= N PROVE x[i] = stream[k + i]
    OBVIOUS
  <2>1. i = 1 \/ (n = 1 /\ i = 2)
    OBVIOUS
  <2> QED BY <1>1, <1>4, <2>1
<1>6. CASE k + Len(x) > N
  <2> DEFINE head == SubSeq(stream, 1, k)
  <2>1. longer = head \o x
    BY <1>6 DEF Compared!Extended
  <2>2. head \in Seq(D) /\ Len(head) = k /\ \A i \in 1..k : head[i] = stream[i]
    BY DEF D
  <2> HIDE DEF head
  <2>3. /\ longer \in Seq(D) /\ Len(longer) = k + (1 + n)
        /\ \A i \in 1..(k + (1 + n)) : longer[i] = IF i <= k THEN head[i] ELSE x[i - k]
    BY <1>3, <2>1, <2>2, Joined
  <2> HIDE DEF longer
  <2>4. N <= k + (1 + n)
    BY <1>1, <1>3, <1>6
  <2>5. ASSUME NEW i \in 1..N PROVE longer[i] = stream[i]
    <3>1. CASE i <= k
      BY <1>1, <2>2, <2>3, <2>4, <3>1
    <3>2. CASE ~(i <= k)
      <4>1. i - k \in 1..(1 + n) /\ k + (i - k) = i /\ i \in 1..(k + (1 + n))
        BY <1>1, <2>4, <3>2
      <4>2. x[i - k] = stream[i]
        BY <1>1, <1>5, <4>1
      <4> QED BY <2>3, <3>2, <4>1, <4>2
    <3> QED BY <3>1, <3>2
  <2>6. longer[k + 1] = x[1] /\ (n = 1 => longer[k + 2] = x[2])
    <3>1. k + 1 \in 1..(k + (1 + n)) /\ ~(k + 1 <= k) /\ (k + 1) - k = 1
      OBVIOUS
    <3>2. n = 1 => k + 2 \in 1..(k + (1 + n)) /\ ~(k + 2 <= k) /\ (k + 2) - k = 2
      OBVIOUS
    <3> QED BY <2>3, <3>1, <3>2
  <2>7. Prefix(stream, longer)
    BY <2>3, <2>4, <2>5 DEF Prefix, D
  <2>8. k + (1 + n) = k + 1 + n
    OBVIOUS
  <2> QED BY <1>2, <1>4, <2>3, <2>6, <2>7, <2>8 DEF longer, x, ReadFrom
<1>7. CASE ~(k + Len(x) > N)
  <2>1. longer = stream
    BY <1>7 DEF Compared!Extended
  <2>2. k + (1 + n) <= N
    BY <1>1, <1>3, <1>7
  <2>3. stream[k + 1] = x[1] /\ (n = 1 => stream[k + 2] = x[2])
    <3>1. 1 \in 1..(1 + n) /\ k + 1 <= N
      BY <1>1, <2>2
    <3>2. n = 1 => 2 \in 1..(1 + n) /\ k + 2 <= N
      BY <1>1, <2>2
    <3> QED BY <1>5, <3>1, <3>2
  <2>4. Prefix(stream, stream)
    BY <1>1 DEF Prefix
  <2>5. k + 1 + n <= N /\ k # N
    BY <1>1, <2>2
  <2> HIDE DEF longer
  <2> QED BY <1>2, <1>4, <2>1, <2>3, <2>4, <2>5 DEF longer, x, ReadFrom
<1> QED BY <1>6, <1>7

(***************************************************************************)
(* A suite.  What was drawn for the baseline decides who is approved in    *)
(* both runs; under a shock it decides everything before it, so that the   *)
(* scenario is where the baseline has been.                                *)
(***************************************************************************)
SuiteRuns == {"baseline", "scenario"}
CutoffOf(w) == IF w = "baseline" THEN 1 ELSE scenario.cutoff
Decided(cancel) == {i \in 1..SuiteCustomers : cancel[i] # 0}
Passing(cutoff, cancel, score) == {i \in Decided(cancel) : score[Compared!Nth(Decided(cancel), i)] >= cutoff}
BaselineIds(S) == {<<"baseline", i>> : i \in S}

(* What originate leaves in a book, and where the payments start.          *)
Founded(cutoff, cancel, score, coin) ==
    [population |-> BaselineIds(1..SuiteCustomers), approved |-> BaselineIds(Passing(cutoff, cancel, score)),
     contracts |-> Compared!Booked(Passing(cutoff, cancel, score), coin),
     paid |-> [i \in Compared!Range(Compared!Booked(Passing(cutoff, cancel, score), coin)) |-> 0],
     rows |-> {}, late |-> {}, read |-> 0]
StartOf(b) == Moment(b, 1, b.contracts)

IsTape(t) ==
    /\ t = [applications |-> t.applications, decisions |-> t.decisions,
            booking |-> t.booking, payments |-> t.payments]
    /\ t.payments \in Seq(Compared!Draws)
Decisions(cancel, score) ==
    /\ cancel \in [1..SuiteCustomers -> Compared!Coins]
    /\ score \in [1..Cardinality(Decided(cancel)) -> Compared!Draws]
Bookings(cancel, score, coin) ==
    coin \in [1..Cardinality(Passing(1, cancel, score)) -> Compared!Coins]

(* The baseline's draws up to its contracts are those on the tape.         *)
Drawn ==
    /\ Decisions(tape.applications, tape.decisions)
    /\ Bookings(tape.applications, tape.decisions, tape.booking)
    /\ book["baseline"].population = BaselineIds(1..SuiteCustomers)
    /\ book["baseline"].approved = BaselineIds(Passing(1, tape.applications, tape.decisions))
Start == StartOf(Founded(1, tape.applications, tape.decisions, tape.booking))

(* The two runs are of one population, and approve in the order of their   *)
(* cutoffs.                                                                *)
Comparable ==
    /\ book["baseline"].population = book["scenario"].population
    /\ \A w \in SuiteRuns : book[w].approved \subseteq BaselineIds(1..SuiteCustomers)
    /\ scenario.name = "policy_expansion" => book["baseline"].approved \subseteq book["scenario"].approved
    /\ scenario.name = "policy_tightening" => book["scenario"].approved \subseteq book["baseline"].approved

InPay(w) ==
    /\ suiteAt = [phase |-> "pay", run |-> w, month |-> suiteAt.month, left |-> suiteAt.left]
    /\ suiteAt.month \in Nat
    /\ book[w].read <= Len(tape.payments)
Turned == suiteAt = [phase |-> "originate", run |-> "scenario"]
Now(w) == Moment(book[w], suiteAt.month, suiteAt.left)

(* Where the runs stand on the story the tape tells without a shock.       *)
BaselineTold ==
    \E s, n : /\ Story(tape.payments, Start, s, n)
              /\ s[n] = Now("baseline") /\ Len(tape.payments) = book["baseline"].read
BaselineEnded ==
    \E s, n : Story(tape.payments, Start, s, n) /\ s[n].book = book["baseline"] /\ IsLast(s[n])
ScenarioFollows ==
    \E s, n : /\ Story(tape.payments, s[0], s, n) /\ s[n].book = book["baseline"] /\ IsLast(s[n])
              /\ \E k \in 0..n : s[k] = Now("scenario")
SameUntil(month) ==
    /\ book["scenario"].contracts = book["baseline"].contracts
    /\ Earlier(book["scenario"].rows, month) = Earlier(book["baseline"].rows, month)
    /\ Earlier(book["scenario"].late, month) = Earlier(book["baseline"].late, month)

Deltas ==
    {d \in [approvals : Int, preShock : [identical : BOOLEAN]] :
        /\ scenario.name = "policy_expansion" => d.approvals >= 0
        /\ scenario.name = "policy_tightening" => d.approvals <= 0
        /\ scenario.shock # 0 => d.preShock.identical}

Stands ==
    \/ suiteAt = [phase |-> "refused"]
    \/ /\ suiteAt = [phase |-> "originate", run |-> "baseline"]
       /\ tape = Compared!NoTape /\ book = [w \in SuiteRuns |-> Compared!NoBook]
    \/ InPay("baseline") /\ Drawn /\ book["scenario"] = Compared!NoBook
    \/ Turned /\ Drawn /\ book["scenario"] = Compared!NoBook
    \/ InPay("scenario") /\ Comparable
    \/ suiteAt = [phase |-> "compare"] /\ Comparable
    \/ suiteAt = [phase |-> "done"]
    \/ suiteAt = [phase |-> "summarized", robustness |-> Compared!Robustness]
Remembers ==
    /\ InPay("baseline") => BaselineTold
    /\ Turned => BaselineEnded
    /\ InPay("scenario") => IF suiteAt.month < scenario.shock THEN ScenarioFollows
                                                              ELSE SameUntil(scenario.shock)
    /\ suiteAt = [phase |-> "compare"] => SameUntil(scenario.shock)

SuiteTypes ==
    /\ scenario \in SuiteConfigs
    /\ book = [w \in SuiteRuns |-> book[w]] /\ \A w \in SuiteRuns : IsBook(book[w])
    /\ IsTape(tape)
    /\ deltas \in Seq(Deltas)
    /\ suiteReport.written => suiteReport.crn /\ suiteReport.checks
SuiteInv == SuiteTypes /\ Stands /\ (scenario.shock # 0 => Remembers)

-----------------------------------------------------------------------------
LEMMA NothingIsBook == IsBook(Compared!NoBook) /\ IsTape(Compared!NoTape)
BY DEF IsBook, IsTape, Compared!NoBook, Compared!NoTape

LEMMA FoundedIsBook ==
    ASSUME NEW cutoff, NEW cancel, NEW score, NEW coin
    PROVE  LET b == Founded(cutoff, cancel, score, coin)
           IN  /\ IsBook(b) /\ b.population = BaselineIds(1..SuiteCustomers)
               /\ b.approved = BaselineIds(Passing(cutoff, cancel, score)) /\ b.read = 0
BY DEF IsBook, Founded

LEMMA DecidedPart ==
    ASSUME NEW cutoff, NEW cancel, NEW score
    PROVE  /\ Decided(cancel) \subseteq 1..SuiteCustomers
           /\ Passing(cutoff, cancel, score) \subseteq Decided(cancel)
           /\ Cardinality(Decided(cancel)) \in Nat
           /\ Cardinality(Passing(cutoff, cancel, score)) \in Nat
<1>1. Decided(cancel) \subseteq 1..SuiteCustomers /\ Passing(cutoff, cancel, score) \subseteq Decided(cancel)
  BY DEF Decided, Passing
<1>2. SuiteCustomers \in Nat
  BY SuiteConstants
<1>3. Decided(cancel) \in SUBSET (1..SuiteCustomers) /\ Passing(cutoff, cancel, score) \in SUBSET (1..SuiteCustomers)
  BY <1>1
<1>4. \A n \in Nat : \A k \in 0..n : k \in Nat
  OBVIOUS
<1> QED BY <1>1, <1>2, <1>3, <1>4, CountOfPart

(* A lower cutoff approves no less.                                        *)
LEMMA NthIsIndex ==
    ASSUME NEW n \in Nat, NEW S \in SUBSET (1..n), NEW i \in S
    PROVE  Compared!Nth(S, i) \in 1..Cardinality(S)
<1> DEFINE T == {j \in S : j <= i}
<1>0. i \in 1..n /\ i <= i
  OBVIOUS
<1>1. T \in SUBSET S /\ i \in T /\ T \in SUBSET (1..n)
  BY <1>0
<1>2. IsFiniteSet(S) /\ IsFiniteSet(T) /\ Cardinality(S) \in Nat /\ Cardinality(T) \in Nat
  BY <1>1, CountOfPart, FS_CardinalityType
<1>3. Compared!Nth(S, i) = Cardinality(T)
  BY ComparedCardinality DEF Compared!Nth
<1> HIDE DEF T
<1>4. Cardinality(T) <= Cardinality(S)
  BY <1>1, <1>2, FS_Subset
<1>5. Cardinality(T) # 0
  BY <1>1, <1>2, FS_EmptySet
<1> QED BY <1>2, <1>3, <1>4, <1>5

LEMMA LowerCutoffPassesMore ==
    ASSUME NEW a \in Int, NEW b \in Int, a <= b, NEW cancel, NEW score, Decisions(cancel, score)
    PROVE  Passing(b, cancel, score) \subseteq Passing(a, cancel, score)
<1> SUFFICES ASSUME NEW i \in Passing(b, cancel, score) PROVE i \in Passing(a, cancel, score)
  OBVIOUS
<1> DEFINE S == Decided(cancel)
           k == Compared!Nth(S, i)
<1>1. i \in S /\ score[k] >= b
  BY DEF Passing
<1>2. SuiteCustomers \in Nat /\ S \in SUBSET (1..SuiteCustomers)
  BY SuiteConstants, DecidedPart
<1>3. k \in 1..Cardinality(S)
  BY <1>1, <1>2, NthIsIndex
<1> HIDE DEF k, S
<1>4. score[k] \in Int
  BY <1>3 DEF Decisions, Compared!Draws, S
<1>5. score[k] >= a
  BY <1>1, <1>4
<1> QED BY <1>1, <1>5 DEF Passing, k, S

LEMMA SuiteBegins ==
    ASSUME Compared!CommonInit
    PROVE  SuiteInv
<1>1. scenario \in SuiteConfigs /\ tape = Compared!NoTape /\ book = [w \in SuiteRuns |-> Compared!NoBook]
  BY DEF Compared!CommonInit, Compared!Runs, SuiteRuns
<1>2. suiteAt = [phase |-> "originate", run |-> "baseline"] /\ ~suiteReport.written /\ deltas = <<>>
  BY DEF Compared!CommonInit, Compared!Ready
<1>3. SuiteTypes
  BY <1>1, <1>2, NothingIsBook DEF SuiteTypes
<1>4. Stands
  BY <1>1, <1>2 DEF Stands
<1>5. Remembers
  BY <1>2 DEF Remembers, InPay, Turned
<1> QED BY <1>3, <1>4, <1>5 DEF SuiteInv

-----------------------------------------------------------------------------
(***************************************************************************)
(* What originate does to a suite.                                         *)
(***************************************************************************)
TapeOf(cancel, score, coin) ==
    [applications |-> Compared!Extended(tape.applications, 0, cancel),
     decisions |-> Compared!Extended(tape.decisions, 0, score),
     booking |-> Compared!Extended(tape.booking, 0, coin), payments |-> tape.payments]
Originates(w, cancel, score, coin) ==
    /\ cancel \in Compared!NextDraws(tape.applications, 0, SuiteCustomers, Compared!Coins)
    /\ score \in Compared!NextDraws(tape.decisions, 0, Cardinality(Decided(cancel)), Compared!Draws)
    /\ coin \in Compared!NextDraws(tape.booking, 0, Cardinality(Passing(CutoffOf(w), cancel, score)), Compared!Coins)
    /\ book' = [book EXCEPT ![w] = Founded(CutoffOf(w), cancel, score, coin)]
    /\ tape' = TapeOf(cancel, score, coin)
    /\ suiteAt' = [phase |-> "pay", run |-> w, month |-> 1,
                   left |-> Compared!Booked(Passing(CutoffOf(w), cancel, score), coin)]
    /\ UNCHANGED <<scenario, suiteReport, deltas>>

LEMMA BookFilled ==
    ASSUME NEW b, IsBook(b), NEW population, NEW approved, NEW contracts, NEW paid
    PROVE  [b EXCEPT !.population = population, !.approved = approved,
                     !.contracts = contracts, !.paid = paid]
           = [population |-> population, approved |-> approved, contracts |-> contracts,
              paid |-> paid, rows |-> b.rows, late |-> b.late, read |-> b.read]
<1> DEFINE q1 == [b EXCEPT !.population = population]
           q2 == [q1 EXCEPT !.approved = approved]
           q3 == [q2 EXCEPT !.contracts = contracts]
           q4 == [q3 EXCEPT !.paid = paid]
<1>1. [b EXCEPT !.population = population, !.approved = approved,
                !.contracts = contracts, !.paid = paid] = q4
  BY Zenon
<1>2. q1 = [population |-> population, approved |-> b.approved, contracts |-> b.contracts, paid |-> b.paid,
            rows |-> b.rows, late |-> b.late, read |-> b.read]
  BY DEF IsBook
<1> HIDE DEF q1
<1>3. q2 = [population |-> population, approved |-> approved, contracts |-> b.contracts, paid |-> b.paid,
            rows |-> b.rows, late |-> b.late, read |-> b.read]
  BY <1>2
<1> HIDE DEF q2
<1>4. q3 = [population |-> population, approved |-> approved, contracts |-> contracts, paid |-> b.paid,
            rows |-> b.rows, late |-> b.late, read |-> b.read]
  BY <1>3
<1> HIDE DEF q3
<1>5. q4 = [population |-> population, approved |-> approved, contracts |-> contracts, paid |-> paid,
            rows |-> b.rows, late |-> b.late, read |-> b.read]
  BY <1>4
<1> HIDE DEF q4
<1> QED BY <1>1, <1>5, Zenon

LEMMA Taped ==
    ASSUME NEW t, IsTape(t), NEW a, NEW b, NEW c
    PROVE  [t EXCEPT !.applications = Compared!Extended(@, 0, a), !.decisions = Compared!Extended(@, 0, b),
                     !.booking = Compared!Extended(@, 0, c)]
           = [applications |-> Compared!Extended(t.applications, 0, a),
              decisions |-> Compared!Extended(t.decisions, 0, b),
              booking |-> Compared!Extended(t.booking, 0, c), payments |-> t.payments]
<1> DEFINE x == Compared!Extended(t.applications, 0, a)
           y == Compared!Extended(t.decisions, 0, b)
           z == Compared!Extended(t.booking, 0, c)
           q1 == [t EXCEPT !.applications = x]
           q2 == [q1 EXCEPT !.decisions = y]
           q3 == [q2 EXCEPT !.booking = z]
<1>1. [t EXCEPT !.applications = Compared!Extended(@, 0, a), !.decisions = Compared!Extended(@, 0, b),
                !.booking = Compared!Extended(@, 0, c)] = q3
  BY Zenon
<1> HIDE DEF x, y, z
<1>2. q1 = [applications |-> x, decisions |-> t.decisions, booking |-> t.booking, payments |-> t.payments]
  BY DEF IsTape
<1> HIDE DEF q1
<1>3. q2 = [applications |-> x, decisions |-> y, booking |-> t.booking, payments |-> t.payments]
  BY <1>2
<1> HIDE DEF q2
<1>4. q3 = [applications |-> x, decisions |-> y, booking |-> z, payments |-> t.payments]
  BY <1>3
<1> HIDE DEF q3
<1> QED BY <1>1, <1>4, Zenon DEF x, y, z

LEMMA Originating ==
    ASSUME SuiteTypes, Compared!Originate, NEW w \in SuiteRuns, suiteAt = [phase |-> "originate", run |-> w]
    PROVE  \E cancel, score, coin : Originates(w, cancel, score, coin)
<1>1. suiteAt.run = w /\ Compared!Config(w).crn
  BY DEF Compared!Originate
<1>2. Compared!Size(w) = SuiteCustomers
  BY <1>1 DEF Compared!Size
<1>3. Compared!Ids(w) = BaselineIds(1..SuiteCustomers)
  BY <1>2 DEF Compared!Ids, BaselineIds, Compared!PopulationHash, Compared!Baseline
<1>4. Compared!Config(w).cutoff = CutoffOf(w)
  BY DEF Compared!Config, CutoffOf, SuiteRuns, Compared!Baseline
<1> DEFINE run == suiteAt.run
<1>5. PICK cancel \in Compared!NextDraws(tape.applications, 0, Compared!Size(run), Compared!Coins) :
      \E score \in Compared!NextDraws(tape.decisions, 0, Compared!Cardinality(Compared!Decidable(run, cancel)),
                                      Compared!Draws) :
      \E coin \in Compared!NextDraws(tape.booking, 0,
              Compared!Cardinality(Compared!Approved(run, Compared!Decidable(run, cancel), score)), Compared!Coins) :
      LET approved == Compared!Approved(run, Compared!Decidable(run, cancel), score)
          booked == Compared!Booked(approved, coin) IN
          /\ book' = [book EXCEPT ![run] =
                 [Compared!NoBook EXCEPT !.population = Compared!Ids(run),
                                !.approved = {<<Compared!PopulationHash(run), i>> : i \in approved},
                                !.contracts = booked, !.paid = [i \in Compared!Range(booked) |-> 0]]]
          /\ tape' = [tape EXCEPT !.applications = Compared!Extended(@, 0, cancel),
                                  !.decisions = Compared!Extended(@, 0, score),
                                  !.booking = Compared!Extended(@, 0, coin)]
          /\ suiteAt' = [phase |-> "pay", run |-> run, month |-> 1, left |-> booked]
  BY Zenon DEF Compared!Originate
<1> DEFINE decidable == Compared!Decidable(run, cancel)
<1>6. PICK score \in Compared!NextDraws(tape.decisions, 0, Compared!Cardinality(decidable), Compared!Draws) :
      \E coin \in Compared!NextDraws(tape.booking, 0,
              Compared!Cardinality(Compared!Approved(run, decidable, score)), Compared!Coins) :
      LET approved == Compared!Approved(run, decidable, score)
          booked == Compared!Booked(approved, coin) IN
          /\ book' = [book EXCEPT ![run] =
                 [Compared!NoBook EXCEPT !.population = Compared!Ids(run),
                                !.approved = {<<Compared!PopulationHash(run), i>> : i \in approved},
                                !.contracts = booked, !.paid = [i \in Compared!Range(booked) |-> 0]]]
          /\ tape' = [tape EXCEPT !.applications = Compared!Extended(@, 0, cancel),
                                  !.decisions = Compared!Extended(@, 0, score),
                                  !.booking = Compared!Extended(@, 0, coin)]
          /\ suiteAt' = [phase |-> "pay", run |-> run, month |-> 1, left |-> booked]
  BY <1>5, Zenon
<1> DEFINE passed == Compared!Approved(run, decidable, score)
<1>7. PICK coin \in Compared!NextDraws(tape.booking, 0, Compared!Cardinality(passed), Compared!Coins) :
          /\ book' = [book EXCEPT ![run] =
                 [Compared!NoBook EXCEPT !.population = Compared!Ids(run),
                                !.approved = {<<Compared!PopulationHash(run), i>> : i \in passed},
                                !.contracts = Compared!Booked(passed, coin),
                                !.paid = [i \in Compared!Range(Compared!Booked(passed, coin)) |-> 0]]]
          /\ tape' = [tape EXCEPT !.applications = Compared!Extended(@, 0, cancel),
                                  !.decisions = Compared!Extended(@, 0, score),
                                  !.booking = Compared!Extended(@, 0, coin)]
          /\ suiteAt' = [phase |-> "pay", run |-> run, month |-> 1, left |-> Compared!Booked(passed, coin)]
  BY <1>6, Zenon
<1>8. decidable = Decided(cancel)
  BY <1>1, <1>2 DEF Compared!Decidable, Decided
<1>9. passed = Passing(CutoffOf(w), cancel, score)
  <2> HIDE DEF decidable
  <2> QED BY <1>1, <1>4, <1>8 DEF Compared!Approved, Passing
<1> DEFINE booked == Compared!Booked(passed, coin)
           paid == [i \in Compared!Range(booked) |-> 0]
           approved == {<<Compared!PopulationHash(run), i>> : i \in passed}
           population == Compared!Ids(run)
           b == [Compared!NoBook EXCEPT !.population = population, !.approved = approved,
                                        !.contracts = booked, !.paid = paid]
<1>10. book' = [book EXCEPT ![run] = b] /\ suiteAt' = [phase |-> "pay", run |-> run, month |-> 1, left |-> booked]
  BY <1>7, Zenon
<1>11. b = Founded(CutoffOf(w), cancel, score, coin)
  <2>1. b = [population |-> population, approved |-> approved, contracts |-> booked,
             paid |-> paid, rows |-> {}, late |-> {}, read |-> 0]
    <3> DEFINE none == Compared!NoBook
    <3>1. IsBook(none) /\ none.rows = {} /\ none.late = {} /\ none.read = 0
      BY NothingIsBook DEF Compared!NoBook
    <3> HIDE DEF population, approved, booked, paid, none
    <3>2. [none EXCEPT !.population = population, !.approved = approved,
                       !.contracts = booked, !.paid = paid]
          = [population |-> population, approved |-> approved, contracts |-> booked,
             paid |-> paid, rows |-> none.rows, late |-> none.late, read |-> none.read]
      BY <3>1, BookFilled
    <3> QED BY <3>1, <3>2, Zenon DEF none, b
  <2>2. population = BaselineIds(1..SuiteCustomers)
    BY <1>1, <1>3
  <2>3. approved = BaselineIds(passed)
    BY DEF BaselineIds, Compared!PopulationHash, Compared!Baseline
  <2> HIDE DEF population, approved, passed, b
  <2> QED BY <1>9, <2>1, <2>2, <2>3, Zenon DEF Founded
<1>12. tape' = TapeOf(cancel, score, coin)
  <2>1. tape' = [tape EXCEPT !.applications = Compared!Extended(@, 0, cancel),
                             !.decisions = Compared!Extended(@, 0, score),
                             !.booking = Compared!Extended(@, 0, coin)]
    BY <1>7, Zenon
  <2>2. IsTape(tape)
    BY DEF SuiteTypes
  <2> QED BY <2>1, <2>2, Taped, Zenon DEF TapeOf
<1>13. UNCHANGED <<scenario, suiteReport, deltas>>
  BY DEF Compared!Originate
<1>14. Originates(w, cancel, score, coin)
  <2>1. cancel \in Compared!NextDraws(tape.applications, 0, SuiteCustomers, Compared!Coins)
    BY <1>1, <1>2, <1>5
  <2>2. score \in Compared!NextDraws(tape.decisions, 0, Cardinality(Decided(cancel)), Compared!Draws)
    BY <1>6, <1>8, ComparedCardinality
  <2>3. coin \in Compared!NextDraws(tape.booking, 0, Cardinality(Passing(CutoffOf(w), cancel, score)), Compared!Coins)
    BY <1>7, <1>9, ComparedCardinality
  <2>4. book' = [book EXCEPT ![w] = Founded(CutoffOf(w), cancel, score, coin)]
    BY <1>1, <1>10, <1>11, Zenon
  <2>5. suiteAt' = [phase |-> "pay", run |-> w, month |-> 1,
                    left |-> Compared!Booked(Passing(CutoffOf(w), cancel, score), coin)]
    BY <1>1, <1>9, <1>10, Zenon
  <2> QED BY <1>12, <1>13, <2>1, <2>2, <2>3, <2>4, <2>5, Zenon DEF Originates
<1> QED BY <1>14

(* Moments of one story agree on what is before them.                      *)
LEMMA SameBefore ==
    ASSUME NEW pay, NEW first, NEW s, NEW n, Story(pay, first, s, n), NEW k \in 0..n,
           NEW month \in Nat, month <= s[k].month
    PROVE  /\ s[k].book.contracts = s[n].book.contracts
           /\ Earlier(s[k].book.rows, month) = Earlier(s[n].book.rows, month)
           /\ Earlier(s[k].book.late, month) = Earlier(s[n].book.late, month)
BY DEF Story

LEMMA BaselineOriginates ==
    ASSUME SuiteTypes, suiteAt = [phase |-> "originate", run |-> "baseline"], tape = Compared!NoTape,
           book = [w \in SuiteRuns |-> Compared!NoBook], Compared!Originate
    PROVE  SuiteInv'
<1>1. PICK cancel, score, coin : Originates("baseline", cancel, score, coin)
  BY Originating DEF SuiteRuns
<1> DEFINE b == Founded(1, cancel, score, coin)
<1>2. CutoffOf("baseline") = 1
  BY DEF CutoffOf
<1>3. /\ tape.applications = <<>> /\ tape.decisions = <<>> /\ tape.booking = <<>> /\ tape.payments = <<>>
      /\ SuiteCustomers \in Nat /\ Cardinality(Decided(cancel)) \in Nat
      /\ Cardinality(Passing(1, cancel, score)) \in Nat
  BY SuiteConstants, DecidedPart DEF Compared!NoTape
<1>4. Decisions(cancel, score) /\ Bookings(cancel, score, coin)
      /\ tape' = [applications |-> cancel, decisions |-> score, booking |-> coin, payments |-> <<>>]
  <2>1. /\ cancel \in Compared!NextDraws(<<>>, 0, SuiteCustomers, Compared!Coins)
        /\ score \in Compared!NextDraws(<<>>, 0, Cardinality(Decided(cancel)), Compared!Draws)
        /\ coin \in Compared!NextDraws(<<>>, 0, Cardinality(Passing(1, cancel, score)), Compared!Coins)
        /\ tape' = [applications |-> Compared!Extended(<<>>, 0, cancel),
                    decisions |-> Compared!Extended(<<>>, 0, score),
                    booking |-> Compared!Extended(<<>>, 0, coin), payments |-> <<>>]
    BY <1>1, <1>2, <1>3, Zenon DEF Originates, TapeOf
  <2>2. /\ cancel \in [1..SuiteCustomers -> Compared!Coins]
        /\ Compared!Extended(<<>>, 0, cancel) = cancel
    BY <1>3, <2>1, DrawnFirst
  <2>3. /\ score \in [1..Cardinality(Decided(cancel)) -> Compared!Draws]
        /\ Compared!Extended(<<>>, 0, score) = score
    BY <1>3, <2>1, DrawnFirst
  <2>4. /\ coin \in [1..Cardinality(Passing(1, cancel, score)) -> Compared!Coins]
        /\ Compared!Extended(<<>>, 0, coin) = coin
    BY <1>3, <2>1, DrawnFirst
  <2> QED BY <2>1, <2>2, <2>3, <2>4 DEF Decisions, Bookings
<1>5. book' = [book EXCEPT !["baseline"] = b]
  BY <1>1, <1>2, Zenon DEF Originates
<1>6. IsBook(b) /\ b.population = BaselineIds(1..SuiteCustomers)
      /\ b.approved = BaselineIds(Passing(1, cancel, score)) /\ b.read = 0
  BY FoundedIsBook
<1>7. suiteAt' = [phase |-> "pay", run |-> "baseline", month |-> 1, left |-> b.contracts]
  BY <1>1, <1>2 DEF Originates, Founded
<1>8. UNCHANGED <<scenario, suiteReport, deltas>>
  BY <1>1 DEF Originates
<1> HIDE DEF b
<1>9. /\ book'["baseline"] = b /\ book'["scenario"] = Compared!NoBook
      /\ book' = [w \in SuiteRuns |-> book'[w]] /\ \A w \in SuiteRuns : IsBook(book'[w])
  BY <1>5, <1>6, NothingIsBook DEF SuiteRuns
<1>10. /\ tape'.applications = cancel /\ tape'.decisions = score /\ tape'.booking = coin
       /\ tape'.payments = <<>> /\ Len(tape'.payments) = 0
  BY <1>4
<1>11. SuiteTypes'
  <2>1. IsTape(tape')
    BY <1>4 DEF IsTape
  <2>2. Deltas' = Deltas
    BY <1>8 DEF Deltas
  <2> QED BY <1>8, <1>9, <2>1, <2>2 DEF SuiteTypes
<1>12. InPay("baseline")'
  BY <1>6, <1>7, <1>9, <1>10 DEF InPay
<1>13. Drawn'
  BY <1>4, <1>6, <1>9, <1>10 DEF Drawn
<1>14. Stands'
  BY <1>9, <1>12, <1>13 DEF Stands
<1>15. BaselineTold'
  <2> DEFINE first == StartOf(b)
             s == [i \in 0..0 |-> first]
             n == 0
  <2>1. Start' = first
    BY <1>10 DEF Start, b
  <2>2. first = Moment(first.book, first.month, first.left) /\ first.book = b /\ first.month = 1
    BY DEF StartOf, Moment
  <2>3. s[n] = first
    OBVIOUS
  <2> HIDE DEF first
  <2>4. Story(tape'.payments, first, s, n)
    <3> DEFINE pay == tape'.payments
    <3>1. IsBook(first.book) /\ first.book.read <= Len(pay) /\ first.month \in Nat
      BY <1>6, <1>10, <2>2
    <3> HIDE DEF pay
    <3> QED BY <2>2, <3>1, StoryBegins DEF pay
  <2>5. Now("baseline")' = first
    BY <1>7, <1>9 DEF Now, StartOf, first
  <2> HIDE DEF s
  <2>6. Len(tape'.payments) = book'["baseline"].read
    BY <1>6, <1>9, <1>10
  <2> QED BY <2>1, <2>3, <2>4, <2>5, <2>6 DEF BaselineTold
<1>16. Remembers'
  BY <1>7, <1>15 DEF Remembers, InPay, Turned
<1> QED BY <1>11, <1>14, <1>16 DEF SuiteInv

LEMMA ScenarioOriginates ==
    ASSUME SuiteTypes, Turned, Drawn, scenario.shock # 0 => Remembers, book["scenario"] = Compared!NoBook,
           Compared!Originate
    PROVE  SuiteInv'
<1>1. PICK cancel, score, coin : Originates("scenario", cancel, score, coin)
  BY Originating DEF SuiteRuns, Turned
<1> DEFINE c == scenario.cutoff
           b == Founded(c, cancel, score, coin)
<1>2. CutoffOf("scenario") = c
  BY DEF CutoffOf
<1>3. /\ SuiteCustomers \in Nat /\ Cardinality(Decided(tape.applications)) \in Nat
      /\ Cardinality(Passing(1, tape.applications, tape.decisions)) \in Nat
  BY SuiteConstants, DecidedPart
<1>4. cancel = tape.applications
  BY <1>1, <1>3, DrawnAgain DEF Originates, Drawn, Decisions
<1>5. score = tape.decisions
  BY <1>1, <1>3, <1>4, DrawnAgain DEF Originates, Drawn, Decisions
<1>6. c = 1 => coin = tape.booking
  BY <1>1, <1>2, <1>3, <1>4, <1>5, DrawnAgain DEF Originates, Drawn, Bookings
<1>7. tape' = TapeOf(cancel, score, coin)
  BY <1>1 DEF Originates
<1>8. tape'.payments = tape.payments /\ IsTape(tape')
  BY <1>7 DEF TapeOf, IsTape, SuiteTypes
<1>9. book' = [book EXCEPT !["scenario"] = b]
  BY <1>1, <1>2, Zenon DEF Originates
<1>10. /\ IsBook(b) /\ b.population = BaselineIds(1..SuiteCustomers)
       /\ b.approved = BaselineIds(Passing(c, cancel, score)) /\ b.read = 0
  BY FoundedIsBook
<1>11. suiteAt' = [phase |-> "pay", run |-> "scenario", month |-> 1, left |-> b.contracts]
  BY <1>1, <1>2 DEF Originates, Founded
<1>12. UNCHANGED <<scenario, suiteReport, deltas>>
  BY <1>1 DEF Originates
<1>13. scenario \in SuiteConfigs /\ scenario.shock \in Nat /\ c \in Int
       /\ (scenario.name = "policy_expansion" => c <= 1) /\ (scenario.name = "policy_tightening" => c >= 1)
       /\ (scenario.shock # 0 => c = 1)
  BY SuiteConstants DEF SuiteTypes
<1> HIDE DEF b, c
<1>14. /\ book'["scenario"] = b /\ book'["baseline"] = book["baseline"]
       /\ book' = [w \in SuiteRuns |-> book'[w]] /\ \A w \in SuiteRuns : IsBook(book'[w])
  BY <1>9, <1>10 DEF SuiteRuns, SuiteTypes
<1>15. SuiteTypes'
  <2>1. Deltas' = Deltas
    BY <1>12 DEF Deltas
  <2> QED BY <1>8, <1>12, <1>14, <2>1 DEF SuiteTypes
<1>16. Comparable'
  <2>1. Decisions(cancel, score)
    BY <1>4, <1>5 DEF Drawn
  <2>2. \A S, T : S \subseteq T => BaselineIds(S) \subseteq BaselineIds(T)
    BY DEF BaselineIds
  <2>3. book["baseline"].population = b.population /\ book["baseline"].approved = BaselineIds(Passing(1, cancel, score))
    BY <1>4, <1>5, <1>10 DEF Drawn
  <2>4. /\ Passing(1, cancel, score) \subseteq 1..SuiteCustomers
        /\ Passing(c, cancel, score) \subseteq 1..SuiteCustomers
    BY DecidedPart
  <2>5. c <= 1 => Passing(1, cancel, score) \subseteq Passing(c, cancel, score)
    BY <1>13, <2>1, LowerCutoffPassesMore
  <2>6. c >= 1 => Passing(c, cancel, score) \subseteq Passing(1, cancel, score)
    <3>1. c >= 1 => 1 <= c
      BY <1>13
    <3> QED BY <1>13, <2>1, <3>1, LowerCutoffPassesMore
  <2>7. b.approved = BaselineIds(Passing(c, cancel, score))
    BY <1>10
  <2>8. \A w \in SuiteRuns : book'[w].approved \subseteq BaselineIds(1..SuiteCustomers)
    <3>1. book'["baseline"].approved \subseteq BaselineIds(1..SuiteCustomers)
      <4>1. BaselineIds(Passing(1, cancel, score)) \subseteq BaselineIds(1..SuiteCustomers)
        BY <2>2, <2>4
      <4> QED BY <1>14, <2>3, <4>1
    <3>2. book'["scenario"].approved \subseteq BaselineIds(1..SuiteCustomers)
      BY <1>14, <2>2, <2>4, <2>7
    <3> QED BY <3>1, <3>2 DEF SuiteRuns
  <2>9. scenario.name = "policy_expansion" => book'["baseline"].approved \subseteq book'["scenario"].approved
    BY <1>13, <1>14, <2>2, <2>3, <2>5, <2>7
  <2>10. scenario.name = "policy_tightening" => book'["scenario"].approved \subseteq book'["baseline"].approved
    BY <1>13, <1>14, <2>2, <2>3, <2>6, <2>7
  <2>11. book'["baseline"].population = book'["scenario"].population
    BY <1>10, <1>14, <2>3
  <2> QED BY <1>12, <2>8, <2>9, <2>10, <2>11 DEF Comparable
<1>17. InPay("scenario")'
  <2>1. Len(tape.payments) \in Nat
    BY DEF SuiteTypes, IsTape
  <2> QED BY <1>8, <1>10, <1>11, <1>14, <2>1 DEF InPay
<1>18. Stands'
  BY <1>16, <1>17 DEF Stands
<1>19. ASSUME scenario.shock # 0
       PROVE  Remembers'
  <2>1. BaselineEnded
    BY <1>19 DEF Remembers
  <2>2. PICK s, n : Story(tape.payments, Start, s, n) /\ s[n].book = book["baseline"] /\ IsLast(s[n])
    BY <2>1 DEF BaselineEnded
  <2>3. s[0] = Start /\ n \in Nat /\ 0 \in 0..n
    BY <2>2 DEF Story
  <2>4. Start = StartOf(b)
    BY <1>4, <1>5, <1>6, <1>13, <1>19 DEF Start, b
  <2>5. s[0].book = b /\ s[0].month = 1 /\ s[0].left = b.contracts /\ s[0] = Moment(b, 1, b.contracts)
    BY <2>3, <2>4 DEF StartOf, Moment
  <2>6. CASE 1 < scenario.shock
    <3>1. s[0] = Now("scenario")'
      BY <1>11, <1>14, <2>5 DEF Now
    <3>2. ScenarioFollows'
      BY <1>8, <1>14, <2>2, <2>3, <3>1 DEF ScenarioFollows
    <3> QED BY <1>11, <1>12, <2>6, <3>2 DEF Remembers, InPay, Turned
  <2>7. CASE ~(1 < scenario.shock)
    <3>1. scenario.shock = 1
      BY <1>13, <1>19, <2>7
    <3>2. SameUntil(1)'
      BY <1>14, <2>2, <2>3, <2>5, SameBefore DEF SameUntil
    <3>3. SameUntil(scenario.shock)'
      BY <1>12, <3>1, <3>2
    <3> QED BY <1>11, <1>12, <2>7, <3>3 DEF Remembers, InPay, Turned
  <2> QED BY <2>6, <2>7
<1> QED BY <1>12, <1>15, <1>18, <1>19 DEF SuiteInv

-----------------------------------------------------------------------------
(***************************************************************************)
(* One contract in one month of a suite.                                   *)
(***************************************************************************)
After(w, draw) == Compared!AfterPayment(w, book[w].paid[Head(suiteAt.left)], suiteAt.month, draw)
Pays(w, first, details, n) ==
    /\ suiteAt.left # <<>>
    /\ first \in Compared!NextDraws(tape.payments, book[w].read, 1, Compared!Draws)
    /\ n = IF After(w, first[1]) > book[w].paid[Head(suiteAt.left)] THEN 1 ELSE 0
    /\ details \in Compared!NextDraws(tape.payments, book[w].read + 1, n, Compared!Draws)
    /\ tape' = [tape EXCEPT !.payments = Compared!Extended(tape.payments, book[w].read, first \o details)]
    /\ book' = [book EXCEPT ![w] = Compared!Entered(book[w], suiteAt.month, Head(suiteAt.left),
                                                    After(w, first[1]), details)]
    /\ suiteAt' = [suiteAt EXCEPT !.left = Tail(suiteAt.left)]
    /\ UNCHANGED <<scenario, suiteReport, deltas>>

LEMMA Paying ==
    ASSUME NEW w \in SuiteRuns, suiteAt.run = w, Compared!PayContract
    PROVE  \E first, details, n : Pays(w, first, details, n)
<1> DEFINE run == suiteAt.run
           c == Head(suiteAt.left)
           paid == book[run].paid[c]
           k == book[run].read
<1>1. PICK first \in Compared!NextDraws(tape.payments, k, 1, Compared!Draws) :
      \E details \in Compared!NextDraws(tape.payments, k + 1,
             IF Compared!AfterPayment(run, paid, suiteAt.month, first[1]) > paid THEN 1 ELSE 0, Compared!Draws) :
          /\ tape' = [tape EXCEPT !.payments = Compared!Extended(@, k, first \o details)]
          /\ book' = [book EXCEPT ![run] = Compared!Entered(@, suiteAt.month, c,
                          Compared!AfterPayment(run, paid, suiteAt.month, first[1]), details)]
  BY Zenon DEF Compared!PayContract
<1> DEFINE after == Compared!AfterPayment(run, paid, suiteAt.month, first[1])
           n == IF after > paid THEN 1 ELSE 0
<1>2. PICK details \in Compared!NextDraws(tape.payments, k + 1, n, Compared!Draws) :
          /\ tape' = [tape EXCEPT !.payments = Compared!Extended(@, k, first \o details)]
          /\ book' = [book EXCEPT ![run] = Compared!Entered(@, suiteAt.month, c, after, details)]
  BY <1>1, Zenon
<1>3. /\ suiteAt.left # <<>> /\ suiteAt' = [suiteAt EXCEPT !.left = Tail(suiteAt.left)]
      /\ UNCHANGED <<scenario, suiteReport, deltas>>
  BY Zenon DEF Compared!PayContract
<1>4. after = After(w, first[1])
  BY Zenon DEF After
<1>5. Pays(w, first, details, n)
  BY <1>1, <1>2, <1>3, <1>4, Zenon DEF Pays
<1> QED BY <1>5

(* What holds of a payment, whoever makes it.                              *)
LEMMA PaysIsBook ==
    ASSUME SuiteTypes, NEW w \in SuiteRuns, InPay(w), NEW first, NEW details, NEW n, Pays(w, first, details, n)
    PROVE  /\ SuiteTypes' /\ InPay(w)'
           /\ Prefix(tape.payments, tape'.payments) /\ n \in {0, 1} /\ Len(details) = n
           /\ tape'.payments[book[w].read + 1] = first[1]
           /\ n = 1 => tape'.payments[book[w].read + 2] = details[1]
           /\ book[w].read = Len(tape.payments) => Len(tape'.payments) = book'[w].read
           /\ Adds(book[w], book'[w], suiteAt.month, n)
           /\ book'[w] = Compared!Entered(book[w], suiteAt.month, Head(suiteAt.left), After(w, first[1]), details)
           /\ \A x \in SuiteRuns : x # w => book'[x] = book[x]
           /\ tape' = [applications |-> tape.applications, decisions |-> tape.decisions,
                       booking |-> tape.booking, payments |-> tape'.payments]
           /\ suiteAt'.month = suiteAt.month /\ suiteAt'.left = Tail(suiteAt.left)
<1> DEFINE b == book[w]
           pay == tape.payments
           longer == Compared!Extended(pay, b.read, first \o details)
           month == suiteAt.month
           c == Head(suiteAt.left)
           after == After(w, first[1])
           e == Compared!Entered(b, month, c, after, details)
<1>1. /\ pay \in Seq(Compared!Draws) /\ IsBook(b) /\ b.read \in Nat /\ b.read <= Len(pay) /\ n \in {0, 1}
      /\ month \in Nat
  BY DEF SuiteTypes, IsTape, IsBook, InPay, Pays
<1>2. /\ first \in Compared!NextDraws(pay, b.read, 1, Compared!Draws)
      /\ details \in Compared!NextDraws(pay, b.read + 1, n, Compared!Draws)
  BY DEF Pays
<1>3. /\ Prefix(pay, longer) /\ b.read + 1 + n <= Len(longer)
      /\ longer[b.read + 1] = first[1] /\ (n = 1 => longer[b.read + 2] = details[1])
      /\ Len(details) = n
      /\ (b.read = Len(pay) => Len(longer) = b.read + 1 + n)
  <2> DEFINE k == b.read
             x == Compared!Extended(pay, k, first \o details)
  <2>1. /\ pay \in Seq(Compared!Draws) /\ k \in Nat /\ k <= Len(pay) /\ n \in {0, 1}
        /\ first \in Compared!NextDraws(pay, k, 1, Compared!Draws)
        /\ details \in Compared!NextDraws(pay, k + 1, n, Compared!Draws)
    BY <1>1, <1>2
  <2> HIDE DEF k, pay
  <2>2. ReadFrom(pay, k, n, first, details, x)
    BY <2>1, DrawnNext, Zenon
  <2> QED BY <2>2 DEF k, ReadFrom
<1>4. tape' = [tape EXCEPT !.payments = longer] /\ book' = [book EXCEPT ![w] = e]
      /\ suiteAt' = [suiteAt EXCEPT !.left = Tail(suiteAt.left)] /\ UNCHANGED <<scenario, suiteReport, deltas>>
  BY Zenon DEF Pays
<1>5. Adds(b, e, month, n)
  <2> HIDE DEF b, month, c, after
  <2> QED BY <1>1, <1>3, EnteredIsBook
<1> HIDE DEF longer, e
<1>6. tape' = [applications |-> tape.applications, decisions |-> tape.decisions,
               booking |-> tape.booking, payments |-> longer]
  BY <1>4 DEF SuiteTypes, IsTape
<1>7. tape'.payments = longer /\ longer \in Seq(Compared!Draws)
  BY <1>3, <1>6 DEF Prefix
<1>8. IsTape(tape')
  BY <1>6, <1>7 DEF IsTape
<1>9. book'[w] = e /\ (\A x \in SuiteRuns : x # w => book'[x] = book[x]) /\ book' = [x \in SuiteRuns |-> book'[x]]
  BY <1>4 DEF SuiteTypes
<1>10. \A x \in SuiteRuns : IsBook(book'[x])
  BY <1>5, <1>9 DEF Adds, SuiteTypes
<1>11. SuiteTypes'
  <2>1. Deltas' = Deltas
    BY <1>4 DEF Deltas
  <2> QED BY <1>4, <1>8, <1>9, <1>10, <2>1 DEF SuiteTypes
<1>12. suiteAt' = [phase |-> "pay", run |-> w, month |-> month, left |-> Tail(suiteAt.left)]
  <2> DEFINE rest == Tail(suiteAt.left)
             left == suiteAt.left
  <2>1. suiteAt = [phase |-> "pay", run |-> w, month |-> month, left |-> left] /\ suiteAt' = [suiteAt EXCEPT !.left = rest]
    BY <1>4 DEF InPay
  <2> HIDE DEF rest, month, left
  <2>2. suiteAt' = [phase |-> "pay", run |-> w, month |-> month, left |-> rest]
    BY <2>1
  <2> QED BY <2>2 DEF rest
<1>13. e.read = b.read + 1 + n
  BY <1>5 DEF Adds
<1>14. InPay(w)'
  <2>1. suiteAt'.month = month /\ suiteAt'.left = Tail(suiteAt.left)
    BY <1>12
  <2> QED BY <1>1, <1>3, <1>7, <1>9, <1>12, <1>13, <2>1 DEF InPay
<1>15. suiteAt'.month = month /\ suiteAt'.left = Tail(suiteAt.left)
  BY <1>12
<1>16. book[w].read = Len(tape.payments) => Len(tape'.payments) = book'[w].read
  BY <1>3, <1>7, <1>9, <1>13
<1>17. /\ Prefix(tape.payments, tape'.payments) /\ tape'.payments[book[w].read + 1] = first[1]
       /\ n = 1 => tape'.payments[book[w].read + 2] = details[1]
  BY <1>3, <1>7
<1>18. book'[w] = Compared!Entered(book[w], suiteAt.month, Head(suiteAt.left), After(w, first[1]), details)
  BY <1>9 DEF e
<1> QED BY <1>1, <1>3, <1>5, <1>6, <1>7, <1>9, <1>11, <1>14, <1>15, <1>16, <1>17, <1>18

(* Without a shock, a payment leads to the next moment.                    *)
LEMMA PaysSuccessor ==
    ASSUME SuiteTypes, NEW w \in SuiteRuns, InPay(w), NEW first, NEW details, NEW n, Pays(w, first, details, n),
           scenario.shock # 0, w = "scenario" => suiteAt.month < scenario.shock
    PROVE  /\ Now(w)' = Successor(tape'.payments, Now(w)) /\ ~IsLast(Now(w))
<1> DEFINE m == Now(w)
           pay == tape'.payments
           paid == book[w].paid[Head(suiteAt.left)]
<1>1. m.book = book[w] /\ m.month = suiteAt.month /\ m.left = suiteAt.left /\ m.left # <<>>
  BY DEF Now, Moment, Pays
<1>2. /\ n \in {0, 1} /\ Len(details) = n
      /\ pay[book[w].read + 1] = first[1] /\ (n = 1 => pay[book[w].read + 2] = details[1])
      /\ book'[w] = Compared!Entered(book[w], suiteAt.month, Head(suiteAt.left), After(w, first[1]), details)
      /\ suiteAt'.month = suiteAt.month /\ suiteAt'.left = Tail(suiteAt.left)
  BY PaysIsBook
<1>3. After(w, first[1]) = AfterDraw(m, first[1])
  <2>1. /\ scenario \in SuiteConfigs /\ scenario.shock \in Nat /\ scenario.onTime = 2 /\ scenario.cure = 1
        /\ suiteAt.month \in Nat
    BY SuiteConstants DEF SuiteTypes, InPay
  <2>2. ~Compared!Shocked(w, suiteAt.month)
    BY <2>1 DEF Compared!Shocked, Compared!Config, Compared!Baseline, SuiteRuns
  <2>3. Compared!OnTime(w, suiteAt.month) = 2 /\ Compared!Cure(w, suiteAt.month) = 1
    BY <2>1, <2>2 DEF Compared!OnTime, Compared!Cure, Compared!Config, Compared!Baseline, SuiteRuns
  <2> HIDE DEF m
  <2> QED BY <1>1, <2>3 DEF After, AfterDraw, Compared!AfterPayment, Compared!Backlog
<1>4. n = IF AfterDraw(m, first[1]) > paid THEN 1 ELSE 0
  BY <1>3 DEF Pays
<1>5. details \in Seq(Compared!Draws)
  <2>1. details \in [1..n -> Compared!Draws]
    BY DEF Pays, Compared!NextDraws
  <2> QED BY <1>2, <2>1, FunctionIsSeq
<1> HIDE DEF m, pay
<1>6. Details(pay, m) = details
  <2>1. CASE n = 1
    <3>1. details = <<details[1]>>
      BY <1>2, <1>5, <2>1
    <3>2. Details(pay, m) = <<pay[book[w].read + 2]>>
      BY <1>1, <1>2, <1>4, <2>1 DEF Details
    <3> QED BY <1>2, <2>1, <3>1, <3>2
  <2>2. CASE n = 0
    <3>1. details = <<>>
      BY <1>2, <1>5, <2>2
    <3>2. Details(pay, m) = <<>>
      BY <1>1, <1>2, <1>4, <2>2 DEF Details
    <3> QED BY <3>1, <3>2
  <2> QED BY <1>2, <2>1, <2>2
<1>7. Successor(pay, m) = Moment(book'[w], suiteAt'.month, suiteAt'.left)
  BY <1>1, <1>2, <1>3, <1>6 DEF Successor
<1>8. Now(w)' = Moment(book'[w], suiteAt'.month, suiteAt'.left)
  BY DEF Now
<1> QED BY <1>1, <1>7, <1>8 DEF IsLast, m, pay

LEMMA BaselinePays ==
    ASSUME SuiteTypes, InPay("baseline"), Drawn, book["scenario"] = Compared!NoBook,
           scenario.shock # 0 => Remembers, Compared!PayContract
    PROVE  SuiteInv'
<1>1. "baseline" \in SuiteRuns /\ "scenario" \in SuiteRuns /\ suiteAt.run = "baseline"
  BY DEF SuiteRuns, InPay
<1>2. PICK first, details, n : Pays("baseline", first, details, n)
  BY <1>1, Paying
<1>3. /\ SuiteTypes' /\ InPay("baseline")' /\ Prefix(tape.payments, tape'.payments)
      /\ book["baseline"].read = Len(tape.payments) => Len(tape'.payments) = book'["baseline"].read
      /\ Adds(book["baseline"], book'["baseline"], suiteAt.month, n)
      /\ book'["scenario"] = book["scenario"]
      /\ tape' = [applications |-> tape.applications, decisions |-> tape.decisions,
                  booking |-> tape.booking, payments |-> tape'.payments]
  BY <1>1, <1>2, PaysIsBook
<1>4. tape'.applications = tape.applications /\ tape'.decisions = tape.decisions /\ tape'.booking = tape.booking
  BY <1>3
<1>5. Drawn' /\ Start' = Start
  BY <1>3, <1>4 DEF Drawn, Start, Adds
<1>6. Stands'
  BY <1>3, <1>5 DEF Stands
<1>7. suiteAt'.phase = "pay" /\ suiteAt'.run = "baseline"
  BY <1>3 DEF InPay
<1>8. scenario' = scenario
  BY <1>2 DEF Pays
<1>9. ASSUME scenario.shock # 0 PROVE BaselineTold'
  <2>1. PICK s, k : /\ Story(tape.payments, Start, s, k)
                    /\ s[k] = Now("baseline") /\ Len(tape.payments) = book["baseline"].read
    BY <1>9 DEF Remembers, BaselineTold
  <2> DEFINE pay == tape'.payments
             m == Successor(pay, s[k])
             t == Continued(s, k, m)
  <2>2. Story(pay, Start, s, k)
    BY <1>3, <2>1, StoryStays
  <2>3. Now("baseline")' = m /\ ~IsLast(s[k])
    BY <1>1, <1>2, <1>9, <2>1, PaysSuccessor
  <2>4. m.book = book'["baseline"]
    BY <2>3 DEF Now, Moment
  <2>5. Len(pay) = book'["baseline"].read
    BY <1>3, <2>1
  <2>6. m.book.read <= Len(pay)
    <3>1. Len(pay) \in Nat
      BY <1>3 DEF SuiteTypes, IsTape
    <3> QED BY <2>4, <2>5, <3>1
  <2> HIDE DEF pay
  <2>7. Story(pay, Start, t, k + 1) /\ t[k + 1] = m
    BY <2>2, <2>3, <2>6, StoryGoesOn
  <2> HIDE DEF m, t
  <2> QED BY <1>5, <2>3, <2>5, <2>7 DEF BaselineTold, pay
<1>10. scenario.shock # 0 => Remembers'
  BY <1>7, <1>9 DEF Remembers, InPay, Turned
<1> QED BY <1>3, <1>6, <1>8, <1>10 DEF SuiteInv

(* A story told up to its last moment has a next one wherever it has not   *)
(* ended.                                                                  *)
LEMMA StoryHasNext ==
    ASSUME NEW pay, NEW first, NEW s, NEW n, Story(pay, first, s, n), NEW k \in 0..n, IsLast(s[n])
    PROVE  /\ IsLast(s[k]) => k = n
           /\ ~IsLast(s[k]) => k + 1 \in 0..n /\ s[k + 1] = Successor(pay, s[k])
<1>1. n \in Nat
  BY DEF Story
<1>2. CASE k = n
  BY <1>2
<1>3. CASE k # n
  <2>1. k + 1 \in 1..n /\ (k + 1) - 1 = k /\ k + 1 \in 0..n
    BY <1>1, <1>3
  <2>2. s[k + 1] = Successor(pay, s[(k + 1) - 1]) /\ ~IsLast(s[(k + 1) - 1])
    BY <2>1 DEF Story
  <2> QED BY <2>1, <2>2
<1> QED BY <1>2, <1>3

LEMMA ScenarioPays ==
    ASSUME SuiteTypes, InPay("scenario"), Comparable, scenario.shock # 0 => Remembers, Compared!PayContract
    PROVE  SuiteInv'
<1>1. "baseline" \in SuiteRuns /\ "scenario" \in SuiteRuns /\ suiteAt.run = "scenario"
  BY DEF SuiteRuns, InPay
<1>2. PICK first, details, n : Pays("scenario", first, details, n)
  BY <1>1, Paying
<1>3. /\ SuiteTypes' /\ InPay("scenario")' /\ Prefix(tape.payments, tape'.payments)
      /\ Adds(book["scenario"], book'["scenario"], suiteAt.month, n)
      /\ book'["baseline"] = book["baseline"]
      /\ suiteAt'.month = suiteAt.month
  BY <1>1, <1>2, PaysIsBook
<1>4. scenario' = scenario /\ scenario.shock \in Nat /\ suiteAt.month \in Nat
  BY <1>2, SuiteConstants DEF Pays, SuiteTypes, InPay
<1>5. Comparable'
  BY <1>3, <1>4 DEF Comparable, Adds, SuiteRuns
<1>6. Stands'
  BY <1>3, <1>5 DEF Stands
<1>7. suiteAt'.phase = "pay" /\ suiteAt'.run = "scenario"
  BY <1>3 DEF InPay
<1>8. ASSUME scenario.shock # 0, suiteAt.month < scenario.shock PROVE ScenarioFollows'
  <2>1. PICK s, l : /\ Story(tape.payments, s[0], s, l) /\ s[l].book = book["baseline"] /\ IsLast(s[l])
                    /\ \E k \in 0..l : s[k] = Now("scenario")
    BY <1>8 DEF Remembers, ScenarioFollows
  <2>2. PICK k \in 0..l : s[k] = Now("scenario")
    BY <2>1
  <2> DEFINE pay == tape'.payments
  <2>3. Story(pay, s[0], s, l)
    BY <1>3, <2>1, StoryStays
  <2>4. Now("scenario")' = Successor(pay, s[k]) /\ ~IsLast(s[k])
    BY <1>1, <1>2, <1>8, <2>2, PaysSuccessor
  <2> HIDE DEF pay
  <2>5. k + 1 \in 0..l /\ s[k + 1] = Now("scenario")'
    BY <2>1, <2>3, <2>4, StoryHasNext
  <2> QED BY <1>3, <2>1, <2>3, <2>5 DEF ScenarioFollows, pay
<1>9. ASSUME scenario.shock # 0, ~(suiteAt.month < scenario.shock) PROVE SameUntil(scenario.shock)'
  <2>1. SameUntil(scenario.shock)
    BY <1>9 DEF Remembers
  <2>2. \A r : r[1] = suiteAt.month => ~(r[1] < scenario.shock)
    BY <1>9
  <2>3. /\ Earlier(book'["scenario"].rows, scenario.shock) = Earlier(book["scenario"].rows, scenario.shock)
        /\ Earlier(book'["scenario"].late, scenario.shock) = Earlier(book["scenario"].late, scenario.shock)
        /\ book'["scenario"].contracts = book["scenario"].contracts
    BY <1>3, <2>2 DEF Adds, Earlier
  <2> QED BY <1>3, <1>4, <2>1, <2>3 DEF SameUntil
<1>10. scenario.shock # 0 => Remembers'
  BY <1>3, <1>4, <1>7, <1>8, <1>9 DEF Remembers, InPay, Turned
<1> QED BY <1>3, <1>4, <1>6, <1>10 DEF SuiteInv

-----------------------------------------------------------------------------
(***************************************************************************)
(* The end of a month.                                                     *)
(***************************************************************************)
LEMMA MonthEnds ==
    ASSUME SuiteTypes, NEW w \in SuiteRuns, InPay(w), Compared!EndMonth
    PROVE  /\ SuiteTypes' /\ UNCHANGED <<scenario, tape, book, suiteReport, deltas>>
           /\ IsLast(Now(w)) => suiteAt' = IF w = "baseline" THEN [phase |-> "originate", run |-> "scenario"]
                                                             ELSE [phase |-> "compare"]
           /\ ~IsLast(Now(w)) => /\ Now(w)' = Successor(tape.payments, Now(w)) /\ InPay(w)'
                                 /\ suiteAt' = [phase |-> "pay", run |-> w, month |-> suiteAt.month + 1,
                                                left |-> Compared!Open(book[w])]
<1> DEFINE m == Now(w)
           month == suiteAt.month
           next == suiteAt.month + 1
           open == Compared!Open(book[w])
<1>1. m.book = book[w] /\ m.month = month /\ m.left = <<>> /\ suiteAt.left = <<>> /\ month \in Nat
  BY DEF Now, Moment, InPay, Compared!EndMonth
<1>2. UNCHANGED <<scenario, tape, book, suiteReport, deltas>>
  BY DEF Compared!EndMonth
<1>3. SuiteTypes'
  <2>1. Deltas' = Deltas
    BY <1>2 DEF Deltas
  <2> QED BY <1>2, <2>1 DEF SuiteTypes
<1>4. suiteAt = [phase |-> "pay", run |-> w, month |-> month, left |-> <<>>] /\ suiteAt.run = w
  BY <1>1 DEF InPay
<1>5. suiteAt' = IF month < SuiteMonths /\ month < SuiteTerm
                 THEN [suiteAt EXCEPT !.month = next, !.left = open]
                 ELSE IF w = "baseline" THEN [phase |-> "originate", run |-> "scenario"] ELSE [phase |-> "compare"]
  BY <1>4, Zenon DEF Compared!EndMonth, Compared!Ready
<1>6. IsLast(m) <=> ~(month < SuiteMonths /\ month < SuiteTerm)
  BY <1>1 DEF IsLast
<1>7. [suiteAt EXCEPT !.month = next, !.left = open] = [phase |-> "pay", run |-> w, month |-> next, left |-> open]
  <2> DEFINE q1 == [suiteAt EXCEPT !.month = next]
             q2 == [q1 EXCEPT !.left = open]
  <2> HIDE DEF next, open, month
  <2>1. [suiteAt EXCEPT !.month = next, !.left = open] = q2
    BY Zenon
  <2>2. q1 = [phase |-> "pay", run |-> w, month |-> next, left |-> <<>>]
    BY <1>4
  <2> HIDE DEF q1
  <2>3. q2 = [phase |-> "pay", run |-> w, month |-> next, left |-> open]
    BY <2>2
  <2> QED BY <2>1, <2>3
<1>8. ASSUME ~IsLast(m)
      PROVE  /\ suiteAt' = [phase |-> "pay", run |-> w, month |-> next, left |-> open]
             /\ Now(w)' = Successor(tape.payments, m) /\ InPay(w)'
  <2>1. suiteAt' = [phase |-> "pay", run |-> w, month |-> next, left |-> open]
    BY <1>5, <1>6, <1>7, <1>8
  <2>2. suiteAt'.month = next /\ suiteAt'.left = open /\ next \in Nat
    BY <1>1, <2>1
  <2> HIDE DEF m, open
  <2>3. Successor(tape.payments, m) = Moment(book[w], next, open)
    BY <1>1 DEF Successor, open
  <2>4. Now(w)' = Moment(book[w], next, open)
    BY <1>2, <2>2 DEF Now
  <2>5. InPay(w)'
    BY <1>2, <2>1, <2>2 DEF InPay
  <2> QED BY <2>1, <2>3, <2>4, <2>5
<1> HIDE DEF m
<1> QED BY <1>2, <1>3, <1>5, <1>6, <1>8 DEF m

LEMMA BaselineEndsMonth ==
    ASSUME SuiteTypes, InPay("baseline"), Drawn, book["scenario"] = Compared!NoBook,
           scenario.shock # 0 => Remembers, Compared!EndMonth
    PROVE  SuiteInv'
<1> DEFINE m == Now("baseline")
<1>1. /\ SuiteTypes' /\ UNCHANGED <<scenario, tape, book, suiteReport, deltas>>
      /\ IsLast(m) => suiteAt' = [phase |-> "originate", run |-> "scenario"]
      /\ ~IsLast(m) => /\ Now("baseline")' = Successor(tape.payments, m) /\ InPay("baseline")'
                       /\ suiteAt' = [phase |-> "pay", run |-> "baseline", month |-> suiteAt.month + 1,
                                      left |-> Compared!Open(book["baseline"])]
  BY MonthEnds DEF SuiteRuns
<1>2. Drawn' /\ Start' = Start
  BY <1>1 DEF Drawn, Start
<1>3. m.book = book["baseline"]
  BY DEF Now, Moment
<1>4. ASSUME scenario.shock # 0
      PROVE  \E s, k : Story(tape.payments, Start, s, k) /\ s[k] = m /\ Len(tape.payments) = book["baseline"].read
  BY <1>4 DEF Remembers, BaselineTold
<1> HIDE DEF m
<1>5. CASE IsLast(m)
  <2>1. suiteAt' = [phase |-> "originate", run |-> "scenario"]
    BY <1>1, <1>5
  <2>2. Stands'
    BY <1>1, <1>2, <2>1 DEF Stands, Turned
  <2>3. scenario.shock # 0 => BaselineEnded'
    BY <1>1, <1>2, <1>3, <1>4, <1>5 DEF BaselineEnded
  <2> QED BY <1>1, <2>1, <2>2, <2>3 DEF SuiteInv, Remembers, InPay, Turned
<1>6. CASE ~IsLast(m)
  <2>1. Stands'
    BY <1>1, <1>2, <1>6 DEF Stands
  <2>2. ASSUME scenario.shock # 0 PROVE BaselineTold'
    <3> DEFINE pay == tape.payments
               x == Successor(pay, m)
    <3>1. PICK s, k : Story(pay, Start, s, k) /\ s[k] = m /\ Len(pay) = book["baseline"].read
      BY <1>4, <2>2
    <3> DEFINE t == Continued(s, k, x)
    <3>2. x.book = book["baseline"] /\ Now("baseline")' = x
      BY <1>1, <1>6 DEF Now, Moment
    <3>3. x.book.read <= Len(pay)
      <4>1. Len(pay) \in Nat
        BY DEF SuiteTypes, IsTape
      <4> QED BY <3>1, <3>2, <4>1
    <3> HIDE DEF pay
    <3>4. Story(pay, Start, t, k + 1) /\ t[k + 1] = x
      BY <1>6, <3>1, <3>3, StoryGoesOn
    <3> HIDE DEF x, t
    <3> QED BY <1>1, <1>2, <3>1, <3>2, <3>4 DEF BaselineTold, pay
  <2>3. suiteAt'.phase = "pay" /\ suiteAt'.run = "baseline"
    BY <1>1, <1>6
  <2> QED BY <1>1, <2>1, <2>2, <2>3 DEF SuiteInv, Remembers, InPay, Turned
<1> QED BY <1>5, <1>6

LEMMA ScenarioEndsMonth ==
    ASSUME SuiteTypes, InPay("scenario"), Comparable, scenario.shock # 0 => Remembers, Compared!EndMonth
    PROVE  SuiteInv'
<1> DEFINE m == Now("scenario")
           shock == scenario.shock
           month == suiteAt.month
<1>1. /\ SuiteTypes' /\ UNCHANGED <<scenario, tape, book, suiteReport, deltas>>
      /\ IsLast(m) => suiteAt' = [phase |-> "compare"]
      /\ ~IsLast(m) => /\ Now("scenario")' = Successor(tape.payments, m) /\ InPay("scenario")'
                       /\ suiteAt' = [phase |-> "pay", run |-> "scenario", month |-> month + 1,
                                      left |-> Compared!Open(book["scenario"])]
  BY MonthEnds DEF SuiteRuns
<1>2. Comparable'
  BY <1>1 DEF Comparable
<1>3. m.book = book["scenario"] /\ month \in Nat /\ shock \in Nat
  BY SuiteConstants DEF Now, Moment, InPay, SuiteTypes
<1>4. ASSUME shock # 0, month < shock
      PROVE  \E s, l : /\ Story(tape.payments, s[0], s, l) /\ s[l].book = book["baseline"] /\ IsLast(s[l])
                       /\ \E k \in 0..l : s[k] = m
  BY <1>4 DEF Remembers, ScenarioFollows
<1>5. ASSUME shock # 0, ~(month < shock) PROVE SameUntil(shock) /\ SameUntil(shock)'
  <2>1. SameUntil(shock)
    BY <1>5 DEF Remembers
  <2> QED BY <1>1, <2>1 DEF SameUntil
<1>6. CASE IsLast(m)
  <2>1. suiteAt' = [phase |-> "compare"]
    BY <1>1, <1>6
  <2>2. ASSUME shock # 0, month < shock PROVE SameUntil(shock)'
    <3>1. PICK s, l : /\ Story(tape.payments, s[0], s, l) /\ s[l].book = book["baseline"] /\ IsLast(s[l])
                      /\ \E k \in 0..l : s[k] = m
      BY <1>4, <2>2
    <3>2. PICK k \in 0..l : s[k] = m
      BY <3>1
    <3>3. s[l] = m
      BY <1>6, <3>1, <3>2, StoryHasNext
    <3>4. book["scenario"] = book["baseline"]
      BY <1>3, <3>1, <3>3
    <3> QED BY <1>1, <3>4 DEF SameUntil
  <2>3. Stands'
    BY <1>2, <2>1 DEF Stands
  <2> QED BY <1>1, <1>5, <2>1, <2>2, <2>3 DEF SuiteInv, Remembers, InPay, Turned
<1>7. CASE ~IsLast(m)
  <2>1. suiteAt' = [phase |-> "pay", run |-> "scenario", month |-> month + 1,
                    left |-> Compared!Open(book["scenario"])]
    BY <1>1, <1>7
  <2>2. suiteAt'.month = month + 1 /\ suiteAt'.phase = "pay" /\ suiteAt'.run = "scenario"
    BY <2>1
  <2>3. Now("scenario")'.month = month + 1
    BY <2>2 DEF Now, Moment
  <2>4. ASSUME shock # 0, month < shock
        PROVE  IF month + 1 < shock THEN ScenarioFollows' ELSE SameUntil(shock)'
    <3>1. PICK s, l : /\ Story(tape.payments, s[0], s, l) /\ s[l].book = book["baseline"] /\ IsLast(s[l])
                      /\ \E k \in 0..l : s[k] = m
      BY <1>4, <2>4
    <3>2. PICK k \in 0..l : s[k] = m
      BY <3>1
    <3>3. k + 1 \in 0..l /\ s[k + 1] = Now("scenario")'
      BY <1>1, <1>7, <3>1, <3>2, StoryHasNext
    <3>4. CASE month + 1 < shock
      <4>1. ScenarioFollows'
        BY <1>1, <3>1, <3>3 DEF ScenarioFollows
      <4> QED BY <3>4, <4>1
    <3>5. CASE ~(month + 1 < shock)
      <4>1. shock = month + 1
        BY <1>3, <2>4, <3>5
      <4>2. s[k + 1].month = month + 1 /\ s[k + 1].book = book["scenario"]
        BY <1>1, <2>3, <3>3 DEF Now, Moment
      <4> DEFINE i == k + 1
                 pay == tape.payments
                 first == s[0]
      <4>3. shock <= s[i].month /\ i \in 0..l /\ Story(pay, first, s, l)
        BY <1>3, <3>1, <3>3, <4>1, <4>2
      <4> HIDE DEF i, pay, first, shock
      <4>4. /\ s[i].book.contracts = s[l].book.contracts
            /\ Earlier(s[i].book.rows, shock) = Earlier(s[l].book.rows, shock)
            /\ Earlier(s[i].book.late, shock) = Earlier(s[l].book.late, shock)
        BY <1>3, <4>3, SameBefore
      <4>5. SameUntil(shock)'
        BY <1>1, <3>1, <4>2, <4>4 DEF SameUntil, i, shock
      <4> QED BY <3>5, <4>5 DEF shock
    <3> QED BY <3>4, <3>5
  <2>5. ASSUME shock # 0 PROVE IF month + 1 < shock THEN ScenarioFollows' ELSE SameUntil(shock)'
    <3>1. CASE month < shock
      BY <2>4, <2>5, <3>1
    <3>2. CASE ~(month < shock)
      <4>1. ~(month + 1 < shock)
        BY <1>3, <3>2
      <4> QED BY <1>5, <2>5, <3>2, <4>1
    <3> QED BY <3>1, <3>2
  <2>6. Stands'
    BY <1>1, <1>2, <1>7 DEF Stands
  <2>7. scenario.shock # 0 => Remembers'
    BY <1>1, <2>2, <2>5 DEF Remembers, InPay, Turned
  <2> QED BY <1>1, <2>6, <2>7 DEF SuiteInv
<1> QED BY <1>6, <1>7

-----------------------------------------------------------------------------
(***************************************************************************)
(* The report of a suite, and the seeds of a sweep.                        *)
(***************************************************************************)
LEMMA IdsAreFinite == IsFiniteSet(BaselineIds(1..SuiteCustomers))
<1> DEFINE S == 1..SuiteCustomers
           T == BaselineIds(S)
           f == [i \in S |-> <<"baseline", i>>]
<1>1. IsFiniteSet(S)
  BY SuiteConstants, FS_Interval
<1>2. f \in Surjection(S, T)
  BY DEF Surjection, BaselineIds
<1> HIDE DEF S, T, f
<1>3. IsFiniteSet(T)
  BY <1>1, <1>2, FS_Surjection
<1> QED BY <1>3 DEF T, S

LEMMA ApprovalsMove ==
    ASSUME Comparable
    PROVE  /\ Compared!CompareMetrics \in Int
           /\ scenario.name = "policy_expansion" => Compared!CompareMetrics >= 0
           /\ scenario.name = "policy_tightening" => Compared!CompareMetrics <= 0
<1> DEFINE a == book["baseline"].approved
           b == book["scenario"].approved
           S == BaselineIds(1..SuiteCustomers)
<1>1. a \in SUBSET S /\ b \in SUBSET S
  BY DEF Comparable, SuiteRuns
<1>2. Compared!CompareMetrics = Cardinality(b) - Cardinality(a)
  BY ComparedCardinality DEF Compared!CompareMetrics, Compared!NApproved
<1>3. /\ scenario.name = "policy_expansion" => a \in SUBSET b
      /\ scenario.name = "policy_tightening" => b \in SUBSET a
  BY DEF Comparable
<1>4. IsFiniteSet(S)
  BY IdsAreFinite
<1> HIDE DEF a, b, S
<1>5. IsFiniteSet(a) /\ IsFiniteSet(b)
  BY <1>1, <1>4, FS_Subset
<1>6. Cardinality(a) \in Nat /\ Cardinality(b) \in Nat
  BY <1>5, FS_CardinalityType
<1>7. (a \in SUBSET b => Cardinality(a) <= Cardinality(b)) /\ (b \in SUBSET a => Cardinality(b) <= Cardinality(a))
  BY <1>5, FS_Subset
<1> QED BY <1>2, <1>3, <1>6, <1>7

LEMMA SameBeforeShock ==
    ASSUME SameUntil(scenario.shock)
    PROVE  /\ Compared!Before("baseline", scenario.shock) = Compared!Before("scenario", scenario.shock)
           /\ Compared!PreShockEqualityRow.identical
<1> DEFINE x == Compared!LateBefore("baseline", scenario.shock)
           y == Compared!LateBefore("scenario", scenario.shock)
<1>1. \A w : /\ Compared!Before(w, scenario.shock) = Earlier(book[w].rows, scenario.shock)
             /\ Compared!LateBefore(w, scenario.shock)
                = [late |-> Compared!Cardinality(Earlier(book[w].late, scenario.shock)),
                   of |-> Len(book[w].contracts)]
  BY DEF Compared!Before, Compared!LateBefore, Earlier
<1>2. x = y
  BY <1>1 DEF SameUntil
<1>3. Compared!PreShockEqualityRow
      = [identical |-> x.late * y.of = y.late * x.of \/ (x.of = 0 /\ y.late = 0) \/ (y.of = 0 /\ x.late = 0)]
  BY Zenon DEF Compared!PreShockEqualityRow
<1> HIDE DEF x, y
<1>4. x.late * y.of = y.late * x.of
  BY <1>2, Zenon
<1>5. Compared!PreShockEqualityRow.identical
  BY <1>3, <1>4
<1> QED BY <1>1, <1>5 DEF SameUntil

LEMMA ManifestWritten ==
    ASSUME SuiteTypes, suiteAt = [phase |-> "compare"], Comparable, scenario.shock # 0 => Remembers,
           Compared!WriteManifest
    PROVE  SuiteInv'
<1> DEFINE d == [approvals |-> Compared!CompareMetrics, preShock |-> Compared!PreShockEqualityRow]
<1>1. /\ suiteReport' = [written |-> TRUE, crn |-> Compared!CrnPreserved, checks |-> Compared!DirectionalChecks]
      /\ deltas' = Append(deltas, d) /\ suiteAt' = [phase |-> "done"]
      /\ UNCHANGED <<scenario, tape, book>>
  BY DEF Compared!WriteManifest
<1>2. scenario.shock # 0 => SameUntil(scenario.shock)
  BY DEF Remembers
<1>3. Compared!CrnPreserved
  BY DEF Comparable, Compared!CrnPreserved
<1>4. Compared!DirectionalChecks
  <2>1. scenario.name = "macroeconomic_stress" /\ scenario.shock # 0
          => Compared!Before("baseline", scenario.shock) = Compared!Before("scenario", scenario.shock)
    BY <1>2, SameBeforeShock
  <2> QED BY <2>1 DEF Comparable, Compared!DirectionalChecks
<1>5. d \in Deltas
  <2>1. scenario.shock # 0 => d.preShock.identical
    BY <1>2, SameBeforeShock
  <2>2. d.preShock \in [identical : BOOLEAN]
    BY DEF Compared!PreShockEqualityRow
  <2>3. d \in [approvals : Int, preShock : [identical : BOOLEAN]]
    BY <2>2, ApprovalsMove
  <2> QED BY <2>1, <2>3, ApprovalsMove DEF Deltas
<1>6. Deltas' = Deltas
  BY <1>1 DEF Deltas
<1> HIDE DEF d
<1>7. SuiteTypes'
  <2>1. deltas' \in Seq(Deltas)
    BY <1>1, <1>5 DEF SuiteTypes
  <2>2. suiteReport'.crn /\ suiteReport'.checks
    BY <1>1, <1>3, <1>4
  <2> QED BY <1>1, <1>6, <2>1, <2>2 DEF SuiteTypes
<1>8. Stands'
  BY <1>1 DEF Stands
<1>9. Remembers'
  BY <1>1 DEF Remembers, InPay, Turned
<1> QED BY <1>7, <1>8, <1>9 DEF SuiteInv

LEMMA SeedsGoOn ==
    ASSUME SuiteTypes, Compared!NextSeed \/ Compared!SummarizeSeeds \/ Compared!Refuse
    PROVE  SuiteInv'
<1>1. scenario' = scenario /\ deltas' = deltas /\ Deltas' = Deltas
  BY DEF Compared!NextSeed, Compared!SummarizeSeeds, Compared!Refuse, Deltas
<1>2. CASE Compared!NextSeed
  <2>1. /\ tape' = Compared!NoTape /\ book' = [w \in SuiteRuns |-> Compared!NoBook]
        /\ suiteReport' = [written |-> FALSE]
        /\ suiteAt' = [phase |-> "originate", run |-> "baseline"]
    BY <1>2 DEF Compared!NextSeed, Compared!Ready, Compared!Runs, SuiteRuns
  <2>2. SuiteTypes'
    BY <1>1, <2>1, NothingIsBook DEF SuiteTypes
  <2>3. Stands'
    BY <2>1 DEF Stands
  <2>4. Remembers'
    BY <2>1 DEF Remembers, InPay, Turned
  <2> QED BY <2>2, <2>3, <2>4 DEF SuiteInv
<1>3. CASE Compared!SummarizeSeeds
  <2>1. /\ UNCHANGED <<tape, book, suiteReport>>
        /\ suiteAt' = [phase |-> "summarized", robustness |-> Compared!Robustness]
    BY <1>3 DEF Compared!SummarizeSeeds
  <2>2. SuiteTypes'
    BY <1>1, <2>1 DEF SuiteTypes
  <2>3. Compared!Robustness' = Compared!Robustness
    BY <1>1 DEF Compared!Robustness, Compared!SeedsWhere, Compared!ExpectedDirection
  <2>4. Stands'
    BY <2>1, <2>3 DEF Stands
  <2>5. Remembers'
    BY <2>1 DEF Remembers, InPay, Turned
  <2> QED BY <2>2, <2>4, <2>5 DEF SuiteInv
<1>4. CASE Compared!Refuse
  <2>1. UNCHANGED <<tape, book, suiteReport>> /\ suiteAt' = [phase |-> "refused"]
    BY <1>4 DEF Compared!Refuse
  <2>2. SuiteTypes'
    BY <1>1, <2>1 DEF SuiteTypes
  <2>3. Stands'
    BY <2>1 DEF Stands
  <2>4. Remembers'
    BY <2>1 DEF Remembers, InPay, Turned
  <2> QED BY <2>2, <2>3, <2>4 DEF SuiteInv
<1> QED BY <1>2, <1>3, <1>4

LEMMA SuiteStutters ==
    ASSUME SuiteInv, UNCHANGED suiteVars
    PROVE  SuiteInv'
<1>1. UNCHANGED <<scenario, tape, book, suiteAt, suiteReport, deltas>>
  BY DEF suiteVars
<1>2. Compared!Robustness' = Compared!Robustness
  BY <1>1 DEF Compared!Robustness, Compared!SeedsWhere, Compared!ExpectedDirection
<1>3. Start' = Start /\ (\A w : Now(w)' = Now(w)) /\ Deltas' = Deltas
  BY <1>1 DEF Start, Now, Deltas
<1>4. SuiteTypes'
  BY <1>1, <1>3 DEF SuiteInv, SuiteTypes
<1>5. Stands'
  BY <1>1, <1>2 DEF SuiteInv, Stands, InPay, Turned, Drawn, Comparable
<1>6. scenario.shock # 0 => Remembers'
  BY <1>1, <1>3 DEF SuiteInv, Remembers, InPay, Turned, BaselineTold, BaselineEnded, ScenarioFollows, SameUntil
<1> QED BY <1>1, <1>4, <1>5, <1>6 DEF SuiteInv

LEMMA SuiteInvStep ==
    ASSUME SuiteInv, Compared!CommonNext \/ UNCHANGED suiteVars
    PROVE  SuiteInv'
<1>1. SuiteTypes /\ Stands /\ (scenario.shock # 0 => Remembers)
  BY DEF SuiteInv
<1>2. CASE Compared!Originate
  <2>1. suiteAt.phase = "originate"
    BY <1>2 DEF Compared!Originate
  <2>2. \/ /\ suiteAt = [phase |-> "originate", run |-> "baseline"]
           /\ tape = Compared!NoTape /\ book = [w \in SuiteRuns |-> Compared!NoBook]
        \/ Turned /\ Drawn /\ book["scenario"] = Compared!NoBook
    BY <1>1, <2>1 DEF Stands, InPay
  <2> QED BY <1>1, <1>2, <2>2, BaselineOriginates, ScenarioOriginates
<1>3. CASE Compared!PayContract \/ Compared!EndMonth
  <2>1. suiteAt.phase = "pay"
    BY <1>3 DEF Compared!PayContract, Compared!EndMonth
  <2>2. \/ InPay("baseline") /\ Drawn /\ book["scenario"] = Compared!NoBook
        \/ InPay("scenario") /\ Comparable
    BY <1>1, <2>1 DEF Stands, Turned
  <2> QED BY <1>1, <1>3, <2>2, BaselinePays, ScenarioPays, BaselineEndsMonth, ScenarioEndsMonth
<1>4. CASE Compared!WriteManifest
  <2>1. suiteAt.phase = "compare"
    BY <1>4 DEF Compared!WriteManifest
  <2>2. suiteAt = [phase |-> "compare"] /\ Comparable
    BY <1>1, <2>1 DEF Stands, Turned, InPay
  <2> QED BY <1>1, <1>4, <2>2, ManifestWritten
<1>5. CASE Compared!NextSeed \/ Compared!SummarizeSeeds \/ Compared!Refuse
  BY <1>1, <1>5, SeedsGoOn
<1> QED BY <1>2, <1>3, <1>4, <1>5, SuiteStutters DEF Compared!CommonNext

(***************************************************************************)
(* Where a suite and its sweep stand, for any population, number of months *)
(* and seeds, and any scenarios whose files are as they say (suite.py,     *)
(* montecarlo.py).                                                         *)
(***************************************************************************)
THEOREM SuiteInvariant == StudiesSpec => [](focus = "suite" => SuiteInv)
<1>1. FocusInit /\ StudiesInit => (focus = "suite" => SuiteInv)
  BY SuiteBegins DEF StudiesInit, SuiteInit
<1>2. (focus = "suite" => SuiteInv) /\ [StudiesNext]_studiesVars => (focus = "suite" => SuiteInv)'
  BY FocusMoves, SuiteInvStep
<1> QED BY <1>1, <1>2, PTL DEF StudiesSpec

LEMMA SweepsAgree ==
    ASSUME SuiteInv
    PROVE  Compared!ScenariosAreCounterfactual
<1>1. suiteReport.written => suiteReport.crn /\ suiteReport.checks
  BY DEF SuiteInv, SuiteTypes
<1>2. ASSUME suiteAt.phase = "summarized"
      PROVE  /\ \A s \in DOMAIN deltas : \/ suiteAt.robustness.observed[s] \in {0, Compared!ExpectedDirection}
                                         \/ Compared!ExpectedDirection = 0
             /\ scenario.shock # 0 => suiteAt.robustness.identical = suiteAt.robustness.of
  <2>1. suiteAt = [phase |-> "summarized", robustness |-> Compared!Robustness]
    BY <1>2 DEF SuiteInv, Stands, InPay, Turned
  <2>2. suiteAt.robustness = Compared!Robustness
    BY <2>1
  <2>3. deltas \in Seq(Deltas) /\ DOMAIN deltas = 1..Len(deltas) /\ Len(deltas) \in Nat
        /\ \A s \in DOMAIN deltas : deltas[s] \in Deltas
    BY DEF SuiteInv, SuiteTypes
  <2> DEFINE identical == {s \in DOMAIN deltas : deltas[s].preShock.identical}
  <2>4. /\ Compared!Robustness.observed = [s \in DOMAIN deltas |-> Compared!ObservedDirection(deltas[s].approvals)]
        /\ Compared!Robustness.identical = Compared!Cardinality(identical)
        /\ Compared!Robustness.of = Len(deltas)
    BY DEF Compared!Robustness, Compared!SeedsWhere
  <2>5. ASSUME NEW s \in DOMAIN deltas
        PROVE  \/ suiteAt.robustness.observed[s] \in {0, Compared!ExpectedDirection}
               \/ Compared!ExpectedDirection = 0
    <3>1. deltas[s].approvals \in Int
          /\ (scenario.name = "policy_expansion" => deltas[s].approvals >= 0)
          /\ (scenario.name = "policy_tightening" => deltas[s].approvals <= 0)
      BY <2>3 DEF Deltas
    <3>2. suiteAt.robustness.observed[s] = Compared!ObservedDirection(deltas[s].approvals)
      BY <2>2, <2>4
    <3> QED BY <3>1, <3>2 DEF Compared!ObservedDirection, Compared!ExpectedDirection
  <2>6. ASSUME scenario.shock # 0
        PROVE  suiteAt.robustness.identical = suiteAt.robustness.of
    <3>1. identical = 1..Len(deltas)
      BY <2>3, <2>6 DEF Deltas
    <3>2. Cardinality(1..Len(deltas)) = Len(deltas)
      BY <2>3, FS_Interval
    <3> HIDE DEF identical
    <3> QED BY <2>2, <2>4, <3>1, <3>2, ComparedCardinality
  <2> QED BY <2>5, <2>6
<1> QED BY <1>1, <1>2 DEF Compared!ScenariosAreCounterfactual

(***************************************************************************)
(* docs/common_random_numbers.md: a suite that is written has one          *)
(* population and passes its directional checks; no seed of a sweep moves  *)
(* the approvals against the expected direction, and under a shock all are *)
(* identical before it.                                                    *)
(***************************************************************************)
THEOREM ScenariosCompareOneWorld == StudiesSpec => []ScenariosAreCounterfactual
<1>1. (focus = "suite" => SuiteInv) => ScenariosAreCounterfactual
  BY SweepsAgree DEF ScenariosAreCounterfactual
<1> QED BY <1>1, SuiteInvariant, PTL

LEMMA PowerIsRecursive ==
    ASSUME NEW b \in Nat \ {0}, NEW n \in Nat
    PROVE  \E p \in [0..n -> Int] :
              p[0] = 1 /\ (\A k \in 1..n : p[k] = b * p[k - 1]) /\ Originated!Power(b, n) = p[n]
<1> DEFINE F == [k \in 1..n |-> [v \in Int |-> b * v]]
           q == CHOOSE p : p = [k \in 0..n |-> IF k = 0 THEN 1 ELSE b * p[k - 1]]
<1>1. F \in [1..n -> [Int -> Int]] /\ \A k \in 1..n, v \in Int : F[k][v] = b * v
  OBVIOUS
<1> HIDE DEF F
<1>2. PICK f \in [0..n -> Int] : f[0] = 1 /\ \A k \in 1..n : f[k] = F[k][f[k - 1]]
  <2>1. 1 \in Int
    OBVIOUS
  <2> QED BY <1>1, <2>1, Recursion
<1>3. f = [k \in 0..n |-> IF k = 0 THEN 1 ELSE b * f[k - 1]]
  <2>1. ASSUME NEW k \in 1..n PROVE f[k] = b * f[k - 1]
    <3>1. f[k - 1] \in Int /\ f[k] = F[k][f[k - 1]]
      BY <1>2
    <3> QED BY <1>1, <3>1
  <2> QED BY <1>2, <2>1
<1>4. q = [k \in 0..n |-> IF k = 0 THEN 1 ELSE b * q[k - 1]]
  BY <1>3
<1>5. Originated!Power(b, n) = q[n]
  BY DEF Originated!Power
<1> HIDE DEF q
<1>6. q[0] = 1 /\ \A k \in 1..n : q[k] = b * q[k - 1]
  BY <1>4
<1> DEFINE Good == {k \in 0..n : q[k] \in Int}
<1>7. 0 \in Good /\ \A k \in 0..n : k \in Good /\ k + 1 <= n => k + 1 \in Good
  BY <1>6
<1>8. \A k \in 0..n : k \in Good
  <2> HIDE DEF Good
  <2> QED BY <1>7, UpToInduction
<1>9. q \in [0..n -> Int]
  BY <1>4, <1>8
<1> QED BY <1>5, <1>6, <1>9

LEMMA PowerDef ==
    ASSUME NEW b \in Nat \ {0}
    PROVE  /\ Originated!Power(b, 0) = 1
           /\ \A n \in Nat : /\ Originated!Power(b, n) \in Nat \ {0}
                             /\ Originated!Power(b, n + 1) = b * Originated!Power(b, n)
<1>1. Originated!Power(b, 0) = 1
  <2>1. 0 \in Nat
    OBVIOUS
  <2> QED BY <2>1, PowerIsRecursive
<1>2. ASSUME NEW n \in Nat
      PROVE  /\ Originated!Power(b, n) \in Nat \ {0}
             /\ Originated!Power(b, n + 1) = b * Originated!Power(b, n)
  <2>1. PICK p \in [0..n -> Int] :
            p[0] = 1 /\ (\A k \in 1..n : p[k] = b * p[k - 1]) /\ Originated!Power(b, n) = p[n]
    BY PowerIsRecursive
  <2>2. PICK q \in [0..(n + 1) -> Int] :
            /\ q[0] = 1 /\ \A k \in 1..(n + 1) : q[k] = b * q[k - 1]
            /\ Originated!Power(b, n + 1) = q[n + 1]
    <3>1. n + 1 \in Nat
      OBVIOUS
    <3> QED BY <3>1, PowerIsRecursive
  <2>3. \A k \in 1..n : p[k] = b * p[k - 1] /\ q[k] = b * q[k - 1]
    BY <2>1, <2>2
  <2> DEFINE Same == {k \in 0..n : p[k] = q[k]}
  <2>4. 0 \in Same /\ \A k \in 0..n : k \in Same /\ k + 1 <= n => k + 1 \in Same
    BY <2>1, <2>2, <2>3
  <2>8. p[n] = q[n]
    <3> HIDE DEF Same
    <3>1. \A k \in 0..n : k \in Same
      BY <2>4, UpToInduction
    <3> QED BY <3>1 DEF Same
  <2>5. q[n + 1] = b * q[n]
    BY <2>2
  <2> DEFINE Good == {k \in 0..n : p[k] \in Nat \ {0}}
  <2>6. 0 \in Good /\ \A k \in 0..n : k \in Good /\ k + 1 <= n => k + 1 \in Good
    <3>1. \A x \in Nat \ {0} : b * x \in Nat \ {0}
      BY Z3
    <3>2. 0 \in Good
      BY <2>1
    <3>3. ASSUME NEW k \in 0..n, p[k] \in Nat \ {0}, k + 1 <= n PROVE p[k + 1] \in Nat \ {0}
      <4>1. k + 1 \in 1..n /\ (k + 1) - 1 = k
        BY <3>3
      <4>2. p[k + 1] = b * p[k]
        BY <2>1, <4>1
      <4> QED BY <3>1, <3>3, <4>2
    <3>4. ASSUME NEW k \in 0..n, k \in Good, k + 1 <= n PROVE k + 1 \in Good
      <4>1. k + 1 \in 0..n
        BY <3>4
      <4> QED BY <3>3, <3>4, <4>1
    <3> HIDE DEF Good
    <3> QED BY <3>2, <3>4
  <2>7. \A k \in 0..n : k \in Good
    <3> HIDE DEF Good
    <3> QED BY <2>6, UpToInduction
  <2> QED BY <2>1, <2>2, <2>5, <2>7, <2>8
<1> QED BY <1>1, <1>2

(* A division rounded half up is within half of its divisor.               *)
LEMMA HalfUpNearest ==
    ASSUME NEW a \in Int, NEW b \in Nat \ {0}
    PROVE  LET q == Originated!HalfUp(a, b) IN
           /\ q \in Int
           /\ a >= 0 => q >= 0 /\ 2 * a - b < 2 * (b * q) /\ 2 * (b * q) <= 2 * a + b
           /\ a < 0 => q <= 0 /\ 2 * a - b <= 2 * (b * q) /\ 2 * (b * q) < 2 * a + b
<1>1. ASSUME NEW x \in Nat
      PROVE  LET q == (2 * x + b) \div (2 * b) IN
             /\ q \in Nat /\ 2 * x - b < 2 * (b * q) /\ 2 * (b * q) <= 2 * x + b
  <2> DEFINE y == 2 * b
             q == (2 * x + b) \div y
  <2>1. y \in Nat \ {0} /\ 2 * x + b \in Nat
    OBVIOUS
  <2>2. ASSUME NEW c \in Nat, NEW d \in Nat \ {0}
        PROVE  c \div d \in Nat /\ d * (c \div d) <= c /\ c < d * (c \div d) + d
    BY Z3
  <2> HIDE DEF y, q
  <2>3. q \in Nat /\ y * q <= 2 * x + b /\ 2 * x + b < y * q + y
    BY <2>1, <2>2 DEF q
  <2>4. y * q = 2 * (b * q)
    BY <2>3, Z3 DEF y
  <2>5. b * q \in Int
    BY <2>3, Z3
  <2> QED BY <2>3, <2>4, <2>5 DEF q, y
<1>2. CASE a >= 0
  <2>1. Originated!HalfUp(a, b) = (2 * a + b) \div (2 * b)
    BY <1>2 DEF Originated!HalfUp
  <2>2. a \in Nat
    BY <1>2
  <2> HIDE <1>2
  <2> QED BY <1>1, <1>2, <2>1, <2>2
<1>3. CASE a < 0
  <2> DEFINE p == (2 * (-a) + b) \div (2 * b)
  <2>1. Originated!HalfUp(a, b) = -p
    BY <1>3 DEF Originated!HalfUp
  <2>2. p \in Nat /\ 2 * (-a) - b < 2 * (b * p) /\ 2 * (b * p) <= 2 * (-a) + b
    <3>1. -a \in Nat
      BY <1>3
    <3> QED BY <1>1, <3>1
  <2> HIDE DEF p
  <2>3. b * (-p) = -(b * p) /\ b * p \in Int
    BY <2>2, Z3
  <2> QED BY <1>3, <2>1, <2>2, <2>3
<1> QED BY <1>2, <1>3

(* Rounding keeps the order of fractions.                                  *)
LEMMA HalfUpMonotone ==
    ASSUME NEW a \in Nat, NEW b \in Nat \ {0}, NEW c \in Nat, NEW d \in Nat \ {0}, a * d <= c * b
    PROVE  Originated!HalfUp(a, b) <= Originated!HalfUp(c, d)
<1> DEFINE p == Originated!HalfUp(a, b)
           q == Originated!HalfUp(c, d)
<1>1. p \in Int /\ 2 * (b * p) <= 2 * a + b
  BY HalfUpNearest
<1>2. q \in Int /\ 2 * c - d < 2 * (d * q)
  BY HalfUpNearest
<1> HIDE DEF p, q
<1>3. SUFFICES ASSUME q + 1 <= p PROVE FALSE
  BY <1>1, <1>2 DEF p, q
<1>4. d * (q + 1) <= d * p /\ d * (q + 1) = d * q + d
  BY <1>1, <1>2, <1>3, Z3
<1>5. d * q \in Int /\ d * p \in Int /\ b * p \in Int
  BY <1>1, <1>2, Z3
<1>6. 2 * c + d < 2 * (d * p)
  BY <1>2, <1>4, <1>5
<1>7. b * (2 * c + d) < b * (2 * (d * p))
  BY <1>5, <1>6, Z3
<1>8. d * (2 * (b * p)) <= d * (2 * a + b)
  BY <1>1, <1>5, Z3
<1>9. b * (2 * (d * p)) = d * (2 * (b * p))
  BY <1>1, Z3
<1>10. b * (2 * c + d) = 2 * (c * b) + b * d /\ d * (2 * a + b) = 2 * (a * d) + b * d
  BY Z3
<1>11. /\ c * b \in Int /\ a * d \in Int /\ b * d \in Int
       /\ b * (2 * (d * p)) \in Int /\ d * (2 * (b * p)) \in Int
  BY <1>1, Z3
<1> QED BY <1>7, <1>8, <1>9, <1>10, <1>11

(* It keeps the order of numerators, also of negative ones.                *)
LEMMA HalfUpInOrder ==
    ASSUME NEW a \in Int, NEW c \in Int, a <= c, NEW b \in Nat \ {0}
    PROVE  Originated!HalfUp(a, b) <= Originated!HalfUp(c, b)
<1> DEFINE p == Originated!HalfUp(a, b)
           q == Originated!HalfUp(c, b)
<1>1. /\ p \in Int
      /\ a >= 0 => 2 * (b * p) <= 2 * a + b
      /\ a < 0 => p <= 0 /\ 2 * (b * p) < 2 * a + b
  BY HalfUpNearest
<1>2. /\ q \in Int
      /\ c >= 0 => q >= 0 /\ 2 * c - b < 2 * (b * q)
      /\ c < 0 => 2 * c - b <= 2 * (b * q)
  BY HalfUpNearest
<1> HIDE DEF p, q
<1>3. SUFFICES ASSUME q + 1 <= p PROVE FALSE
  BY <1>1, <1>2 DEF p, q
<1>4. b * (q + 1) <= b * p /\ b * (q + 1) = b * q + b
  BY <1>1, <1>2, <1>3, Z3
<1>5. b * q \in Int /\ b * p \in Int
  BY <1>1, <1>2, Z3
<1> QED BY <1>1, <1>2, <1>3, <1>4, <1>5

LEMMA TimesKeepsOrder ==
    ASSUME NEW m \in Nat, NEW x \in Int, NEW y \in Int, x <= y
    PROVE  m * x \in Int /\ m * y \in Int /\ m * x <= m * y
BY Z3

(* A month of a schedule, exactly: balance is off what would be owed       *)
(* without rounding by off / (d * growth), and bound / (rate * d * growth) *)
(* bounds that, where d is base^k after k months and g is (rate + base)^k. *)
Deviation(amount, growth, grown, power, g, d, balance) ==
    d * (growth * balance) - amount * (grown * d - g * power)
Bound(base, growth, g, d) == base * ((g - d) * growth)

LEMMA OffGrows ==
    ASSUME NEW rate \in Nat \ {0}, NEW base \in Nat \ {0}, NEW growth \in Nat \ {0},
           NEW amount \in Int, NEW grown \in Int, NEW power \in Int, NEW g \in Int, NEW d \in Nat,
           NEW balance \in Int, NEW interest \in Int, NEW level \in Int,
           LET off == rate * Deviation(amount, growth, grown, power, g, d, balance) IN
               off <= Bound(base, growth, g, d) /\ -off <= Bound(base, growth, g, d),
           LET u == 2 * (base * interest - balance * rate) IN u <= base /\ -u <= base,
           LET v == 2 * (base * growth * level - amount * rate * grown) IN
               v <= base * growth /\ -v <= base * growth
    PROVE  LET off == rate * Deviation(amount, growth, grown, power, (rate + base) * g, base * d,
                                 balance + interest - level)
               bound == Bound(base, growth, (rate + base) * g, base * d)
           IN  off <= bound /\ -off <= bound
<1> DEFINE x == Deviation(amount, growth, grown, power, g, d, balance)
           u == base * interest - balance * rate
           v == base * growth * level - amount * rate * grown
           t == Bound(base, growth, g, d)
           w == growth * u - v
           y == Deviation(amount, growth, grown, power, (rate + base) * g, base * d, balance + interest - level)
           s == Bound(base, growth, (rate + base) * g, base * d)
           bg == base * growth
<1>1. /\ x \in Int /\ t \in Int /\ y \in Int /\ s \in Int
      /\ u \in Int /\ v \in Int /\ w \in Int /\ bg \in Nat
  BY Z3 DEF Deviation, Bound
<1>2. y = (rate + base) * x + d * w
  BY Z3 DEF Deviation
<1>3. s = (rate + base) * t + rate * (d * bg)
  BY Z3 DEF Bound
<1>4. /\ rate * x <= t /\ -(rate * x) <= t /\ 2 * u <= base /\ -(2 * u) <= base
      /\ 2 * v <= bg /\ -(2 * v) <= bg
  OBVIOUS
<1> HIDE DEF x, t, y, s, u, v
<1>5. growth * (2 * u) <= growth * base /\ growth * (-(2 * u)) <= growth * base
  BY <1>1, <1>4, TimesKeepsOrder
<1>6. /\ growth * (2 * u) = 2 * (growth * u) /\ growth * (-(2 * u)) = -(2 * (growth * u))
      /\ growth * base = bg /\ growth * u \in Int
  BY <1>1, Z3
<1>7. w <= bg /\ -w <= bg
  <2> HIDE DEF bg
  <2> QED BY <1>1, <1>4, <1>5, <1>6
<1> HIDE DEF w, bg
<1> DEFINE rx == rate * x
<1>8. rx \in Int /\ rx <= t /\ -rx <= t
  BY <1>1, <1>4, Z3
<1> HIDE DEF rx
<1>9. (rate + base) * rx <= (rate + base) * t /\ (rate + base) * (-rx) <= (rate + base) * t
  <2>1. rate + base \in Nat /\ -rx \in Int
    BY <1>8
  <2> QED BY <1>1, <1>8, <2>1, TimesKeepsOrder
<1>10. /\ (rate * d) * w <= (rate * d) * bg /\ (rate * d) * (-w) <= (rate * d) * bg
  <2>1. rate * d \in Nat /\ -w \in Int
    BY <1>1, Z3
  <2> QED BY <1>1, <1>7, <2>1, TimesKeepsOrder
<1>11. /\ rate * y = (rate + base) * rx + (rate * d) * w
       /\ (rate + base) * (-rx) = -((rate + base) * rx)
       /\ (rate * d) * (-w) = -((rate * d) * w)
       /\ rate * (d * bg) = (rate * d) * bg
  BY <1>1, <1>2, <1>8, Z3 DEF rx
<1>12. /\ (rate + base) * rx \in Int /\ (rate + base) * t \in Int
       /\ (rate * d) * w \in Int /\ (rate * d) * bg \in Int
  BY <1>1, <1>8, Z3
<1>13. rate * y <= s /\ -(rate * y) <= s
  BY <1>3, <1>9, <1>10, <1>11, <1>12
<1> QED BY <1>13 DEF y, s

-----------------------------------------------------------------------------
(***************************************************************************)
(* Amortisation (generation/schedules.py), for any amount, term and rate.  *)
(***************************************************************************)
LEMMA OriginConstants ==
    /\ OriginCustomers \in Nat \ {0} /\ OriginMaxApplications \in Nat /\ OriginPeriodEnd \in Nat
    /\ OriginArrivals \subseteq 0..OriginPeriodEnd /\ OriginOffsets \subseteq 0..OriginPeriodEnd
    /\ OriginLoans \subseteq Nat \X Nat /\ OriginDelays \subseteq Nat \X Nat \X Nat
    /\ OriginMaxTerm \in Nat /\ OriginRateNum \in Nat \ {0} /\ OriginRateDen \in Nat \ {0}
    /\ OriginMonthDays \in Seq(28..31) /\ OriginMonthDays # <<>>
    /\ Originated!LoansOutweighRounding /\ Originated!CalendarIsLongEnough
BY StudiesAssumption, Zenon DEF StudiesAssumption, Originated!OriginationAssumption

LEMMA RateConstants == OriginRateNum \in Nat \ {0} /\ OriginRateDen \in Nat \ {0}
BY OriginConstants

GrownIn(n) == Originated!Power(OriginRateNum + OriginRateDen, n)
BaseIn(n) == Originated!Power(OriginRateDen, n)

LEMMA GrowthDef ==
    /\ GrownIn(0) = 1 /\ BaseIn(0) = 1
    /\ \A n \in Nat :
          /\ GrownIn(n) \in Nat \ {0} /\ BaseIn(n) \in Nat \ {0}
          /\ GrownIn(n + 1) = (OriginRateNum + OriginRateDen) * GrownIn(n)
          /\ BaseIn(n + 1) = OriginRateDen * BaseIn(n)
          /\ Originated!Growth(n) = GrownIn(n) - BaseIn(n)
          /\ Originated!Grown(n) = GrownIn(n)
<1>1. OriginRateDen \in Nat \ {0} /\ OriginRateNum + OriginRateDen \in Nat \ {0}
  BY RateConstants
<1> QED BY <1>1, PowerDef DEF GrownIn, BaseIn, Originated!Growth, Originated!Grown

LEMMA GrowthIsPositive ==
    ASSUME NEW n \in Nat \ {0}
    PROVE  Originated!Growth(n) \in Nat \ {0}
<1> DEFINE Good == {k \in 0..n : GrownIn(k) >= BaseIn(k)}
<1>1. ASSUME NEW k \in Nat, GrownIn(k) >= BaseIn(k)
      PROVE  GrownIn(k + 1) > BaseIn(k + 1)
  <2>1. GrownIn(k) \in Nat \ {0} /\ BaseIn(k) \in Nat \ {0}
    BY GrowthDef
  <2>2. OriginRateDen * BaseIn(k) <= OriginRateDen * GrownIn(k)
        /\ OriginRateDen * BaseIn(k) \in Int /\ OriginRateDen * GrownIn(k) \in Int
    BY <1>1, <2>1, RateConstants, TimesKeepsOrder
  <2>3. OriginRateNum * 1 <= OriginRateNum * GrownIn(k) /\ OriginRateNum * GrownIn(k) \in Int
    BY <2>1, RateConstants, TimesKeepsOrder
  <2>4. (OriginRateNum + OriginRateDen) * GrownIn(k)
          = OriginRateNum * GrownIn(k) + OriginRateDen * GrownIn(k)
    BY <2>1, RateConstants, Z3
  <2>5. OriginRateDen * BaseIn(k) < OriginRateNum * GrownIn(k) + OriginRateDen * GrownIn(k)
    BY <2>2, <2>3, RateConstants
  <2> QED BY <2>4, <2>5, GrowthDef
<1>2. 0 \in Good /\ \A k \in 0..n : k \in Good /\ k + 1 <= n => k + 1 \in Good
  <2>1. \A k \in 0..n : k + 1 <= n => k + 1 \in 0..n /\ GrownIn(k + 1) \in Int /\ BaseIn(k + 1) \in Int
    BY GrowthDef
  <2> QED BY <1>1, <2>1, GrowthDef
<1>3. \A k \in 0..n : k \in Good
  <2> HIDE DEF Good
  <2> QED BY <1>2, UpToInduction
<1>4. n - 1 \in Nat /\ n - 1 \in 0..n
  OBVIOUS
<1>5. GrownIn((n - 1) + 1) > BaseIn((n - 1) + 1)
  BY <1>1, <1>3, <1>4
<1>6. (n - 1) + 1 = n
  OBVIOUS
<1> QED BY <1>5, <1>6, GrowthDef

(* Interest is within half a cent, a level payment within half a cent.     *)
LEMMA InterestNearest ==
    ASSUME NEW balance \in Int
    PROVE  LET i == Originated!Interest(balance)
               u == 2 * (OriginRateDen * i - balance * OriginRateNum)
           IN  /\ i \in Int /\ u <= OriginRateDen /\ -u <= OriginRateDen
               /\ balance >= 0 => i >= 0
               /\ balance < 0 => i <= 0
<1> DEFINE a == balance * OriginRateNum
           i == Originated!Interest(balance)
<1>1. a \in Int /\ (balance >= 0 => a >= 0) /\ (balance < 0 => a < 0)
  BY RateConstants, Z3
<1>2. /\ i \in Int
      /\ a >= 0 => i >= 0 /\ 2 * a - OriginRateDen < 2 * (OriginRateDen * i)
                   /\ 2 * (OriginRateDen * i) <= 2 * a + OriginRateDen
      /\ a < 0 => i <= 0 /\ 2 * a - OriginRateDen <= 2 * (OriginRateDen * i)
                  /\ 2 * (OriginRateDen * i) < 2 * a + OriginRateDen
  <2> HIDE DEF a
  <2>1. i = Originated!HalfUp(a, OriginRateDen)
    BY DEF a, Originated!Interest
  <2> QED BY <1>1, <2>1, RateConstants, HalfUpNearest
<1>3. OriginRateDen * i \in Int
  BY <1>2, RateConstants, Z3
<1> HIDE DEF a, i
<1>4. /\ 2 * (OriginRateDen * i - a) <= OriginRateDen
      /\ -(2 * (OriginRateDen * i - a)) <= OriginRateDen
  BY <1>1, <1>2, <1>3, RateConstants
<1> QED BY <1>1, <1>2, <1>4 DEF a, i

LEMMA LevelNearest ==
    ASSUME NEW amount \in Nat, NEW n \in Nat \ {0}
    PROVE  LET level == Originated!LevelPayment(amount, n)
               half == OriginRateDen * Originated!Growth(n)
               v == 2 * (half * level - amount * OriginRateNum * GrownIn(n))
           IN  level \in Nat /\ v <= half /\ -v <= half
<1> DEFINE a == amount * OriginRateNum * GrownIn(n)
           b == OriginRateDen * Originated!Growth(n)
           level == Originated!LevelPayment(amount, n)
<1>1. a \in Nat
  <2>1. GrownIn(n) \in Nat
    BY GrowthDef
  <2> QED BY <2>1, RateConstants, Z3
<1>2. b \in Nat \ {0}
  BY RateConstants, GrowthIsPositive, Z3
<1>3. level = Originated!HalfUp(a, b)
  BY GrowthDef DEF Originated!LevelPayment
<1> HIDE DEF a, b, level
<1>4. /\ level \in Int /\ level >= 0
      /\ 2 * a - b < 2 * (b * level) /\ 2 * (b * level) <= 2 * a + b
  BY <1>1, <1>2, <1>3, HalfUpNearest
<1>5. b * level \in Int
  BY <1>2, <1>4, Z3
<1>6. level \in Nat /\ 2 * (b * level - a) <= b /\ -(2 * (b * level - a)) <= b
  BY <1>1, <1>2, <1>4, <1>5
<1> QED BY <1>6 DEF a, b, level

(* What is owed follows its recursion: level payments, and in the end all  *)
(* of the balance.                                                         *)
LEMMA BalancesDef ==
    ASSUME NEW amount \in Nat, NEW n \in Nat \ {0}
    PROVE  LET owed == Originated!Balances(amount, n)
               level == Originated!LevelPayment(amount, n)
           IN  /\ owed[0] = amount /\ owed[n] = 0
               /\ \A k \in 0..n : owed[k] \in Int
               /\ \A k \in 1..(n - 1) : owed[k] = owed[k - 1] - (level - Originated!Interest(owed[k - 1]))
<1> DEFINE level == Originated!LevelPayment(amount, n)
           Paid(k, b) == Originated!Principal(n, k, level, Originated!Interest(b), b)
           F == [k \in 1..n |-> [v \in Int |-> v - Paid(k, v)]]
           q == Originated!Balances(amount, n)
<1>1. level \in Int
  BY LevelNearest
<1> HIDE DEF level
<1>2. \A k \in 1..n, v \in Int : v - Paid(k, v) \in Int
  BY <1>1, InterestNearest DEF Originated!Principal
<1> HIDE DEF Paid
<1>3. F \in [1..n -> [Int -> Int]] /\ \A k \in 1..n, v \in Int : F[k][v] = v - Paid(k, v)
  BY <1>2
<1> HIDE DEF F
<1>4. PICK f \in [0..n -> Int] : f[0] = amount /\ \A k \in 1..n : f[k] = F[k][f[k - 1]]
  <2>1. n \in Nat /\ amount \in Int
    OBVIOUS
  <2> QED BY <1>3, <2>1, Recursion
<1>5. f = [k \in 0..n |-> IF k = 0 THEN amount ELSE f[k - 1] - Paid(k, f[k - 1])]
  <2>1. ASSUME NEW k \in 1..n PROVE f[k] = f[k - 1] - Paid(k, f[k - 1])
    <3>1. f[k - 1] \in Int /\ f[k] = F[k][f[k - 1]]
      BY <1>4
    <3> QED BY <1>3, <3>1
  <2> QED BY <1>4, <2>1
<1>6. q = [k \in 0..n |-> IF k = 0 THEN amount ELSE q[k - 1] - Paid(k, q[k - 1])]
  BY <1>5 DEF Originated!Balances, Paid, level
<1> HIDE DEF q
<1>7. q[0] = amount /\ \A k \in 1..n : q[k] = q[k - 1] - Paid(k, q[k - 1])
  BY <1>6
<1> DEFINE Good == {k \in 0..n : q[k] \in Int}
<1>8. 0 \in Good /\ \A k \in 0..n : k \in Good /\ k + 1 <= n => k + 1 \in Good
  <2>1. ASSUME NEW k \in 0..n, q[k] \in Int, k + 1 <= n PROVE q[k + 1] \in Int
    <3>1. k + 1 \in 1..n /\ (k + 1) - 1 = k
      BY <2>1
    <3>2. q[k + 1] = q[k] - Paid(k + 1, q[k])
      BY <1>7, <3>1
    <3> QED BY <1>2, <2>1, <3>1, <3>2
  <2> QED BY <1>7, <2>1
<1>9. \A k \in 0..n : k \in Good
  <2> HIDE DEF Good
  <2>1. n \in Nat
    OBVIOUS
  <2> QED BY <1>8, <2>1, UpToInduction
<1>10. \A k \in 0..n : q[k] \in Int
  BY <1>9
<1>11. q[n] = 0
  <2>1. q[n] = q[n - 1] - Paid(n, q[n - 1]) /\ q[n - 1] \in Int
    BY <1>7, <1>10
  <2> QED BY <2>1 DEF Paid, Originated!Principal
<1>12. \A k \in 1..(n - 1) : q[k] = q[k - 1] - (level - Originated!Interest(q[k - 1]))
  BY <1>7 DEF Paid, Originated!Principal
<1> QED BY <1>7, <1>10, <1>11, <1>12 DEF q, level

(* Where rounding has taken the balance after k months.                    *)
OffIn(amount, n, k, balance) ==
    OriginRateNum * Deviation(amount, Originated!Growth(n), GrownIn(n), BaseIn(n), GrownIn(k), BaseIn(k), balance)
BoundIn(n, k) == Bound(OriginRateDen, Originated!Growth(n), GrownIn(k), BaseIn(k))
Close(amount, n, k, balance) ==
    OffIn(amount, n, k, balance) <= BoundIn(n, k) /\ -OffIn(amount, n, k, balance) <= BoundIn(n, k)

LEMMA CloseAtFirst ==
    ASSUME NEW amount \in Nat, NEW n \in Nat \ {0}
    PROVE  Close(amount, n, 0, amount)
<1> DEFINE m == Originated!Growth(n)
           g == GrownIn(n)
           p == BaseIn(n)
<1>1. m = g - p /\ g \in Int /\ p \in Int /\ n \in Nat
  BY GrowthDef
<1>2. GrownIn(0) = 1 /\ BaseIn(0) = 1
  BY GrowthDef
<1> HIDE DEF m, g, p
<1>3. Deviation(amount, m, g, p, 1, 1, amount) = 0
  BY <1>1, Z3 DEF Deviation
<1>4. Bound(OriginRateDen, m, 1, 1) = 0
  BY <1>1, RateConstants, Z3 DEF Bound
<1>5. OriginRateNum * 0 = 0 /\ -0 <= 0 /\ 0 <= 0
  BY RateConstants
<1> QED BY <1>2, <1>3, <1>4, <1>5 DEF Close, OffIn, BoundIn, m, g, p

LEMMA CloseNext ==
    ASSUME NEW amount \in Nat, NEW n \in Nat \ {0}, NEW k \in Nat, NEW balance \in Int,
           Close(amount, n, k, balance)
    PROVE  Close(amount, n, k + 1,
                 balance + Originated!Interest(balance) - Originated!LevelPayment(amount, n))
<1> DEFINE rate == OriginRateNum
           base == OriginRateDen
           m == Originated!Growth(n)
           grown == GrownIn(n)
           power == BaseIn(n)
           g == GrownIn(k)
           d == BaseIn(k)
           i == Originated!Interest(balance)
           level == Originated!LevelPayment(amount, n)
           off == rate * Deviation(amount, m, grown, power, g, d, balance)
           u == 2 * (base * i - balance * rate)
           v == 2 * (base * m * level - amount * rate * grown)
           noff == rate * Deviation(amount, m, grown, power, (rate + base) * g, base * d, balance + i - level)
           nbound == Bound(base, m, (rate + base) * g, base * d)
<1>1. rate \in Nat \ {0} /\ base \in Nat \ {0}
  BY RateConstants
<1>2. m \in Nat \ {0}
  BY GrowthIsPositive
<1>3. /\ grown \in Int /\ power \in Int /\ g \in Int /\ d \in Nat
      /\ GrownIn(k + 1) = (rate + base) * g /\ BaseIn(k + 1) = base * d
  BY GrowthDef
<1>4. i \in Int /\ u <= base /\ -u <= base
  BY InterestNearest
<1>5. level \in Nat /\ v <= base * m /\ -v <= base * m
  BY LevelNearest
<1>6. off <= Bound(base, m, g, d) /\ -off <= Bound(base, m, g, d)
  BY DEF Close, OffIn, BoundIn
<1> HIDE DEF rate, base, m, grown, power, g, d, i, level
<1>7. noff <= nbound /\ -noff <= nbound
  <2>1. amount \in Int /\ level \in Int
    BY <1>5
  <2> QED BY <1>1, <1>2, <1>3, <1>4, <1>5, <1>6, <2>1, OffGrows
<1>8. OffIn(amount, n, k + 1, balance + i - level) = noff /\ BoundIn(n, k + 1) = nbound
  BY <1>3 DEF OffIn, BoundIn, rate, base, m, grown, power
<1> QED BY <1>7, <1>8 DEF Close, i, level

(* The last installment is off the level one by the roundings and no more. *)
LEMMA LastInstallment ==
    ASSUME NEW amount \in Nat, NEW n \in Nat \ {0}
    PROVE  LET before == Originated!Balances(amount, n)[n - 1]
               off == before + Originated!Interest(before) - Originated!LevelPayment(amount, n)
           IN  /\ before \in Int /\ off \in Int
               /\ Originated!Scaled(off, n) <= Originated!Growth(n)
               /\ Originated!Scaled(-off, n) <= Originated!Growth(n)
<1> DEFINE owed == Originated!Balances(amount, n)
           level == Originated!LevelPayment(amount, n)
           before == owed[n - 1]
           off == before + Originated!Interest(before) - level
<1>1. /\ owed[0] = amount
      /\ \A k \in 0..n : owed[k] \in Int
      /\ \A k \in 1..(n - 1) : owed[k] = owed[k - 1] - (level - Originated!Interest(owed[k - 1]))
  BY BalancesDef
<1>2. level \in Nat
  BY LevelNearest
<1> HIDE DEF owed, level
<1> DEFINE Good == {k \in 0..(n - 1) : Close(amount, n, k, owed[k])}
<1>3. 0 \in Good
  BY <1>1, CloseAtFirst
<1>4. ASSUME NEW k \in 0..(n - 1), k \in Good, k + 1 <= n - 1 PROVE k + 1 \in Good
  <2>1. owed[k] \in Int /\ Originated!Interest(owed[k]) \in Int
    BY <1>1, InterestNearest
  <2>2. Close(amount, n, k + 1, owed[k] + Originated!Interest(owed[k]) - level)
    <3>1. k \in Nat /\ Close(amount, n, k, owed[k])
      BY <1>4
    <3> QED BY <2>1, <3>1, CloseNext DEF level
  <2>3. owed[k + 1] = owed[k] + Originated!Interest(owed[k]) - level
    <3>1. k + 1 \in 1..(n - 1) /\ (k + 1) - 1 = k
      BY <1>4
    <3> QED BY <1>1, <1>2, <2>1, <3>1
  <2> QED BY <1>4, <2>2, <2>3
<1>5. Close(amount, n, n - 1, before)
  <2> HIDE DEF Good
  <2>1. n - 1 \in Nat
    OBVIOUS
  <2>2. \A k \in 0..(n - 1) : k \in Good
    BY <1>3, <1>4, <2>1, UpToInduction
  <2>3. n - 1 \in Good
    BY <2>1, <2>2
  <2> QED BY <2>3 DEF Good
<1>6. before \in Int /\ Originated!Interest(before) \in Int
  BY <1>1, InterestNearest
<1> HIDE DEF before
<1>7. Close(amount, n, n, off)
  <2>1. n - 1 \in Nat /\ (n - 1) + 1 = n
    OBVIOUS
  <2>2. Close(amount, n, (n - 1) + 1, off)
    BY <1>5, <1>6, <2>1, CloseNext DEF level
  <2> QED BY <2>1, <2>2
<1>8. off \in Int
  BY <1>2, <1>6
<1> HIDE DEF off
<1> DEFINE m == Originated!Growth(n)
           c == OriginRateNum * BaseIn(n - 1)
           bm == OriginRateDen * m
<1>9. /\ m \in Nat \ {0} /\ m = GrownIn(n) - BaseIn(n)
      /\ GrownIn(n) \in Int /\ BaseIn(n) = OriginRateDen * BaseIn(n - 1) /\ BaseIn(n - 1) \in Nat
  <2>1. n - 1 \in Nat /\ (n - 1) + 1 = n
    OBVIOUS
  <2>2. BaseIn((n - 1) + 1) = OriginRateDen * BaseIn(n - 1) /\ BaseIn(n - 1) \in Nat
    BY <2>1, GrowthDef
  <2> QED BY <2>1, <2>2, GrowthDef, GrowthIsPositive
<1> HIDE DEF m
<1>10. OffIn(amount, n, n, off) = bm * (c * off)
  <2> DEFINE g == GrownIn(n)
             e == BaseIn(n - 1)
  <2>1. OffIn(amount, n, n, off)
          = OriginRateNum * (OriginRateDen * e * (m * off)
                - amount * (g * (OriginRateDen * e) - g * (OriginRateDen * e)))
    BY <1>9 DEF OffIn, Deviation, m
  <2>2. g \in Int /\ e \in Nat
    BY <1>9
  <2> HIDE DEF g, e
  <2>3. OriginRateNum * (OriginRateDen * e * (m * off)
                - amount * (g * (OriginRateDen * e) - g * (OriginRateDen * e)))
          = OriginRateDen * m * (OriginRateNum * e * off)
    BY <1>8, <1>9, <2>2, RateConstants, Z3
  <2> QED BY <2>1, <2>3 DEF e
<1>11. BoundIn(n, n) = bm * m
  <2>1. BoundIn(n, n) = OriginRateDen * (m * m)
    BY <1>9 DEF BoundIn, Bound, m
  <2> QED BY <1>9, <2>1, RateConstants, Z3
<1>12. bm \in Nat \ {0} /\ c \in Nat /\ c * off \in Int
  BY <1>8, <1>9, RateConstants, Z3
<1>13. bm * (c * off) <= bm * m /\ -(bm * (c * off)) <= bm * m
  BY <1>7, <1>10, <1>11 DEF Close
<1>14. Originated!Scaled(off, n) = c * off /\ Originated!Scaled(-off, n) = -(c * off)
  <2>1. /\ Originated!Scaled(off, n) = off * OriginRateNum * BaseIn(n - 1)
        /\ Originated!Scaled(-off, n) = (-off) * OriginRateNum * BaseIn(n - 1)
    BY DEF Originated!Scaled, BaseIn
  <2> QED BY <1>8, <1>9, <2>1, RateConstants, Z3
<1> HIDE DEF bm, c
<1>15. ASSUME NEW x \in Int, bm * x <= bm * m PROVE x <= m
  BY <1>9, <1>12, <1>15, Z3
<1>16. bm * (-(c * off)) = -(bm * (c * off)) /\ -(c * off) \in Int
  BY <1>12, Z3
<1>17. c * off <= m /\ -(c * off) <= m
  BY <1>12, <1>13, <1>15, <1>16
<1> QED BY <1>6, <1>8, <1>14, <1>17 DEF off, before, owed, level, m

(* Interest never exceeds the level payment, the balance never grows, and  *)
(* if the level payment outweighs the roundings, it never turns negative.  *)
LEMMA BalancesFall ==
    ASSUME NEW amount \in Nat, NEW n \in Nat \ {0},
           Originated!Scaled(Originated!LevelPayment(amount, n), n) >= Originated!Growth(n)
    PROVE  LET owed == Originated!Balances(amount, n)
               level == Originated!LevelPayment(amount, n)
           IN  /\ \A k \in 0..(n - 1) : owed[k] \in Nat
               /\ \A k \in 1..n : Originated!Interest(owed[k - 1]) \in Nat
               /\ \A k \in 1..(n - 1) : Originated!Interest(owed[k - 1]) <= level
<1> DEFINE owed == Originated!Balances(amount, n)
           level == Originated!LevelPayment(amount, n)
           Interest(b) == Originated!Interest(b)
<1>1. /\ owed[0] = amount
      /\ \A k \in 0..n : owed[k] \in Int
      /\ \A k \in 1..(n - 1) : owed[k] = owed[k - 1] - (level - Interest(owed[k - 1]))
  BY BalancesDef
<1>2. level \in Nat
  BY LevelNearest
<1>3. \A b \in Int : Interest(b) \in Int /\ (b >= 0 => Interest(b) >= 0) /\ (b < 0 => Interest(b) <= 0)
  BY InterestNearest
<1>4. Interest(amount) <= level
  <2> DEFINE a == amount * OriginRateNum
             b == OriginRateDen
             g == GrownIn(n)
             m == Originated!Growth(n)
             c == amount * OriginRateNum * g
             d == OriginRateDen * m
  <2>1. /\ g \in Nat /\ m \in Nat \ {0} /\ m <= g
    BY GrowthDef, GrowthIsPositive
  <2>2. a \in Nat /\ c = a * g /\ c \in Nat /\ d \in Nat \ {0} /\ d = b * m /\ b \in Nat \ {0}
    <3> HIDE DEF g, m
    <3> QED BY <2>1, RateConstants, Z3
  <2>3. Interest(amount) = Originated!HalfUp(a, b) /\ level = Originated!HalfUp(c, d)
    BY GrowthDef DEF Originated!Interest, Originated!LevelPayment
  <2> HIDE DEF a, b, g, m, c, d, level
  <2>4. a * b \in Nat
    BY <2>2, Z3
  <2>5. (a * b) * m <= (a * b) * g
    BY <2>1, <2>4, TimesKeepsOrder
  <2>6. a * d = (a * b) * m /\ c * b = (a * b) * g
    BY <2>1, <2>2, Z3
  <2> QED BY <2>2, <2>3, <2>5, <2>6, HalfUpMonotone
<1>5. ASSUME NEW x \in Int, NEW y \in Int, x <= y PROVE Interest(x) <= Interest(y)
  <2>1. OriginRateNum * x <= OriginRateNum * y
    BY <1>5, RateConstants, TimesKeepsOrder
  <2>2. x * OriginRateNum = OriginRateNum * x /\ y * OriginRateNum = OriginRateNum * y
        /\ x * OriginRateNum \in Int /\ y * OriginRateNum \in Int
    BY RateConstants, Z3
  <2>3. x * OriginRateNum <= y * OriginRateNum
    BY <2>1, <2>2
  <2> QED BY <2>2, <2>3, RateConstants, HalfUpInOrder DEF Originated!Interest
<1>6. LET off == owed[n - 1] + Interest(owed[n - 1]) - level
      IN  off \in Int /\ Originated!Scaled(-off, n) <= Originated!Growth(n)
  BY LastInstallment
<1> HIDE DEF owed, level, Interest
<1>7. ASSUME NEW b \in Int, b <= amount PROVE Interest(b) <= level
  <2>1. Interest(b) <= Interest(amount) /\ amount \in Int
    BY <1>5, <1>7
  <2> QED BY <1>2, <1>3, <1>4, <2>1
<1> DEFINE Good == {k \in 0..(n - 1) : owed[k] <= amount}
<1>8. \A k \in 0..(n - 1) : owed[k] <= amount
  <2>1. 0 \in Good
    BY <1>1
  <2>2. ASSUME NEW k \in 0..(n - 1), k \in Good, k + 1 <= n - 1 PROVE k + 1 \in Good
    <3>1. k + 1 \in 1..(n - 1) /\ (k + 1) - 1 = k /\ owed[k] \in Int /\ owed[k] <= amount
      BY <1>1, <2>2
    <3>2. owed[k + 1] = owed[k] - (level - Interest(owed[k]))
      BY <1>1, <3>1
    <3>3. Interest(owed[k]) \in Int /\ Interest(owed[k]) <= level
      BY <1>3, <1>7, <3>1
    <3>4. owed[k + 1] <= amount
      BY <1>2, <3>1, <3>2, <3>3
    <3> QED BY <3>1, <3>4
  <2>3. n - 1 \in Nat
    OBVIOUS
  <2>4. \A k \in 0..(n - 1) : k \in Good
    <3> HIDE DEF Good
    <3> QED BY <2>1, <2>2, <2>3, UpToInduction
  <2> QED BY <2>4
<1> HIDE DEF Good
<1>9. \A k \in 0..(n - 1) : owed[k] \in Int /\ Interest(owed[k]) \in Int /\ Interest(owed[k]) <= level
  BY <1>1, <1>3, <1>7, <1>8
<1>10. owed[n - 1] >= 0
  <2> DEFINE total == owed[n - 1] + Interest(owed[n - 1])
             c == OriginRateNum * BaseIn(n - 1)
             off == owed[n - 1] + Interest(owed[n - 1]) - level
  <2>1. n - 1 \in 0..(n - 1) /\ owed[n - 1] \in Int /\ Interest(owed[n - 1]) \in Int
    BY <1>9
  <2>2. c \in Nat /\ c # 0
    <3>1. BaseIn(n - 1) \in Nat \ {0}
      BY GrowthDef
    <3> QED BY <3>1, RateConstants, Z3
  <2>3. Originated!Growth(n) \in Int
    BY GrowthIsPositive
  <2>4. total \in Int /\ off \in Int
    BY <1>2, <2>1
  <2>5. Originated!Scaled(level, n) = c * level /\ Originated!Scaled(-off, n) = c * (-off)
    <3>1. BaseIn(n - 1) \in Nat
      BY GrowthDef
    <3> HIDE DEF off
    <3>2. /\ Originated!Scaled(level, n) = level * OriginRateNum * BaseIn(n - 1)
          /\ Originated!Scaled(-off, n) = (-off) * OriginRateNum * BaseIn(n - 1)
      BY DEF Originated!Scaled, BaseIn
    <3> QED BY <1>2, <2>4, <3>1, <3>2, RateConstants, Z3
  <2>6. c * (-off) <= c * level
    <3>1. c * (-off) \in Int /\ c * level \in Int
      BY <1>2, <2>2, <2>4, Z3
    <3>2. c * (-off) <= Originated!Growth(n)
      BY <1>6, <2>5
    <3>3. Originated!Growth(n) <= c * level
      BY <2>5 DEF level
    <3> QED BY <2>3, <3>1, <3>2, <3>3
  <2> HIDE DEF c
  <2>7. -off <= level
    <3>1. -off \in Int
      BY <2>4
    <3> HIDE DEF off
    <3> QED BY <1>2, <2>2, <2>6, <3>1, Z3
  <2>8. total >= 0
    BY <1>2, <2>1, <2>7
  <2> QED BY <1>3, <2>1, <2>8
<1> DEFINE Above == {j \in 0..(n - 1) : owed[n - 1 - j] >= 0}
<1>11. \A k \in 0..(n - 1) : owed[k] >= 0
  <2>1. 0 \in Above
    BY <1>10
  <2>2. ASSUME NEW j \in 0..(n - 1), j \in Above, j + 1 <= n - 1 PROVE j + 1 \in Above
    <3> DEFINE k == n - 1 - j
    <3>1. k \in 1..(n - 1) /\ k - 1 \in 0..(n - 1) /\ k - 1 = n - 1 - (j + 1) /\ owed[k] >= 0
      BY <2>2
    <3> HIDE DEF k
    <3>2. owed[k] = owed[k - 1] - (level - Interest(owed[k - 1])) /\ owed[k] \in Int
      BY <1>1, <3>1
    <3>3. owed[k - 1] \in Int /\ Interest(owed[k - 1]) \in Int /\ Interest(owed[k - 1]) <= level
      BY <1>9, <3>1
    <3>4. owed[k - 1] >= 0
      BY <1>2, <3>1, <3>2, <3>3
    <3> QED BY <2>2, <3>1, <3>4
  <2>3. n - 1 \in Nat
    OBVIOUS
  <2>4. \A j \in 0..(n - 1) : j \in Above
    <3> HIDE DEF Above
    <3> QED BY <2>1, <2>2, <2>3, UpToInduction
  <2>5. ASSUME NEW k \in 0..(n - 1) PROVE owed[k] >= 0
    <3>1. n - 1 - k \in 0..(n - 1) /\ n - 1 - (n - 1 - k) = k
      OBVIOUS
    <3>2. n - 1 - k \in Above
      BY <2>4, <3>1
    <3> QED BY <3>1, <3>2
  <2> QED BY <2>5
<1>12. \A k \in 0..(n - 1) : owed[k] \in Nat /\ Interest(owed[k]) \in Nat
  BY <1>3, <1>9, <1>11
<1>13. \A k \in 1..n : k - 1 \in 0..(n - 1)
  OBVIOUS
<1>14. \A k \in 1..(n - 1) : k - 1 \in 0..(n - 1)
  OBVIOUS
<1> QED BY <1>9, <1>12, <1>13, <1>14 DEF owed, level, Interest

LEMMA TotalOf ==
    ASSUME NEW n \in Nat, NEW r \in [1..n -> Int], NEW t \in [0..n -> Int],
           t[0] = 0, \A k \in 1..n : t[k] = t[k - 1] + r[k]
    PROVE  Originated!Total(r, n) = t[n]
<1> DEFINE q == Originated!RunningTotal(r, n)
<1>1. t = [k \in 0..n |-> IF k = 0 THEN 0 ELSE t[k - 1] + r[k]]
  OBVIOUS
<1>2. q = [k \in 0..n |-> IF k = 0 THEN 0 ELSE q[k - 1] + r[k]]
  BY <1>1 DEF Originated!RunningTotal
<1> HIDE DEF q
<1>3. q[0] = 0 /\ \A k \in 1..n : q[k] = q[k - 1] + r[k]
  BY <1>2
<1> DEFINE Same == {k \in 0..n : q[k] = t[k]}
<1>4. 0 \in Same /\ \A k \in 0..n : k \in Same /\ k + 1 <= n => k + 1 \in Same
  BY <1>3
<1>5. \A k \in 0..n : k \in Same
  <2> HIDE DEF Same
  <2> QED BY <1>4, UpToInduction
<1>6. q[n] = t[n]
  BY <1>5
<1> QED BY <1>6 DEF q, Originated!Total

(* The installments of a loan: none is negative, they repay it exactly,    *)
(* and the last is as close to the others as rounding lets it be.          *)
LEMMA ScheduleOfLoan ==
    ASSUME NEW amount \in Nat, NEW n \in Nat \ {0},
           Originated!Scaled(Originated!LevelPayment(amount, n), n) >= Originated!Growth(n)
    PROVE  LET rows == Originated!Amortize(amount, n)
           IN  /\ \A k \in 1..n : /\ rows[k].principal \in Nat /\ rows[k].interest \in Nat
                                  /\ rows[k].total = rows[k].principal + rows[k].interest
               /\ Originated!Total([k \in 1..n |-> rows[k].principal], n) = amount
               /\ Originated!Scaled(Originated!Abs(rows[n].total - Originated!LevelPayment(amount, n)), n)
                     <= Originated!Growth(n)
<1> DEFINE rows == Originated!Amortize(amount, n)
           owed == Originated!Balances(amount, n)
           level == Originated!LevelPayment(amount, n)
           Interest(b) == Originated!Interest(b)
<1>1. ASSUME NEW k \in 1..n
      PROVE  /\ rows[k].interest = Interest(owed[k - 1])
             /\ rows[k].principal = IF k < n THEN level - Interest(owed[k - 1]) ELSE owed[k - 1]
             /\ rows[k].total = rows[k].principal + rows[k].interest
  BY DEF Originated!Amortize, Originated!Principal
<1>2. /\ owed[0] = amount /\ owed[n] = 0
      /\ \A k \in 0..n : owed[k] \in Int
      /\ \A k \in 1..(n - 1) : owed[k] = owed[k - 1] - (level - Interest(owed[k - 1]))
  BY BalancesDef
<1>3. level \in Nat
  BY LevelNearest
<1>4. /\ \A k \in 0..(n - 1) : owed[k] \in Nat
      /\ \A k \in 1..n : Interest(owed[k - 1]) \in Nat
      /\ \A k \in 1..(n - 1) : Interest(owed[k - 1]) <= level
  BY BalancesFall
<1>5. LET before == owed[n - 1]
          off == before + Interest(before) - level
      IN  /\ before \in Int /\ off \in Int
          /\ Originated!Scaled(off, n) <= Originated!Growth(n)
          /\ Originated!Scaled(-off, n) <= Originated!Growth(n)
  BY LastInstallment
<1> HIDE DEF rows, owed, level, Interest
<1>6. ASSUME NEW k \in 1..n
      PROVE  /\ rows[k].principal \in Nat /\ rows[k].interest \in Nat
             /\ rows[k].total = rows[k].principal + rows[k].interest
             /\ rows[k].principal = owed[k - 1] - owed[k]
  <2>1. CASE k < n
    <3>1. k \in 1..(n - 1) /\ rows[k].principal = level - Interest(owed[k - 1])
      BY <1>1, <2>1
    <3>2. /\ Interest(owed[k - 1]) \in Nat /\ Interest(owed[k - 1]) <= level
          /\ owed[k] = owed[k - 1] - (level - Interest(owed[k - 1]))
          /\ owed[k - 1] \in Int
      BY <1>2, <1>4, <3>1
    <3> QED BY <1>1, <1>3, <3>1, <3>2
  <2>2. CASE k = n
    <3>1. rows[k].principal = owed[n - 1] /\ n - 1 \in 0..(n - 1)
      BY <1>1, <2>2
    <3> QED BY <1>1, <1>2, <1>4, <2>2, <3>1
  <2> QED BY <2>1, <2>2
<1>7. Originated!Total([k \in 1..n |-> rows[k].principal], n) = amount
  <2> DEFINE r == [k \in 1..n |-> rows[k].principal]
             t == [k \in 0..n |-> amount - owed[k]]
  <2>1. r \in [1..n -> Int] /\ \A k \in 1..n : r[k] = owed[k - 1] - owed[k]
    BY <1>6
  <2>2. /\ t \in [0..n -> Int] /\ t[n] = amount /\ t[0] = 0
        /\ \A k \in 0..n : t[k] = amount - owed[k]
    BY <1>2
  <2> HIDE DEF r, t
  <2>3. \A k \in 1..n : t[k] = t[k - 1] + r[k]
    <3> TAKE k \in 1..n
    <3>1. k - 1 \in 0..n /\ owed[k - 1] \in Int /\ owed[k] \in Int
      BY <1>2
    <3>2. r[k] = owed[k - 1] - owed[k] /\ t[k] = amount - owed[k] /\ t[k - 1] = amount - owed[k - 1]
      BY <2>1, <2>2, <3>1
    <3> QED BY <3>1, <3>2
  <2>4. Originated!Total(r, n) = t[n]
    <3>1. n \in Nat
      OBVIOUS
    <3> QED BY <2>1, <2>2, <2>3, <3>1, TotalOf
  <2> QED BY <2>2, <2>4 DEF r
<1>8. Originated!Scaled(Originated!Abs(rows[n].total - level), n) <= Originated!Growth(n)
  <2> DEFINE off == owed[n - 1] + Interest(owed[n - 1]) - level
  <2>1. n \in 1..n
    OBVIOUS
  <2>2. rows[n].total = owed[n - 1] + Interest(owed[n - 1])
    BY <1>1, <2>1
  <2>3. owed[n - 1] \in Int /\ Interest(owed[n - 1]) \in Int
    BY <1>4, <1>5, <2>1
  <2>4. rows[n].total - level = off
    BY <1>3, <2>2, <2>3
  <2>5. off \in Int /\ Originated!Scaled(off, n) <= Originated!Growth(n)
        /\ Originated!Scaled(-off, n) <= Originated!Growth(n)
    BY <1>5
  <2> HIDE DEF off
  <2>6. Originated!Abs(off) = off \/ Originated!Abs(off) = -off
    BY <2>5 DEF Originated!Abs
  <2> QED BY <2>4, <2>5, <2>6
<1> QED BY <1>6, <1>7, <1>8 DEF rows, level

-----------------------------------------------------------------------------
(***************************************************************************)
(* The calendar of due dates, whatever the lengths of its months.          *)
(***************************************************************************)
Starts(m) == Originated!MonthStart[m]
LastMonth == Len(OriginMonthDays)

LEMMA CalendarConstants ==
    /\ LastMonth \in Nat \ {0} /\ DOMAIN OriginMonthDays = 1..LastMonth
    /\ \A m \in 1..LastMonth : OriginMonthDays[m] \in 28..31
<1>1. OriginMonthDays \in Seq(28..31) /\ OriginMonthDays # <<>>
  BY OriginConstants
<1> QED BY <1>1 DEF LastMonth

LEMMA MonthStartDef ==
    /\ Starts(1) = 0 /\ \A m \in 1..LastMonth : Starts(m) \in Nat
    /\ \A m \in 2..LastMonth : Starts(m) = Starts(m - 1) + OriginMonthDays[m - 1]
<1> DEFINE n == LastMonth - 1
           F == [k \in 1..n |-> [v \in Int |-> v + OriginMonthDays[k]]]
           q == Originated!MonthStart
<1>1. n \in Nat /\ LastMonth = n + 1 /\ \A k \in 1..(n + 1) : OriginMonthDays[k] \in Nat
  BY CalendarConstants
<1> HIDE DEF n
<1>2. F \in [1..n -> [Int -> Int]] /\ \A k \in 1..n, v \in Int : F[k][v] = v + OriginMonthDays[k]
  BY <1>1
<1> HIDE DEF F
<1>3. PICK f \in [0..n -> Int] : f[0] = 0 /\ \A k \in 1..n : f[k] = F[k][f[k - 1]]
  <2>1. 0 \in Int
    OBVIOUS
  <2> QED BY <1>1, <1>2, <2>1, Recursion
<1>4. \A k \in 1..n : f[k] = f[k - 1] + OriginMonthDays[k]
  <2> TAKE k \in 1..n
  <2>1. f[k - 1] \in Int /\ f[k] = F[k][f[k - 1]]
    BY <1>1, <1>3
  <2> QED BY <1>2, <2>1
<1> DEFINE h == [m \in 1..(n + 1) |-> f[m - 1]]
<1>5. h = [m \in 1..(n + 1) |-> IF m = 1 THEN 0 ELSE h[m - 1] + OriginMonthDays[m - 1]]
  <2>1. ASSUME NEW m \in 1..(n + 1), m # 1 PROVE h[m] = h[m - 1] + OriginMonthDays[m - 1]
    <3>1. m - 1 \in 1..n /\ h[m] = f[m - 1] /\ h[m - 1] = f[m - 1 - 1]
      BY <1>1, <2>1
    <3> HIDE DEF h
    <3> QED BY <1>4, <3>1
  <2>2. h[1] = 0
    BY <1>1, <1>3
  <2> QED BY <2>1, <2>2
<1> HIDE DEF h
<1>6. q = [m \in 1..(n + 1) |-> IF m = 1 THEN 0 ELSE q[m - 1] + OriginMonthDays[m - 1]]
  BY <1>1, <1>5 DEF Originated!MonthStart, LastMonth
<1> HIDE DEF q
<1>7. q[1] = 0 /\ \A m \in 2..(n + 1) : q[m] = q[m - 1] + OriginMonthDays[m - 1]
  BY <1>1, <1>6
<1> DEFINE Good == {k \in 0..n : q[k + 1] \in Nat}
<1>8. \A k \in 0..n : k \in Good
  <2>1. 0 \in Good
    BY <1>1, <1>7
  <2>2. ASSUME NEW k \in 0..n, k \in Good, k + 1 <= n PROVE k + 1 \in Good
    <3>1. k + 2 \in 2..(n + 1) /\ (k + 2) - 1 = k + 1 /\ (k + 1) + 1 = k + 2 /\ k + 1 \in 1..(n + 1)
      BY <1>1, <2>2
    <3>2. q[k + 2] = q[k + 1] + OriginMonthDays[k + 1] /\ q[k + 1] \in Nat
      BY <1>7, <2>2, <3>1
    <3>3. q[k + 2] \in Nat
      BY <1>1, <3>1, <3>2
    <3> QED BY <1>1, <2>2, <3>1, <3>3
  <2> HIDE DEF Good
  <2> QED BY <1>1, <2>1, <2>2, UpToInduction
<1>9. \A m \in 1..(n + 1) : q[m] \in Nat
  <2> TAKE m \in 1..(n + 1)
  <2>1. m - 1 \in 0..n /\ (m - 1) + 1 = m
    BY <1>1
  <2>2. m - 1 \in Good
    BY <1>8, <2>1
  <2> QED BY <2>1, <2>2
<1> QED BY <1>1, <1>7, <1>9 DEF Starts, q

LEMMA MonthsTyped == \A m \in 1..LastMonth : OriginMonthDays[m] \in Nat \ {0} /\ Starts(m) \in Nat
<1>1. \A m \in 1..LastMonth : OriginMonthDays[m] \in 28..31
  BY CalendarConstants
<1>2. \A m \in 1..LastMonth : Starts(m) \in Nat
  BY MonthStartDef
<1> QED BY <1>1, <1>2

LEMMA MonthsInOrder ==
    ASSUME NEW i \in 1..LastMonth, NEW j \in 1..LastMonth, i < j
    PROVE  Starts(i) + OriginMonthDays[i] <= Starts(j)
<1> DEFINE n == LastMonth - i - 1
           Good == {k \in 0..n : Starts(i) + OriginMonthDays[i] <= Starts(i + 1 + k)}
<1>1. n \in Nat /\ \A k \in 0..n : i + 1 + k \in 2..LastMonth
  BY CalendarConstants
<1>2. 0 \in Good
  <2>1. i + 1 \in 2..LastMonth /\ (i + 1) - 1 = i /\ i + 1 + 0 = i + 1
    BY CalendarConstants
  <2>2. Starts(i + 1) = Starts(i) + OriginMonthDays[i] /\ Starts(i + 1) \in Nat
    BY <2>1, MonthStartDef
  <2> QED BY <1>1, <2>1, <2>2
<1>3. ASSUME NEW k \in 0..n, k \in Good, k + 1 <= n PROVE k + 1 \in Good
  <2>1. /\ i + 1 + (k + 1) \in 2..LastMonth /\ (i + 1 + (k + 1)) - 1 = i + 1 + k
        /\ i + 1 + k \in 1..LastMonth
    BY <1>1, <1>3
  <2>2. Starts(i + 1 + (k + 1)) = Starts(i + 1 + k) + OriginMonthDays[i + 1 + k]
    BY <2>1, MonthStartDef
  <2>3. /\ OriginMonthDays[i + 1 + k] \in Nat /\ OriginMonthDays[i] \in Nat
        /\ Starts(i + 1 + k) \in Nat /\ Starts(i) \in Nat
    BY <2>1, MonthsTyped
  <2>4. Starts(i) + OriginMonthDays[i] <= Starts(i + 1 + k)
    BY <1>3
  <2>5. Starts(i) + OriginMonthDays[i] <= Starts(i + 1 + (k + 1))
    BY <2>2, <2>3, <2>4
  <2> QED BY <1>1, <1>3, <2>5
<1>4. \A k \in 0..n : k \in Good
  <2> HIDE DEF Good
  <2> QED BY <1>1, <1>2, <1>3, UpToInduction
<1>5. j - i - 1 \in 0..n /\ i + 1 + (j - i - 1) = j
  BY CalendarConstants
<1>6. j - i - 1 \in Good
  BY <1>4, <1>5
<1> QED BY <1>5, <1>6

LEMMA GreatestElement ==
    ASSUME NEW S \in SUBSET Nat, S # {}, NEW bound \in Nat, \A x \in S : x <= bound
    PROVE  Originated!Max(S) \in S /\ \A x \in S : x <= Originated!Max(S)
<1> DEFINE Gaps == {g \in Nat : bound - g \in S}
<1>1. Gaps \in SUBSET Nat /\ Gaps # {}
  <2>1. PICK x \in S : TRUE
    OBVIOUS
  <2>2. x \in Nat /\ x <= bound
    OBVIOUS
  <2>3. bound - x \in Nat /\ bound - (bound - x) = x
    BY <2>2
  <2> QED BY <2>3
<1>2. PICK g \in Gaps : \A i \in Gaps : g <= i
  <2> HIDE DEF Gaps
  <2> QED BY <1>1, LeastElement
<1>3. bound - g \in S /\ g \in Nat
  BY <1>2
<1>4. ASSUME NEW x \in S PROVE x <= bound - g
  <2>1. x \in Nat /\ x <= bound
    OBVIOUS
  <2>2. bound - x \in Nat /\ bound - (bound - x) = x
    BY <2>1
  <2>3. bound - x \in Gaps
    BY <2>2
  <2>4. g <= bound - x
    BY <1>2, <2>3
  <2> QED BY <1>3, <2>1, <2>4
<1>5. \E y \in S : \A x \in S : y >= x
  BY <1>3, <1>4
<1>6. Originated!Max(S) = CHOOSE y \in S : \A x \in S : y >= x
  BY DEF Originated!Max
<1>7. Originated!Max(S) \in S /\ \A x \in S : Originated!Max(S) >= x
  BY <1>5, <1>6
<1> QED BY <1>7

LEMMA MonthOfDef ==
    ASSUME NEW day \in Nat
    PROVE  LET m == Originated!MonthOf(day) IN
           /\ m \in 1..LastMonth /\ Starts(m) <= day
           /\ \A j \in 1..LastMonth : Starts(j) <= day => j <= m
<1> DEFINE S == {m \in DOMAIN OriginMonthDays : Originated!MonthStart[m] <= day}
<1>1. S = {m \in 1..LastMonth : Starts(m) <= day}
  BY CalendarConstants DEF Starts
<1>2. Originated!MonthOf(day) = Originated!Max(S)
  BY DEF Originated!MonthOf
<1> HIDE DEF S
<1>3. S \in SUBSET Nat /\ 1 \in S /\ LastMonth \in Nat /\ \A x \in S : x <= LastMonth
  BY <1>1, CalendarConstants, MonthStartDef
<1>4. Originated!Max(S) \in S /\ \A x \in S : x <= Originated!Max(S)
  BY <1>3, GreatestElement
<1> QED BY <1>1, <1>2, <1>4

LEMMA MonthOfIs ==
    ASSUME NEW day \in Nat, NEW m \in 1..LastMonth, Starts(m) <= day, day < Starts(m) + OriginMonthDays[m]
    PROVE  Originated!MonthOf(day) = m
<1> DEFINE i == Originated!MonthOf(day)
<1>1. i \in 1..LastMonth /\ Starts(i) <= day /\ m <= i
  BY MonthOfDef
<1> HIDE DEF i
<1>2. ASSUME m < i PROVE FALSE
  <2>1. Starts(m) + OriginMonthDays[m] <= Starts(i)
    BY <1>1, <1>2, MonthsInOrder
  <2>2. Starts(m) \in Nat /\ Starts(i) \in Nat /\ OriginMonthDays[m] \in Nat
    BY <1>1, MonthsTyped
  <2> QED BY <1>1, <2>1, <2>2
<1>3. i = m
  BY <1>1, <1>2, CalendarConstants
<1> QED BY <1>3 DEF i

LEMMA MonthOfMonotone ==
    ASSUME NEW a \in Nat, NEW b \in Nat, a <= b
    PROVE  Originated!MonthOf(a) <= Originated!MonthOf(b)
<1>1. Originated!MonthOf(a) \in 1..LastMonth /\ Starts(Originated!MonthOf(a)) <= a
  BY MonthOfDef
<1>2. Starts(Originated!MonthOf(a)) \in Nat
  BY <1>1, MonthStartDef
<1>3. Starts(Originated!MonthOf(a)) <= b
  BY <1>1, <1>2
<1> QED BY <1>1, <1>3, MonthOfDef

(* Months later it is that many months later, on the same day or on the    *)
(* last of a shorter month.                                                *)
LEMMA AddMonthsLands ==
    ASSUME NEW day \in Nat, NEW months \in Nat, Originated!MonthOf(day) + months <= LastMonth
    PROVE  LET later == Originated!AddMonths(day, months)
               m == Originated!MonthOf(day) + months
           IN  /\ later \in Nat /\ Originated!MonthOf(later) = m
               /\ \/ Originated!DayOfMonth(later) = Originated!DayOfMonth(day)
                  \/ /\ Originated!DayOfMonth(later) = OriginMonthDays[m]
                     /\ Originated!DayOfMonth(later) < Originated!DayOfMonth(day)
<1> DEFINE m == Originated!MonthOf(day) + months
           later == Originated!AddMonths(day, months)
           d == Originated!DayOfMonth(day)
           least == Originated!Least(d, OriginMonthDays[m])
<1>1. Originated!MonthOf(day) \in 1..LastMonth /\ Starts(Originated!MonthOf(day)) <= day
  BY MonthOfDef
<1>2. m \in 1..LastMonth
  BY <1>1, CalendarConstants
<1>3. d = day - Starts(Originated!MonthOf(day)) + 1 /\ later = Starts(m) + least - 1
  BY DEF Originated!DayOfMonth, Starts, Originated!AddMonths
<1>4. d \in Nat \ {0}
  BY <1>1, <1>3, MonthStartDef
<1> HIDE DEF m, later, d
<1>5. OriginMonthDays[m] \in Nat \ {0} /\ Starts(m) \in Nat
  BY <1>2, MonthsTyped
<1>6. /\ least \in Nat \ {0} /\ least <= OriginMonthDays[m]
      /\ least = d \/ (least = OriginMonthDays[m] /\ least < d)
  BY <1>4, <1>5 DEF Originated!Least
<1> HIDE DEF least
<1>7. later \in Nat /\ Starts(m) <= later /\ later < Starts(m) + OriginMonthDays[m]
  BY <1>3, <1>5, <1>6
<1>8. Originated!MonthOf(later) = m
  BY <1>2, <1>7, MonthOfIs
<1>9. Originated!DayOfMonth(later) = least
  <2>1. Originated!DayOfMonth(later) = later - Starts(m) + 1
    BY <1>8 DEF Originated!DayOfMonth, Starts
  <2> QED BY <1>3, <1>5, <1>6, <2>1
<1> QED BY <1>6, <1>7, <1>8, <1>9 DEF m, later, d

-----------------------------------------------------------------------------
(***************************************************************************)
(* The tables of a run as they are generated, one after the other          *)
(* (generation/population.py, applications.py, decisions.py, contracts.py, *)
(* schedules.py).                                                          *)
(***************************************************************************)
Customer == [id : Nat, created : 0..OriginPeriodEnd]
Application ==
    [id : Nat, customer : 1..OriginCustomers, status : {"submitted", "cancelled", "approved", "rejected"},
     submitted : 0..OriginPeriodEnd, amount : Nat, term : Nat]
Decision ==
    [application : Nat, final : {TRUE}, at : Nat, outcome : {"approved", "rejected"},
     amount : Nat, term : Nat]

CustomersSound(customers) ==
    /\ customers \in [1..OriginCustomers -> Customer]
    /\ \A i \in 1..OriginCustomers : customers[i].id = i

ApplicationsSound(applications) ==
    /\ \E n \in Nat \ {0} : applications \in [1..n -> Application]
    /\ \A i \in DOMAIN applications :
          /\ applications[i].id = i
          /\ <<applications[i].amount, applications[i].term>> \in OriginLoans

(* A loan as it may be granted, by the last day it may be decided on.      *)
Granted(amount, n, at) ==
    \E loan \in OriginLoans, d \in OriginDelays :
        amount = loan[1] /\ n = Originated!ApprovedTerm(loan[2]) /\ at <= OriginPeriodEnd + d[1]

DecisionsSound(applications, decisions) ==
    /\ DOMAIN decisions \subseteq DOMAIN applications
    /\ decisions \in [DOMAIN decisions -> Decision]
    /\ \A i \in DOMAIN decisions :
          /\ decisions[i].application = i /\ decisions[i].at >= applications[i].submitted
          /\ Granted(decisions[i].amount, decisions[i].term, decisions[i].at)

Owed(amount, n, due) ==
    /\ due \in Nat
    /\ \E loan \in OriginLoans, d, e \in OriginDelays :
          /\ amount = loan[1] /\ n = Originated!ApprovedTerm(loan[2])
          /\ due <= OriginPeriodEnd + d[1] + e[2] + e[3] + 30

ContractsSound(decisions, contracts) ==
    /\ DOMAIN contracts \subseteq {i \in DOMAIN decisions : decisions[i].outcome = "approved"}
    /\ \A i \in DOMAIN contracts :
          /\ contracts[i].application = i
          /\ contracts[i].date \in Nat /\ contracts[i].date >= decisions[i].at
          /\ contracts[i].disbursed \in Nat /\ contracts[i].disbursed >= contracts[i].date
          /\ Owed(contracts[i].amount, contracts[i].term, contracts[i].due)
    /\ \A i, j \in DOMAIN contracts : contracts[i].id = contracts[j].id => i = j

InstallmentOf(c, k) ==
    LET row == Originated!Amortize(c.amount, c.term)[k] IN
    [contract |-> c.id, due |-> Originated!DueDate(c.due, k), number |-> k,
     principal |-> row.principal, interest |-> row.interest, total |-> row.total]

InstallmentsSound(contracts, installments) ==
    /\ \A p \in DOMAIN installments :
          \E i \in DOMAIN contracts : \E k \in 1..contracts[i].term : p = <<i, k>>
    /\ \A i \in DOMAIN contracts : \A k \in 1..contracts[i].term :
          <<i, k>> \in DOMAIN installments /\ installments[<<i, k>>] = InstallmentOf(contracts[i], k)

HasTables ==
    tables = [customers |-> tables.customers, applications |-> tables.applications,
              decisions |-> tables.decisions, contracts |-> tables.contracts,
              installments |-> tables.installments]
HasApplications ==
    HasTables /\ CustomersSound(tables.customers) /\ ApplicationsSound(tables.applications)
HasDecisions == HasApplications /\ DecisionsSound(tables.applications, tables.decisions)
HasContracts == HasDecisions /\ ContractsSound(tables.decisions, tables.contracts)
HasInstallments == HasContracts /\ InstallmentsSound(tables.contracts, tables.installments)

(* Where the generator, the validation and an injected defect stand.       *)
Clean == defect = "none" /\ findings = {}
OriginInv ==
    \/ generation = "begun" /\ Clean /\ HasTables
    \/ generation = "customers" /\ Clean /\ HasTables /\ CustomersSound(tables.customers)
    \/ generation \in {"applications", "cancelled"} /\ Clean /\ HasApplications
    \/ generation = "decisions" /\ Clean /\ HasDecisions
    \/ generation = "contracts" /\ Clean /\ HasContracts
    \/ generation \in {"generated", "validated"} /\ Clean /\ HasInstallments
    \/ /\ generation = "injected" /\ defect \in DOMAIN Originated!ExpectedError
       /\ Originated!ExpectedError[defect] \in Originated!CheckAll
    \/ generation = "quarantined"

LEMMA OriginBegins == Originated!OriginationInit => OriginInv
BY DEF Originated!OriginationInit, OriginInv, HasTables, Originated!NoTables, Clean

LEMMA LoanGranted ==
    ASSUME NEW amount, NEW n, NEW loan \in OriginLoans,
           amount = loan[1] /\ n = Originated!ApprovedTerm(loan[2])
    PROVE  /\ amount \in Nat /\ n \in Nat \ {0}
           /\ Originated!Scaled(Originated!LevelPayment(amount, n), n) >= Originated!Growth(n)
<1>1. OriginLoans \subseteq Nat \X Nat /\ OriginMaxTerm \in Nat /\ Originated!LoansOutweighRounding
  BY OriginConstants
<1>2. loan[1] \in Nat /\ loan[2] \in Nat
  BY <1>1
<1>3. Originated!ApprovedTerm(loan[2]) \in Nat
  BY <1>1, <1>2 DEF Originated!ApprovedTerm
<1>4. /\ Originated!ApprovedTerm(loan[2]) >= 1
      /\ Originated!Scaled(Originated!LevelPayment(loan[1], Originated!ApprovedTerm(loan[2])),
                           Originated!ApprovedTerm(loan[2]))
            >= Originated!Growth(Originated!ApprovedTerm(loan[2]))
  BY <1>1 DEF Originated!LoansOutweighRounding
<1> QED BY <1>2, <1>3, <1>4

LEMMA CustomersGenerated ==
    ASSUME HasTables, Clean, Originated!GenerateCustomers
    PROVE  OriginInv'
<1>1. PICK days \in [1..OriginCustomers -> OriginArrivals] :
          Originated!Fill("begun", "customers", "customers",
                          [i \in 1..OriginCustomers |-> [id |-> i, created |-> days[i]]])
  BY DEF Originated!GenerateCustomers
<1> DEFINE rows == [i \in 1..OriginCustomers |-> [id |-> i, created |-> days[i]]]
<1>2. /\ generation' = "customers" /\ tables' = [tables EXCEPT !["customers"] = rows]
      /\ defect' = defect /\ findings' = findings
  BY <1>1 DEF Originated!Fill
<1>3. CustomersSound(rows)
  <2> OriginArrivals \subseteq 0..OriginPeriodEnd /\ OriginCustomers \in Nat
    BY OriginConstants
  <2>1. ASSUME NEW i \in 1..OriginCustomers PROVE i \in Nat /\ days[i] \in 0..OriginPeriodEnd
    <3>1. days[i] \in 0..OriginPeriodEnd
      OBVIOUS
    <3>2. i \in Nat
      OBVIOUS
    <3> QED BY <3>1, <3>2
  <2> QED BY <2>1 DEF CustomersSound, Customer
<1> HIDE DEF rows
<1>4. HasTables' /\ tables'.customers = rows
  BY <1>2 DEF HasTables
<1> QED BY <1>2, <1>3, <1>4 DEF OriginInv, Clean

LEMMA ApplicationsGenerated ==
    ASSUME HasTables, CustomersSound(tables.customers), Clean, Originated!GenerateApplications
    PROVE  OriginInv'
<1>1. PICK n \in OriginCustomers..OriginMaxApplications :
      \E owner \in [1..n -> 1..OriginCustomers], offset \in [1..n -> OriginOffsets],
         loan \in [1..n -> OriginLoans] :
            Originated!Fill("customers", "applications", "applications",
                [i \in 1..n |-> [id |-> i, customer |-> owner[i], status |-> "submitted",
                    submitted |-> Originated!Clamp(tables.customers[owner[i]].created + offset[i]),
                    amount |-> loan[i][1], term |-> loan[i][2]]])
  BY DEF Originated!GenerateApplications
<1>2. PICK owner \in [1..n -> 1..OriginCustomers], offset \in [1..n -> OriginOffsets],
           loan \in [1..n -> OriginLoans] :
            Originated!Fill("customers", "applications", "applications",
                [i \in 1..n |-> [id |-> i, customer |-> owner[i], status |-> "submitted",
                    submitted |-> Originated!Clamp(tables.customers[owner[i]].created + offset[i]),
                    amount |-> loan[i][1], term |-> loan[i][2]]])
  BY <1>1
<1> DEFINE Day(i) == Originated!Clamp(tables.customers[owner[i]].created + offset[i])
           rows == [i \in 1..n |-> [id |-> i, customer |-> owner[i], status |-> "submitted",
                                    submitted |-> Day(i), amount |-> loan[i][1], term |-> loan[i][2]]]
<1>3. /\ generation' = "applications" /\ tables' = [tables EXCEPT !["applications"] = rows]
      /\ defect' = defect /\ findings' = findings
  BY <1>2 DEF Originated!Fill
<1>4. /\ n \in Nat \ {0} /\ OriginPeriodEnd \in Nat /\ OriginLoans \subseteq Nat \X Nat
      /\ OriginOffsets \subseteq 0..OriginPeriodEnd
  BY OriginConstants
<1>5. \A i \in 1..n : /\ i \in Nat /\ owner[i] \in 1..OriginCustomers /\ Day(i) \in 0..OriginPeriodEnd
                      /\ loan[i] \in OriginLoans /\ loan[i][1] \in Nat /\ loan[i][2] \in Nat
                      /\ <<loan[i][1], loan[i][2]>> = loan[i]
  <2> SUFFICES ASSUME NEW i \in 1..n PROVE Day(i) \in 0..OriginPeriodEnd
    BY <1>4
  <2>1. tables.customers[owner[i]].created \in 0..OriginPeriodEnd
    BY DEF CustomersSound, Customer
  <2>2. offset[i] \in 0..OriginPeriodEnd
    BY <1>4
  <2>3. ASSUME NEW a \in Nat, NEW b \in Nat PROVE Originated!Clamp(a + b) \in 0..OriginPeriodEnd
    BY <1>4 DEF Originated!Clamp
  <2>4. tables.customers[owner[i]].created \in Nat /\ offset[i] \in Nat
    BY <2>1, <2>2
  <2> QED BY <2>3, <2>4
<1> HIDE DEF Day
<1>6. rows \in [1..n -> Application]
  BY <1>5 DEF Application
<1>7. ApplicationsSound(rows)
  BY <1>4, <1>5, <1>6 DEF ApplicationsSound
<1> HIDE DEF rows
<1>8. /\ HasTables' /\ tables'.customers = tables.customers /\ tables'.applications = rows
  BY <1>3 DEF HasTables
<1> QED BY <1>3, <1>7, <1>8 DEF OriginInv, Clean, HasApplications

LEMMA CancellationsApplied ==
    ASSUME HasApplications, Clean, Originated!ApplyCancellations
    PROVE  OriginInv'
<1>1. PICK cancelled \in SUBSET DOMAIN tables.applications :
          Originated!Fill("applications", "cancelled", "applications",
             [i \in DOMAIN tables.applications |->
                 IF i \in cancelled THEN [tables.applications[i] EXCEPT !.status = "cancelled"]
                 ELSE tables.applications[i]])
  BY DEF Originated!ApplyCancellations
<1> DEFINE rows == [i \in DOMAIN tables.applications |->
                       IF i \in cancelled THEN [tables.applications[i] EXCEPT !.status = "cancelled"]
                       ELSE tables.applications[i]]
<1>2. /\ generation' = "cancelled" /\ tables' = [tables EXCEPT !["applications"] = rows]
      /\ defect' = defect /\ findings' = findings
  BY <1>1 DEF Originated!Fill
<1>3. PICK n \in Nat \ {0} : tables.applications \in [1..n -> Application]
  BY DEF HasApplications, ApplicationsSound
<1>4. \A i \in 1..n : /\ rows[i] \in Application /\ rows[i].id = tables.applications[i].id
                      /\ rows[i].amount = tables.applications[i].amount
                      /\ rows[i].term = tables.applications[i].term
  BY <1>3 DEF Application
<1>5. rows \in [1..n -> Application]
  BY <1>3, <1>4
<1> HIDE DEF rows
<1>6. ApplicationsSound(rows)
  BY <1>3, <1>4, <1>5 DEF HasApplications, ApplicationsSound
<1>7. HasTables' /\ tables'.customers = tables.customers /\ tables'.applications = rows
  BY <1>2 DEF HasApplications, HasTables
<1> QED BY <1>2, <1>6, <1>7 DEF OriginInv, Clean, HasApplications

LEMMA DecisionsGenerated ==
    ASSUME HasApplications, Clean, Originated!GenerateDecisions
    PROVE  OriginInv'
<1> DEFINE Decidable == Originated!Decidable
           A(i) == tables.applications[i]
<1>1. PICK approved \in SUBSET Decidable, delay \in [Decidable -> {d[1] : d \in OriginDelays}] :
          tables' = [tables EXCEPT
             !.decisions = [i \in Decidable |->
                 [application |-> A(i).id, final |-> TRUE, at |-> A(i).submitted + delay[i],
                  outcome |-> IF i \in approved THEN "approved" ELSE "rejected",
                  amount |-> A(i).amount, term |-> Originated!ApprovedTerm(A(i).term)]],
             !.applications = [i \in DOMAIN tables.applications |->
                 IF i \in Decidable
                 THEN [A(i) EXCEPT !.status = IF i \in approved THEN "approved" ELSE "rejected"]
                 ELSE A(i)]]
  BY DEF Originated!GenerateDecisions
<1>2. generation' = "decisions" /\ defect' = defect /\ findings' = findings
  BY DEF Originated!GenerateDecisions
<1> DEFINE Outcome(i) == IF i \in approved THEN "approved" ELSE "rejected"
           decisions == [i \in Decidable |->
               [application |-> A(i).id, final |-> TRUE, at |-> A(i).submitted + delay[i],
                outcome |-> Outcome(i), amount |-> A(i).amount, term |-> Originated!ApprovedTerm(A(i).term)]]
           applications == [i \in DOMAIN tables.applications |->
               IF i \in Decidable THEN [A(i) EXCEPT !.status = Outcome(i)] ELSE A(i)]
<1>3. Decidable \subseteq DOMAIN tables.applications
  BY DEF Originated!Decidable
<1> HIDE DEF Decidable
<1>4. PICK n \in Nat \ {0} : tables.applications \in [1..n -> Application]
  BY DEF HasApplications, ApplicationsSound
<1>5. \A i \in 1..n : A(i) \in Application /\ A(i).id = i /\ <<A(i).amount, A(i).term>> \in OriginLoans
  BY <1>4 DEF HasApplications, ApplicationsSound
<1>6. \A i : Outcome(i) \in {"approved", "rejected"}
  OBVIOUS
<1> HIDE DEF Outcome
<1>7. \A i \in 1..n : /\ applications[i] \in Application /\ applications[i].id = A(i).id
                      /\ applications[i].amount = A(i).amount /\ applications[i].term = A(i).term
                      /\ applications[i].submitted = A(i).submitted
  BY <1>4, <1>5, <1>6 DEF Application
<1>8. applications \in [1..n -> Application]
  BY <1>4, <1>7
<1>9. ASSUME NEW i \in Decidable
      PROVE  /\ decisions[i] \in Decision /\ decisions[i].application = i
             /\ decisions[i].at >= applications[i].submitted
             /\ Granted(decisions[i].amount, decisions[i].term, decisions[i].at)
  <2>1. i \in 1..n /\ i \in Nat
    BY <1>3, <1>4
  <2>2. PICK d \in OriginDelays : delay[i] = d[1]
    BY <1>9
  <2>3. d[1] \in Nat
    BY OriginConstants
  <2>4. /\ A(i).submitted \in 0..OriginPeriodEnd /\ OriginPeriodEnd \in Nat
    BY <1>5, <2>1, OriginConstants DEF Application
  <2>5. /\ decisions[i].application = A(i).id /\ decisions[i].final = TRUE
        /\ decisions[i].at = A(i).submitted + d[1] /\ decisions[i].outcome = Outcome(i)
        /\ decisions[i].amount = A(i).amount /\ decisions[i].term = Originated!ApprovedTerm(A(i).term)
    BY <1>9, <2>2
  <2>6. decisions[i] = [application |-> A(i).id, final |-> TRUE, at |-> A(i).submitted + d[1],
            outcome |-> Outcome(i), amount |-> A(i).amount, term |-> Originated!ApprovedTerm(A(i).term)]
    BY <1>9, <2>2
  <2>7. A(i).submitted + d[1] \in Nat /\ A(i).submitted + d[1] >= A(i).submitted
        /\ A(i).submitted + d[1] <= OriginPeriodEnd + d[1]
    BY <2>3, <2>4
  <2>8. PICK loan \in OriginLoans : loan = <<A(i).amount, A(i).term>>
    BY <1>5, <2>1
  <2>9. A(i).amount = loan[1] /\ Originated!ApprovedTerm(A(i).term) = Originated!ApprovedTerm(loan[2])
    BY <2>8
  <2>10. A(i).amount \in Nat /\ Originated!ApprovedTerm(A(i).term) \in Nat
    BY <2>9, LoanGranted
  <2>11. Granted(A(i).amount, Originated!ApprovedTerm(A(i).term), A(i).submitted + d[1])
    BY <2>7, <2>9 DEF Granted
  <2>12. decisions[i] \in Decision
    BY <1>5, <1>6, <2>1, <2>6, <2>7, <2>10 DEF Decision
  <2> HIDE DEF decisions, applications, A
  <2> QED BY <1>5, <1>7, <2>1, <2>5, <2>7, <2>11, <2>12
<1>10. tables' = [tables EXCEPT !.decisions = decisions, !.applications = applications]
  BY <1>1 DEF Outcome
<1>11. DOMAIN decisions = Decidable
  OBVIOUS
<1>12. decisions = [i \in Decidable |-> decisions[i]]
  OBVIOUS
<1> HIDE DEF decisions, applications, A
<1>13. decisions \in [Decidable -> Decision]
  BY <1>9, <1>12
<1>14. DecisionsSound(applications, decisions)
  BY <1>3, <1>4, <1>8, <1>9, <1>11, <1>13 DEF DecisionsSound
<1>15. ApplicationsSound(applications)
  BY <1>4, <1>5, <1>7, <1>8 DEF ApplicationsSound, A
<1>16. /\ HasTables' /\ tables'.customers = tables.customers
       /\ tables'.applications = applications /\ tables'.decisions = decisions
  BY <1>10 DEF HasApplications, HasTables
<1> QED BY <1>2, <1>14, <1>15, <1>16 DEF OriginInv, Clean, HasApplications, HasDecisions

LEMMA OriginCardinality == \A S : Originated!Cardinality(S) = Cardinality(S)
BY DEF Originated!Cardinality, Cardinality

(* Who is counted in order is counted apart.                               *)
LEMMA RanksDiffer ==
    ASSUME NEW n \in Nat, NEW T \in SUBSET (1..n), NEW i \in T, NEW j \in T, i < j
    PROVE  Cardinality({k \in T : k <= i}) # Cardinality({k \in T : k <= j})
<1> DEFINE S == {k \in T : k <= i}
           U == {k \in T : k <= j}
<1>1. U \in SUBSET (1..n) /\ S \in SUBSET U /\ j \in U /\ j \notin S
  <2>1. \A k \in T : k \in 1..n
    OBVIOUS
  <2>2. i \in Nat /\ j \in Nat
    BY <2>1
  <2>3. \A k \in T : k <= i => k <= j
    BY <2>1, <2>2
  <2>4. U \in SUBSET (1..n) /\ S \in SUBSET U
    BY <2>3
  <2> QED BY <2>2, <2>4
<1> HIDE DEF S, U
<1>2. IsFiniteSet(U)
  BY <1>1, CountOfPart
<1>3. Cardinality(S) # Cardinality(U)
  BY <1>1, <1>2, FS_Subset
<1> QED BY <1>3 DEF S, U

LEMMA ContractsGenerated ==
    ASSUME HasDecisions, Clean, Originated!GenerateContracts
    PROVE  OriginInv'
<1> DEFINE D(i) == tables.decisions[i]
<1>1. PICK booked \in SUBSET Originated!Approved : \E delay \in [booked -> OriginDelays] :
        Originated!Fill("decisions", "contracts", "contracts",
             [i \in booked |->
                LET decision == tables.decisions[i]
                    signed == decision.at + delay[i][2] IN
                [id |-> Originated!Cardinality({j \in booked : j <= i}), application |-> decision.application,
                 customer |-> tables.applications[decision.application].customer,
                 date |-> signed, disbursed |-> signed + delay[i][3],
                 amount |-> decision.amount, term |-> decision.term,
                 due |-> signed + delay[i][3] + 30]])
  BY DEF Originated!GenerateContracts
<1>2. PICK delay \in [booked -> OriginDelays] :
        Originated!Fill("decisions", "contracts", "contracts",
             [i \in booked |->
                LET decision == tables.decisions[i]
                    signed == decision.at + delay[i][2] IN
                [id |-> Originated!Cardinality({j \in booked : j <= i}), application |-> decision.application,
                 customer |-> tables.applications[decision.application].customer,
                 date |-> signed, disbursed |-> signed + delay[i][3],
                 amount |-> decision.amount, term |-> decision.term,
                 due |-> signed + delay[i][3] + 30]])
  BY <1>1
<1> DEFINE rows == [i \in booked |->
                [id |-> Originated!Cardinality({j \in booked : j <= i}), application |-> D(i).application,
                 customer |-> tables.applications[D(i).application].customer,
                 date |-> D(i).at + delay[i][2], disbursed |-> D(i).at + delay[i][2] + delay[i][3],
                 amount |-> D(i).amount, term |-> D(i).term,
                 due |-> D(i).at + delay[i][2] + delay[i][3] + 30]]
<1>3. /\ generation' = "contracts" /\ tables' = [tables EXCEPT !["contracts"] = rows]
      /\ defect' = defect /\ findings' = findings
  BY <1>2 DEF Originated!Fill
<1>4. booked \subseteq {i \in DOMAIN tables.decisions : D(i).outcome = "approved"}
  BY DEF Originated!Approved
<1>5. PICK n \in Nat \ {0} : DOMAIN tables.applications = 1..n
  BY DEF HasDecisions, HasApplications, ApplicationsSound
<1>6. booked \subseteq 1..n
  BY <1>4, <1>5 DEF HasDecisions, DecisionsSound
<1>7. ASSUME NEW i \in booked
      PROVE  /\ rows[i].application = i
             /\ rows[i].date \in Nat /\ rows[i].date >= D(i).at
             /\ rows[i].disbursed \in Nat /\ rows[i].disbursed >= rows[i].date
             /\ Owed(rows[i].amount, rows[i].term, rows[i].due)
  <2>1. i \in DOMAIN tables.decisions
    BY <1>4
  <2>2. /\ D(i).application = i /\ D(i).at \in Nat
        /\ Granted(D(i).amount, D(i).term, D(i).at)
    BY <2>1 DEF HasDecisions, DecisionsSound, Decision
  <2>3. PICK e \in OriginDelays : e = delay[i]
    BY <1>7
  <2>4. e[2] \in Nat /\ e[3] \in Nat /\ OriginPeriodEnd \in Nat
    BY OriginConstants
  <2>5. /\ rows[i].application = D(i).application /\ rows[i].date = D(i).at + e[2]
        /\ rows[i].disbursed = D(i).at + e[2] + e[3] /\ rows[i].due = D(i).at + e[2] + e[3] + 30
        /\ rows[i].amount = D(i).amount /\ rows[i].term = D(i).term
    BY <1>7, <2>3
  <2>6. PICK loan \in OriginLoans, d \in OriginDelays :
            D(i).amount = loan[1] /\ D(i).term = Originated!ApprovedTerm(loan[2])
            /\ D(i).at <= OriginPeriodEnd + d[1]
    BY <2>2 DEF Granted
  <2>7. d[1] \in Nat
    BY OriginConstants
  <2> HIDE DEF D, rows
  <2> DEFINE at == D(i).at
  <2>8. at \in Nat /\ at <= OriginPeriodEnd + d[1]
    BY <2>2, <2>6
  <2> HIDE DEF at
  <2>9. /\ at + e[2] \in Nat /\ at + e[2] >= at
        /\ at + e[2] + e[3] \in Nat /\ at + e[2] + e[3] >= at + e[2]
        /\ at + e[2] + e[3] + 30 \in Nat
        /\ at + e[2] + e[3] + 30 <= OriginPeriodEnd + d[1] + e[2] + e[3] + 30
    BY <2>4, <2>7, <2>8
  <2>10. Owed(D(i).amount, D(i).term, at + e[2] + e[3] + 30)
    BY <2>6, <2>9 DEF Owed
  <2> QED BY <2>2, <2>5, <2>9, <2>10 DEF at
<1>8. ASSUME NEW i \in booked, NEW j \in booked, rows[i].id = rows[j].id
      PROVE  i = j
  <2>1. \A k \in booked : rows[k].id = Cardinality({l \in booked : l <= k})
    BY OriginCardinality
  <2> HIDE DEF rows
  <2>2. i \in 1..n /\ j \in 1..n
    BY <1>6
  <2>3. \A k, l \in booked : k < l => Cardinality({m \in booked : m <= k}) # Cardinality({m \in booked : m <= l})
    BY <1>6, RanksDiffer
  <2>4. ~(i < j) /\ ~(j < i)
    BY <1>8, <2>1, <2>3
  <2> QED BY <2>2, <2>4
<1>9. DOMAIN rows = booked
  OBVIOUS
<1> HIDE DEF rows
<1>10. ContractsSound(tables.decisions, rows)
  BY <1>4, <1>7, <1>8, <1>9 DEF ContractsSound
<1>11. /\ HasTables' /\ tables'.customers = tables.customers /\ tables'.contracts = rows
       /\ tables'.applications = tables.applications /\ tables'.decisions = tables.decisions
  BY <1>3 DEF HasDecisions, HasApplications, HasTables
<1> QED BY <1>3, <1>10, <1>11 DEF OriginInv, Clean, HasApplications, HasDecisions, HasContracts

LEMMA InstallmentsGenerated ==
    ASSUME HasContracts, Clean, Originated!GenerateInstallments
    PROVE  OriginInv'
<1> DEFINE C(i) == tables.contracts[i]
           Places == UNION {{i} \X (1..C(i).term) : i \in DOMAIN tables.contracts}
           Schedule == [i \in DOMAIN tables.contracts |-> Originated!Amortize(C(i).amount, C(i).term)]
           rows == [p \in Places |->
                     [contract |-> C(p[1]).id, due |-> Originated!DueDate(C(p[1]).due, p[2]), number |-> p[2],
                      principal |-> Schedule[p[1]][p[2]].principal, interest |-> Schedule[p[1]][p[2]].interest,
                      total |-> Schedule[p[1]][p[2]].total]]
<1>1. /\ generation' = "generated" /\ tables' = [tables EXCEPT !["installments"] = rows]
      /\ defect' = defect /\ findings' = findings
  BY DEF Originated!GenerateInstallments, Originated!Fill
<1>2. \A p \in Places : \E i \in DOMAIN tables.contracts : \E k \in 1..C(i).term : p = <<i, k>>
  OBVIOUS
<1>3. \A i \in DOMAIN tables.contracts : \A k \in 1..C(i).term : <<i, k>> \in Places
  OBVIOUS
<1> HIDE DEF Places
<1>4. ASSUME NEW i \in DOMAIN tables.contracts, NEW k \in 1..C(i).term
      PROVE  <<i, k>> \in DOMAIN rows /\ rows[<<i, k>>] = InstallmentOf(C(i), k)
  <2>1. Schedule[i] = Originated!Amortize(C(i).amount, C(i).term)
    OBVIOUS
  <2> HIDE DEF C, Schedule
  <2> QED BY <1>3, <2>1 DEF InstallmentOf, C
<1>5. DOMAIN rows = Places
  OBVIOUS
<1> HIDE DEF rows
<1>6. InstallmentsSound(tables.contracts, rows)
  BY <1>2, <1>4, <1>5 DEF InstallmentsSound
<1>7. /\ HasTables' /\ tables'.customers = tables.customers
      /\ tables'.applications = tables.applications /\ tables'.decisions = tables.decisions
      /\ tables'.contracts = tables.contracts /\ tables'.installments = rows
  BY <1>1 DEF HasContracts, HasDecisions, HasApplications, HasTables
<1> QED BY <1>1, <1>6, <1>7 DEF OriginInv, Clean, HasApplications, HasDecisions, HasContracts, HasInstallments

-----------------------------------------------------------------------------
(***************************************************************************)
(* The contract rules on a generated run, one after the other              *)
(* (contracts/integrity.py).                                               *)
(***************************************************************************)
LEMMA KeysAreUnique ==
    ASSUME HasInstallments
    PROVE  ~Originated!CheckPrimaryKey /\ ~Originated!CheckUniqueness
<1>1. \A i \in DOMAIN tables.customers : tables.customers[i].id = i
  BY DEF HasInstallments, HasContracts, HasDecisions, HasApplications, CustomersSound
<1>2. \A i \in DOMAIN tables.applications : tables.applications[i].id = i
  BY DEF HasInstallments, HasContracts, HasDecisions, HasApplications, ApplicationsSound
<1>3. ~Originated!CheckPrimaryKey
  BY <1>1, <1>2 DEF Originated!CheckPrimaryKey, Originated!Repeated
<1>4. ASSUME NEW p \in DOMAIN tables.installments, NEW q \in DOMAIN tables.installments,
             tables.installments[p].contract = tables.installments[q].contract,
             tables.installments[p].number = tables.installments[q].number
      PROVE  p = q
  <2>1. PICK i \in DOMAIN tables.contracts : \E k \in 1..tables.contracts[i].term : p = <<i, k>>
    BY <1>4 DEF HasInstallments, InstallmentsSound
  <2>2. PICK k \in 1..tables.contracts[i].term : p = <<i, k>>
    BY <2>1
  <2>3. PICK j \in DOMAIN tables.contracts : \E l \in 1..tables.contracts[j].term : q = <<j, l>>
    BY <1>4 DEF HasInstallments, InstallmentsSound
  <2>4. PICK l \in 1..tables.contracts[j].term : q = <<j, l>>
    BY <2>3
  <2>5. /\ tables.installments[p] = InstallmentOf(tables.contracts[i], k)
        /\ tables.installments[q] = InstallmentOf(tables.contracts[j], l)
    BY <2>2, <2>4 DEF HasInstallments, InstallmentsSound
  <2>6. tables.contracts[i].id = tables.contracts[j].id /\ k = l
    BY <1>4, <2>5 DEF InstallmentOf
  <2>7. i = j
    BY <2>6 DEF HasInstallments, HasContracts, ContractsSound
  <2> QED BY <2>2, <2>4, <2>6, <2>7
<1>5. ~Originated!CheckUniqueness
  BY <1>4 DEF Originated!CheckUniqueness, Originated!Repeated
<1> QED BY <1>3, <1>5

(* An installment is that of a contract and a number.                      *)
LEMMA InstallmentIs ==
    ASSUME HasInstallments, NEW r \in Originated!Rows("installments")
    PROVE  \E i \in DOMAIN tables.contracts : \E k \in 1..tables.contracts[i].term :
              r = InstallmentOf(tables.contracts[i], k)
<1>1. PICK p \in DOMAIN tables.installments : r = tables.installments[p]
  BY DEF Originated!Rows, Originated!Range
<1> QED BY <1>1 DEF HasInstallments, InstallmentsSound

LEMMA IdsOf ==
    ASSUME NEW rows, \A i \in DOMAIN rows : rows[i].id = i
    PROVE  {r.id : r \in {rows[i] : i \in DOMAIN rows}} = DOMAIN rows
OBVIOUS

LEMMA NoOrphans ==
    ASSUME HasInstallments
    PROVE  ~Originated!CheckForeignKeys
<1>1. /\ HasInstallments /\ HasContracts /\ HasDecisions /\ HasApplications
  BY DEF HasInstallments, HasContracts, HasDecisions
<1>2. PICK n \in Nat \ {0} : tables.applications \in [1..n -> Application]
  BY <1>1 DEF HasApplications, ApplicationsSound
<1>3. Originated!Ids("customers") = 1..OriginCustomers
  <2>1. DOMAIN tables.customers = 1..OriginCustomers /\ \A i \in DOMAIN tables.customers : tables.customers[i].id = i
    BY <1>1 DEF HasApplications, CustomersSound
  <2>2. Originated!Rows("customers") = {tables.customers[i] : i \in DOMAIN tables.customers}
    BY DEF Originated!Rows, Originated!Range
  <2> QED BY <2>1, <2>2, IdsOf DEF Originated!Ids
<1>4. Originated!Ids("applications") = DOMAIN tables.applications
  <2>1. \A i \in DOMAIN tables.applications : tables.applications[i].id = i
    BY <1>1 DEF HasApplications, ApplicationsSound
  <2>2. Originated!Rows("applications") = {tables.applications[i] : i \in DOMAIN tables.applications}
    BY DEF Originated!Rows, Originated!Range
  <2> QED BY <2>1, <2>2, IdsOf DEF Originated!Ids
<1>5. \A r \in Originated!Rows("applications") : r.customer \in 1..OriginCustomers
  BY <1>2 DEF Application, Originated!Rows, Originated!Range
<1>6. \A r \in Originated!Rows("decisions") : r.application \in DOMAIN tables.applications
  BY <1>1 DEF HasDecisions, DecisionsSound, Originated!Rows, Originated!Range
<1>7. \A r \in Originated!Rows("contracts") : r.application \in DOMAIN tables.applications
  BY <1>1 DEF HasDecisions, DecisionsSound, HasContracts, ContractsSound, Originated!Rows, Originated!Range
<1>8. \A r \in Originated!Rows("installments") : r.contract \in Originated!Ids("contracts")
  BY InstallmentIs DEF InstallmentOf, Originated!Ids, Originated!Rows, Originated!Range
<1> QED BY <1>3, <1>4, <1>5, <1>6, <1>7, <1>8 DEF Originated!CheckForeignKeys, Originated!Orphans

LEMMA InstallmentsAreSums ==
    ASSUME HasInstallments, NEW r \in Originated!Rows("installments")
    PROVE  r.principal \in Nat /\ r.interest \in Nat /\ r.total = r.principal + r.interest
<1>1. PICK i \in DOMAIN tables.contracts :
          \E k \in 1..tables.contracts[i].term : r = InstallmentOf(tables.contracts[i], k)
  BY InstallmentIs
<1> DEFINE c == tables.contracts[i]
<1>2. PICK k \in 1..c.term : r = InstallmentOf(c, k)
  BY <1>1
<1>3. Owed(c.amount, c.term, c.due)
  BY DEF HasInstallments, HasContracts, ContractsSound
<1>4. /\ c.amount \in Nat /\ c.term \in Nat \ {0}
      /\ Originated!Scaled(Originated!LevelPayment(c.amount, c.term), c.term) >= Originated!Growth(c.term)
  BY <1>3, LoanGranted DEF Owed
<1> HIDE DEF c
<1> DEFINE row == Originated!Amortize(c.amount, c.term)[k]
<1>5. row.principal \in Nat /\ row.interest \in Nat /\ row.total = row.principal + row.interest
  BY <1>4, ScheduleOfLoan
<1>6. r.principal = row.principal /\ r.interest = row.interest /\ r.total = row.total
  BY <1>2 DEF InstallmentOf
<1> HIDE DEF row
<1> QED BY <1>5, <1>6

LEMMA ValuesInDomain ==
    ASSUME HasInstallments
    PROVE  ~Originated!CheckDomain /\ ~Originated!InstallmentTotal /\ ~Originated!ApprovalRequiresPolicy
<1>1. \A d \in Originated!Rows("decisions") : d.outcome \in {"approved", "rejected"} /\ d.at \in Nat
  BY DEF HasInstallments, HasContracts, HasDecisions, DecisionsSound, Decision, Originated!Rows, Originated!Range
<1>2. ~Originated!CheckDomain
  BY <1>1, InstallmentsAreSums DEF Originated!CheckDomain
<1>3. ~Originated!InstallmentTotal
  BY InstallmentsAreSums DEF Originated!InstallmentTotal
<1>4. ~Originated!ApprovalRequiresPolicy
  BY <1>1 DEF Originated!ApprovalRequiresPolicy, Originated!PolicyFrom
<1> QED BY <1>2, <1>3, <1>4

(* Decisions are final, and each is that of its own application.           *)
LEMMA FinalDecisions ==
    ASSUME HasDecisions
    PROVE  /\ Originated!Finals = {tables.decisions[i] : i \in DOMAIN tables.decisions}
           /\ {d.application : d \in Originated!Finals} = DOMAIN tables.decisions
           /\ \A i \in DOMAIN tables.decisions : tables.decisions[i].application = i
<1>1. \A i \in DOMAIN tables.decisions : tables.decisions[i].final /\ tables.decisions[i].application = i
  BY DEF HasDecisions, DecisionsSound, Decision
<1>2. Originated!Finals = {tables.decisions[i] : i \in DOMAIN tables.decisions}
  BY <1>1 DEF Originated!Finals, Originated!Rows, Originated!Range
<1> QED BY <1>1, <1>2

LEMMA OneFinalDecision ==
    ASSUME HasDecisions
    PROVE  ~Originated!SingleFinalDecision
<1> DEFINE S == DOMAIN tables.decisions
           T == {tables.decisions[i] : i \in S}
           f == [i \in S |-> tables.decisions[i]]
<1>1. PICK n \in Nat \ {0} : tables.applications \in [1..n -> Application]
  BY DEF HasDecisions, HasApplications, ApplicationsSound
<1>2. S \in SUBSET (1..n)
  BY <1>1 DEF HasDecisions, DecisionsSound
<1>3. \A i \in S : tables.decisions[i].application = i
  BY FinalDecisions
<1> HIDE DEF S
<1>4. f \in Bijection(S, T)
  <2>1. f \in [S -> T] /\ \A i \in S : f[i] = tables.decisions[i]
    OBVIOUS
  <2>2. \A t \in T : \E i \in S : f[i] = t
    BY <2>1
  <2>3. \A i, j \in S : f[i] = f[j] => i = j
    BY <1>3, <2>1
  <2> HIDE DEF f, T
  <2> QED BY <2>1, <2>2, <2>3 DEF Bijection, Injection, Surjection, IsInjective
<1>5. IsFiniteSet(S)
  BY <1>1, <1>2, CountOfPart
<1> HIDE DEF T, f
<1>6. Cardinality(S) = Cardinality(T)
  BY <1>4, <1>5, FS_Bijection DEF ExistsBijection
<1>7. Originated!Finals = T /\ {d.application : d \in Originated!Finals} = S
  BY FinalDecisions DEF S, T
<1> QED BY <1>6, <1>7, OriginCardinality DEF Originated!SingleFinalDecision

LEMMA DatesInOrder ==
    ASSUME HasInstallments
    PROVE  /\ ~Originated!DecisionBeforeSubmission /\ ~Originated!ContractRequiresApproval
           /\ ~Originated!ContractBeforeDecision /\ ~Originated!DisbursedBeforeContract
<1>1. HasContracts /\ HasDecisions /\ HasApplications
  BY DEF HasInstallments, HasContracts, HasDecisions
<1> DEFINE D(i) == tables.decisions[i]
           A(i) == tables.applications[i]
           C(i) == tables.contracts[i]
<1>2. PICK n \in Nat \ {0} : tables.applications \in [1..n -> Application]
  BY <1>1 DEF HasApplications, ApplicationsSound
<1>3. \A i \in DOMAIN tables.applications : A(i).id = i /\ A(i).submitted \in Int
  <2>1. \A i \in 1..n : A(i).submitted \in Int
    BY <1>2 DEF Application
  <2>2. \A i \in DOMAIN tables.applications : A(i).id = i
    BY <1>1 DEF HasApplications, ApplicationsSound
  <2> QED BY <1>2, <2>1, <2>2
<1>4. \A i \in DOMAIN tables.decisions : D(i).application = i /\ D(i).at >= A(i).submitted /\ D(i).at \in Nat
  BY <1>1 DEF HasDecisions, DecisionsSound, Decision
<1>5. \A i \in DOMAIN tables.contracts :
          /\ i \in DOMAIN tables.decisions /\ D(i).outcome = "approved" /\ C(i).application = i
          /\ C(i).date \in Nat /\ C(i).date >= D(i).at
          /\ C(i).disbursed \in Nat /\ C(i).disbursed >= C(i).date
  BY <1>1 DEF HasContracts, ContractsSound
<1>6. Originated!Finals = {D(i) : i \in DOMAIN tables.decisions}
  BY <1>1, FinalDecisions
<1>7. /\ Originated!Rows("decisions") = {D(i) : i \in DOMAIN tables.decisions}
      /\ Originated!Rows("applications") = {A(i) : i \in DOMAIN tables.applications}
      /\ Originated!Rows("contracts") = {C(i) : i \in DOMAIN tables.contracts}
  BY DEF Originated!Rows, Originated!Range
<1> HIDE DEF D, A, C
<1>8. ~Originated!DecisionBeforeSubmission
  BY <1>3, <1>4, <1>7 DEF Originated!DecisionBeforeSubmission
<1>9. ~Originated!ContractRequiresApproval
  BY <1>4, <1>5, <1>6, <1>7 DEF Originated!ContractRequiresApproval
<1>10. ~Originated!ContractBeforeDecision
  BY <1>4, <1>5, <1>6, <1>7 DEF Originated!ContractBeforeDecision
<1>11. ~Originated!DisbursedBeforeContract
  BY <1>5, <1>7 DEF Originated!DisbursedBeforeContract
<1> QED BY <1>8, <1>9, <1>10, <1>11

LEMMA Validated ==
    ASSUME HasInstallments
    PROVE  Originated!CheckAll = {}
<1>1. HasDecisions
  BY DEF HasInstallments, HasContracts
<1>2. ~Originated!SingleFinalDecision
  BY <1>1, OneFinalDecision
<1> QED BY <1>2, KeysAreUnique, NoOrphans, ValuesInDomain, DatesInOrder DEF Originated!CheckAll

-----------------------------------------------------------------------------
(***************************************************************************)
(* Controlled defects (generation/quarantine.py).                          *)
(***************************************************************************)
LEMMA FirstIsFirst ==
    ASSUME NEW rows, DOMAIN rows \in SUBSET Nat, DOMAIN rows # {}
    PROVE  Originated!First(rows) \in DOMAIN rows
<1>1. \E m \in DOMAIN rows : \A n \in DOMAIN rows : m <= n
  BY LeastElement
<1>2. Originated!First(rows) = CHOOSE m \in DOMAIN rows : \A n \in DOMAIN rows : m <= n
  BY DEF Originated!First, Originated!Min
<1> QED BY <1>1, <1>2

LEMMA CustomerDuplicated ==
    ASSUME HasInstallments, Originated!Len(tables.customers) >= 2, tables' = Originated!DuplicatedCustomer
    PROVE  "PK_DUPLICATE" \in Originated!CheckAll'
<1> DEFINE customers == tables.customers
           again == [customers[1] EXCEPT !.id = customers[2].id]
<1>1. customers \in [1..OriginCustomers -> Customer] /\ OriginCustomers \in Nat
  BY OriginConstants DEF HasInstallments, HasContracts, HasDecisions, HasApplications, CustomersSound
<1>2. customers \in Seq(Customer) /\ Len(customers) = OriginCustomers
  BY <1>1, FunctionIsSeq
<1>3. Originated!Len(customers) = Len(customers)
  OBVIOUS
<1>4. OriginCustomers >= 2
  BY <1>2, <1>3
<1>5. again \in Customer /\ again.id = customers[2].id
  BY <1>1, <1>4 DEF Customer
<1>6. tables'.customers = Append(customers, again)
  BY DEF Originated!DuplicatedCustomer, HasInstallments, HasContracts, HasDecisions, HasApplications, HasTables
<1> HIDE DEF customers, again
<1> DEFINE more == Append(customers, again)
<1>7. /\ DOMAIN more = 1..(OriginCustomers + 1)
      /\ more[2] = customers[2] /\ more[OriginCustomers + 1] = again
  BY <1>1, <1>2, <1>4, <1>5
<1> HIDE DEF more
<1>8. /\ 2 \in DOMAIN more /\ OriginCustomers + 1 \in DOMAIN more \ {2}
      /\ more[2].id = more[OriginCustomers + 1].id
  BY <1>1, <1>4, <1>5, <1>7
<1>9. tables'.customers = more
  BY <1>6 DEF more
<1>10. Originated!CheckPrimaryKey'
  BY <1>8, <1>9 DEF Originated!CheckPrimaryKey, Originated!Repeated
<1> QED BY <1>10 DEF Originated!CheckAll

LEMMA CustomerOrphaned ==
    ASSUME HasInstallments, tables' = [tables EXCEPT !.applications[1].customer = 0]
    PROVE  "FK_ORPHAN" \in Originated!CheckAll'
<1>1. HasApplications
  BY DEF HasInstallments, HasContracts, HasDecisions
<1>2. PICK n \in Nat \ {0} : tables.applications \in [1..n -> Application]
  BY <1>1 DEF HasApplications, ApplicationsSound
<1> DEFINE orphan == [tables.applications[1] EXCEPT !.customer = 0]
<1>3. 1 \in 1..n /\ orphan.customer = 0
  BY <1>2 DEF Application
<1>4. /\ tables'.applications = [tables.applications EXCEPT ![1] = orphan]
      /\ tables'.customers = tables.customers
  BY <1>1 DEF HasApplications, HasTables
<1> HIDE DEF orphan
<1>5. 1 \in DOMAIN tables'.applications /\ tables'.applications[1] = orphan
  BY <1>2, <1>3, <1>4
<1>6. orphan \in Originated!Rows("applications")'
  BY <1>5 DEF Originated!Rows, Originated!Range
<1>7. \A i \in DOMAIN tables'.customers : tables'.customers[i].id = i
  BY <1>1, <1>4 DEF HasApplications, CustomersSound
<1>8. DOMAIN tables'.customers = 1..OriginCustomers /\ OriginCustomers \in Nat
  BY <1>1, <1>4, OriginConstants DEF HasApplications, CustomersSound
<1>9. 0 \notin Originated!Ids("customers")'
  BY <1>7, <1>8 DEF Originated!Ids, Originated!Rows, Originated!Range
<1>10. Originated!CheckForeignKeys'
  BY <1>3, <1>6, <1>9 DEF Originated!CheckForeignKeys, Originated!Orphans
<1> QED BY <1>10 DEF Originated!CheckAll

LEMMA FirstDecided ==
    ASSUME HasInstallments, DOMAIN tables.decisions # {}
    PROVE  /\ Originated!First(tables.decisions) \in DOMAIN tables.decisions
           /\ Originated!FirstDecision \in Decision
           /\ Originated!FirstDecision.application = Originated!First(tables.decisions)
           /\ Originated!First(tables.decisions) \in DOMAIN tables.applications
<1>1. HasApplications /\ DecisionsSound(tables.applications, tables.decisions)
  BY DEF HasInstallments, HasContracts, HasDecisions
<1>2. PICK n \in Nat \ {0} : tables.applications \in [1..n -> Application]
  BY <1>1 DEF HasApplications, ApplicationsSound
<1>3. DOMAIN tables.decisions \in SUBSET (1..n)
  BY <1>1, <1>2 DEF DecisionsSound
<1>4. DOMAIN tables.decisions \in SUBSET Nat
  BY <1>3
<1>5. Originated!First(tables.decisions) \in DOMAIN tables.decisions
  BY <1>4, FirstIsFirst
<1> QED BY <1>1, <1>5 DEF DecisionsSound, Originated!FirstDecision

LEMMA DecisionReplaced ==
    ASSUME HasInstallments, DOMAIN tables.decisions # {}, NEW decision,
           tables' = Originated!WithFirstDecision(decision)
    PROVE  decision \in Originated!Rows("decisions")' /\ tables'.applications = tables.applications
<1> DEFINE first == Originated!First(tables.decisions)
<1>1. first \in DOMAIN tables.decisions
  BY FirstDecided
<1>2. tables' = [tables EXCEPT !.decisions[first] = decision]
  BY DEF Originated!WithFirstDecision
<1> HIDE DEF first
<1>3. /\ tables'.decisions = [tables.decisions EXCEPT ![first] = decision]
      /\ tables'.applications = tables.applications
  BY <1>2 DEF HasInstallments, HasContracts, HasDecisions, HasApplications, HasTables
<1>4. first \in DOMAIN tables'.decisions /\ tables'.decisions[first] = decision
  BY <1>1, <1>3
<1> QED BY <1>3, <1>4 DEF Originated!Rows, Originated!Range

LEMMA OutcomeOutside ==
    ASSUME HasInstallments, DOMAIN tables.decisions # {},
           tables' = Originated!WithFirstDecision([Originated!FirstDecision EXCEPT !.outcome = "maybe_later"])
    PROVE  "DOMAIN_VIOLATION" \in Originated!CheckAll'
<1> DEFINE decision == [Originated!FirstDecision EXCEPT !.outcome = "maybe_later"]
<1>1. decision.outcome = "maybe_later"
  BY FirstDecided DEF Decision
<1>2. decision \in Originated!Rows("decisions")'
  BY DecisionReplaced
<1> HIDE DEF decision
<1>3. Originated!CheckDomain'
  BY <1>1, <1>2 DEF Originated!CheckDomain
<1> QED BY <1>3 DEF Originated!CheckAll

LEMMA DateImpossible ==
    ASSUME HasInstallments, DOMAIN tables.decisions # {}, tables' = Originated!ImpossibleDate
    PROVE  "DECISION_BEFORE_SUBMISSION" \in Originated!CheckAll'
<1> DEFINE first == Originated!First(tables.decisions)
           submitted == Originated!SubmittedOf(Originated!FirstDecision)
           decision == [Originated!FirstDecision EXCEPT !.at = submitted - 30]
           a == tables.applications[first]
<1>1. /\ first \in DOMAIN tables.applications /\ Originated!FirstDecision \in Decision
      /\ Originated!FirstDecision.application = first
  BY FirstDecided
<1>2. tables' = Originated!WithFirstDecision(decision)
  BY DEF Originated!ImpossibleDate
<1>3. HasApplications
  BY DEF HasInstallments, HasContracts, HasDecisions
<1>4. PICK n \in Nat \ {0} : tables.applications \in [1..n -> Application]
  BY <1>3 DEF HasApplications, ApplicationsSound
<1>5. \A i \in DOMAIN tables.applications : tables.applications[i].id = i
  BY <1>3 DEF HasApplications, ApplicationsSound
<1>6. a \in Application /\ a.id = first /\ a \in Originated!Rows("applications")
  BY <1>1, <1>4, <1>5 DEF Originated!Rows, Originated!Range
<1>7. \A r \in Originated!Rows("applications") : r.id = first => r = a
  BY <1>5 DEF Originated!Rows, Originated!Range
<1>8. submitted = (CHOOSE r \in Originated!Rows("applications") : r.id = first).submitted
  BY <1>1 DEF Originated!SubmittedOf
<1>9. submitted = a.submitted /\ submitted \in Int
  <2>1. (CHOOSE r \in Originated!Rows("applications") : r.id = first) = a
    BY <1>6, <1>7
  <2>2. a.submitted \in Int
    BY <1>6 DEF Application
  <2> HIDE DEF submitted, a
  <2> QED BY <1>8, <2>1, <2>2
<1>10. decision.at = submitted - 30 /\ decision.application = first
  BY <1>1 DEF Decision
<1>11. decision \in Originated!Rows("decisions")' /\ tables'.applications = tables.applications
  BY <1>2, DecisionReplaced
<1>12. a \in Originated!Rows("applications")'
  BY <1>6, <1>11 DEF Originated!Rows
<1> HIDE DEF decision, a, submitted, first
<1>13. decision.application = a.id /\ decision.at < a.submitted
  BY <1>6, <1>9, <1>10
<1>14. Originated!DecisionBeforeSubmission'
  BY <1>11, <1>12, <1>13 DEF Originated!DecisionBeforeSubmission
<1> QED BY <1>14 DEF Originated!CheckAll

LEMMA Injected ==
    ASSUME HasInstallments, Originated!Inject
    PROVE  OriginInv'
<1>1. generation' = "injected"
  BY DEF Originated!Inject
<1>2. CASE /\ Originated!Len(tables.customers) >= 2
           /\ defect' = "duplicate_primary_key" /\ tables' = Originated!DuplicatedCustomer
  <2>1. "PK_DUPLICATE" \in Originated!CheckAll'
    BY <1>2, CustomerDuplicated
  <2> QED BY <1>1, <1>2, <2>1 DEF OriginInv, Originated!ExpectedError
<1>3. CASE /\ defect' = "orphan_foreign_key"
           /\ tables' = [tables EXCEPT !.applications[1].customer = 0]
  <2>1. "FK_ORPHAN" \in Originated!CheckAll'
    BY <1>3, CustomerOrphaned
  <2> QED BY <1>1, <1>3, <2>1 DEF OriginInv, Originated!ExpectedError
<1>4. CASE /\ DOMAIN tables.decisions # {} /\ defect' = "invalid_domain"
           /\ tables' = Originated!WithFirstDecision([Originated!FirstDecision EXCEPT !.outcome = "maybe_later"])
  <2>1. "DOMAIN_VIOLATION" \in Originated!CheckAll'
    BY <1>4, OutcomeOutside
  <2> QED BY <1>1, <1>4, <2>1 DEF OriginInv, Originated!ExpectedError
<1>5. CASE DOMAIN tables.decisions # {} /\ defect' = "impossible_date" /\ tables' = Originated!ImpossibleDate
  <2>1. "DECISION_BEFORE_SUBMISSION" \in Originated!CheckAll'
    BY <1>5, DateImpossible
  <2> QED BY <1>1, <1>5, <2>1 DEF OriginInv, Originated!ExpectedError
<1> QED BY <1>2, <1>3, <1>4, <1>5 DEF Originated!Inject

-----------------------------------------------------------------------------
LEMMA OriginStutters ==
    ASSUME OriginInv, UNCHANGED originationVars
    PROVE  OriginInv'
<1>1. generation' = generation /\ tables' = tables /\ defect' = defect /\ findings' = findings
  BY DEF originationVars
<1>2. /\ Originated!CheckPrimaryKey' <=> Originated!CheckPrimaryKey
      /\ Originated!CheckUniqueness' <=> Originated!CheckUniqueness
  BY <1>1 DEF Originated!CheckPrimaryKey, Originated!CheckUniqueness, Originated!Repeated
<1>3. \A t : Originated!Rows(t)' = Originated!Rows(t) /\ Originated!Ids(t)' = Originated!Ids(t)
  BY <1>1 DEF Originated!Rows, Originated!Ids
<1>4. Originated!CheckForeignKeys' <=> Originated!CheckForeignKeys
  BY <1>3 DEF Originated!CheckForeignKeys, Originated!Orphans
<1>5. Originated!Finals' = Originated!Finals
  BY <1>3 DEF Originated!Finals
<1>6. /\ Originated!CheckDomain' <=> Originated!CheckDomain
      /\ Originated!SingleFinalDecision' <=> Originated!SingleFinalDecision
      /\ Originated!ContractRequiresApproval' <=> Originated!ContractRequiresApproval
      /\ Originated!ApprovalRequiresPolicy' <=> Originated!ApprovalRequiresPolicy
  BY <1>3, <1>5 DEF Originated!CheckDomain, Originated!SingleFinalDecision,
                    Originated!ContractRequiresApproval, Originated!ApprovalRequiresPolicy
<1>7. /\ Originated!DecisionBeforeSubmission' <=> Originated!DecisionBeforeSubmission
      /\ Originated!ContractBeforeDecision' <=> Originated!ContractBeforeDecision
      /\ Originated!DisbursedBeforeContract' <=> Originated!DisbursedBeforeContract
      /\ Originated!InstallmentTotal' <=> Originated!InstallmentTotal
  BY <1>3, <1>5 DEF Originated!DecisionBeforeSubmission, Originated!ContractBeforeDecision,
                    Originated!DisbursedBeforeContract, Originated!InstallmentTotal
<1>8. Originated!CheckAll' = Originated!CheckAll
  BY <1>2, <1>4, <1>6, <1>7 DEF Originated!CheckAll
<1> QED BY <1>1, <1>8 DEF OriginInv, Clean, HasTables, HasApplications, HasDecisions, HasContracts, HasInstallments

LEMMA OriginInvStep ==
    ASSUME OriginInv, Originated!OriginationNext \/ UNCHANGED originationVars
    PROVE  OriginInv'
<1>1. CASE Originated!GenerateCustomers
  <2>1. generation = "begun"
    BY <1>1 DEF Originated!GenerateCustomers, Originated!Fill
  <2> QED BY <1>1, <2>1, CustomersGenerated DEF OriginInv
<1>2. CASE Originated!GenerateApplications
  <2>1. generation = "customers"
    BY <1>2 DEF Originated!GenerateApplications, Originated!Fill
  <2> QED BY <1>2, <2>1, ApplicationsGenerated DEF OriginInv
<1>3. CASE Originated!ApplyCancellations
  <2>1. generation = "applications"
    BY <1>3 DEF Originated!ApplyCancellations, Originated!Fill
  <2> QED BY <1>3, <2>1, CancellationsApplied DEF OriginInv
<1>4. CASE Originated!GenerateDecisions
  <2>1. generation = "cancelled"
    BY <1>4 DEF Originated!GenerateDecisions
  <2> QED BY <1>4, <2>1, DecisionsGenerated DEF OriginInv
<1>5. CASE Originated!GenerateContracts
  <2>1. generation = "decisions"
    BY <1>5 DEF Originated!GenerateContracts, Originated!Fill
  <2> QED BY <1>5, <2>1, ContractsGenerated DEF OriginInv
<1>6. CASE Originated!GenerateInstallments
  <2>1. generation = "contracts"
    BY <1>6 DEF Originated!GenerateInstallments, Originated!Fill
  <2> QED BY <1>6, <2>1, InstallmentsGenerated DEF OriginInv
<1>7. CASE Originated!Validate
  <2>1. generation = "generated" /\ generation' = "validated" /\ findings' = Originated!CheckAll
        /\ tables' = tables /\ defect' = defect
    BY <1>7 DEF Originated!Validate
  <2>2. HasInstallments /\ Clean
    BY <2>1 DEF OriginInv
  <2>3. findings' = {}
    BY <2>1, <2>2, Validated
  <2> QED BY <2>1, <2>2, <2>3
      DEF OriginInv, Clean, HasTables, HasApplications, HasDecisions, HasContracts, HasInstallments
<1>8. CASE Originated!Inject
  <2>1. generation = "validated"
    BY <1>8 DEF Originated!Inject
  <2> QED BY <1>8, <2>1, Injected DEF OriginInv
<1>9. CASE Originated!ValidateBroken
  <2>1. generation = "injected" /\ findings' = Originated!CheckAll
        /\ generation' = IF Originated!ExpectedError[defect] \in findings' THEN "quarantined" ELSE "incident_error"
    BY <1>9 DEF Originated!ValidateBroken
  <2>2. Originated!ExpectedError[defect] \in Originated!CheckAll
    BY <2>1 DEF OriginInv
  <2> QED BY <2>1, <2>2 DEF OriginInv
<1> QED BY <1>1, <1>2, <1>3, <1>4, <1>5, <1>6, <1>7, <1>8, <1>9, OriginStutters DEF Originated!OriginationNext

(***************************************************************************)
(* Where a generated run stands, for any population, loans, delays, rate   *)
(* and calendar: its tables are sound as far as they are there, and a      *)
(* defect, once injected, breaks the rule it is meant to break             *)
(* (generation/engine.py, generation/quarantine.py).                       *)
(***************************************************************************)
THEOREM OriginationInvariant == StudiesSpec => [](focus = "origination" => OriginInv)
<1>1. FocusInit /\ StudiesInit => (focus = "origination" => OriginInv)
  BY OriginBegins DEF StudiesInit, OriginationInit
<1>2. (focus = "origination" => OriginInv) /\ [StudiesNext]_studiesVars => (focus = "origination" => OriginInv)'
  BY FocusMoves, OriginInvStep
<1> QED BY <1>1, <1>2, PTL DEF StudiesSpec

(***************************************************************************)
(* contracts/integrity.py, generation/quarantine.py: whatever is drawn, a  *)
(* generated run passes every contract rule it is validated against before *)
(* publication; and of a run with a controlled defect, validation reports  *)
(* the error that defect is expected to cause.                             *)
(***************************************************************************)
THEOREM ValidationJudgesRunsRight == StudiesSpec => []GeneratedRunsAreJudgedRight
<1>1. (focus = "origination" => OriginInv) => GeneratedRunsAreJudgedRight
  BY DEF OriginInv, Clean, GeneratedRunsAreJudgedRight, Originated!GeneratedRunPasses, Originated!EveryDefectIsFound
<1> QED BY <1>1, OriginationInvariant, PTL

LEMMA DueDates ==
    ASSUME NEW amount, NEW n, NEW due, Owed(amount, n, due), NEW k \in 1..n
    PROVE  LET day == Originated!DueDate(due, k)
           IN  /\ Originated!MonthOf(day) = Originated!MonthOf(due) + k - 1
               /\ \/ Originated!DayOfMonth(day) = Originated!DayOfMonth(due)
                  \/ /\ Originated!DayOfMonth(day) = OriginMonthDays[Originated!MonthOf(day)]
                     /\ Originated!DayOfMonth(day) < Originated!DayOfMonth(due)
<1>1. due \in Nat
  BY DEF Owed
<1>2. PICK loan \in OriginLoans, d \in OriginDelays, e \in OriginDelays :
          /\ amount = loan[1] /\ n = Originated!ApprovedTerm(loan[2])
          /\ due <= OriginPeriodEnd + d[1] + e[2] + e[3] + 30
  BY DEF Owed
<1>3. n \in Nat \ {0}
  BY <1>2, LoanGranted
<1>4. d[1] \in Nat /\ e[2] \in Nat /\ e[3] \in Nat /\ OriginPeriodEnd \in Nat
  BY OriginConstants
<1> DEFINE far == OriginPeriodEnd + d[1] + e[2] + e[3] + 30
<1>5. far \in Nat
  BY <1>4
<1>6. Originated!MonthOf(far) + n - 1 \in DOMAIN OriginMonthDays
  BY <1>2, OriginConstants DEF Originated!CalendarIsLongEnough
<1>7. due <= far
  BY <1>2
<1> HIDE DEF far
<1>8. /\ Originated!MonthOf(due) \in 1..LastMonth /\ Originated!MonthOf(far) \in 1..LastMonth
      /\ Originated!MonthOf(due) <= Originated!MonthOf(far)
  BY <1>1, <1>5, <1>7, MonthOfDef, MonthOfMonotone
<1>9. LastMonth \in Nat /\ Originated!MonthOf(far) + n - 1 <= LastMonth
  BY <1>6, CalendarConstants
<1> DEFINE m == Originated!MonthOf(due)
<1>10. m \in Nat /\ k - 1 \in Nat /\ m + (k - 1) <= LastMonth /\ m + k - 1 = m + (k - 1)
  BY <1>3, <1>8, <1>9
<1>11. Originated!DueDate(due, k) = Originated!AddMonths(due, k - 1)
  BY DEF Originated!DueDate
<1> QED BY <1>1, <1>10, <1>11, AddMonthsLands

(* The schedule of a contract, whatever else is in the table.              *)
LEMMA ScheduleOfContract ==
    ASSUME HasInstallments, NEW i \in DOMAIN tables.contracts
    PROVE  LET c == tables.contracts[i] IN
           Originated!ScheduleOf(c) = {InstallmentOf(c, k) : k \in 1..c.term}
<1> DEFINE c == tables.contracts[i]
<1>1. ASSUME NEW r \in Originated!ScheduleOf(c) PROVE r \in {InstallmentOf(c, k) : k \in 1..c.term}
  <2>1. r \in Originated!Rows("installments") /\ r.contract = c.id
    BY <1>1 DEF Originated!ScheduleOf
  <2>2. PICK j \in DOMAIN tables.contracts : \E k \in 1..tables.contracts[j].term : r = InstallmentOf(tables.contracts[j], k)
    BY <2>1, InstallmentIs
  <2>3. tables.contracts[j].id = c.id
    BY <2>1, <2>2 DEF InstallmentOf
  <2>4. j = i
    BY <2>3 DEF HasInstallments, HasContracts, ContractsSound
  <2> QED BY <2>2, <2>4
<1>2. ASSUME NEW k \in 1..c.term PROVE InstallmentOf(c, k) \in Originated!ScheduleOf(c)
  <2>1. <<i, k>> \in DOMAIN tables.installments /\ tables.installments[<<i, k>>] = InstallmentOf(c, k)
    BY DEF HasInstallments, InstallmentsSound
  <2>2. InstallmentOf(c, k) \in Originated!Rows("installments")
    BY <2>1 DEF Originated!Rows, Originated!Range
  <2>3. InstallmentOf(c, k).contract = c.id
    BY DEF InstallmentOf
  <2> QED BY <2>2, <2>3 DEF Originated!ScheduleOf
<1> QED BY <1>1, <1>2

LEMMA ContractIsScheduled ==
    ASSUME HasInstallments, NEW c \in Originated!Rows("contracts")
    PROVE  LET n == c.term
               rows == [k \in 1..n |-> CHOOSE i \in Originated!ScheduleOf(c) : i.number = k]
           IN  /\ {i.number : i \in Originated!ScheduleOf(c)} = 1..n
               /\ \A i, j \in Originated!ScheduleOf(c) : i.number = j.number => i = j
               /\ Originated!Total([k \in 1..n |-> rows[k].principal], n) = c.amount
               /\ Originated!Scaled(Originated!Abs(rows[n].total - Originated!LevelPayment(c.amount, n)), n)
                     <= Originated!Growth(n)
               /\ \A k \in 1..n :
                     /\ Originated!MonthOf(rows[k].due) = Originated!MonthOf(c.due) + k - 1
                     /\ \/ Originated!DayOfMonth(rows[k].due) = Originated!DayOfMonth(c.due)
                        \/ /\ Originated!DayOfMonth(rows[k].due) = OriginMonthDays[Originated!MonthOf(rows[k].due)]
                           /\ Originated!DayOfMonth(rows[k].due) < Originated!DayOfMonth(c.due)
<1> DEFINE n == c.term
           S == Originated!ScheduleOf(c)
           rows == [k \in 1..n |-> CHOOSE i \in S : i.number = k]
           paid == Originated!Amortize(c.amount, n)
<1>1. PICK i \in DOMAIN tables.contracts : c = tables.contracts[i]
  BY DEF Originated!Rows, Originated!Range
<1>2. Owed(c.amount, n, c.due)
  BY <1>1 DEF HasInstallments, HasContracts, ContractsSound
<1>3. /\ c.amount \in Nat /\ n \in Nat \ {0}
      /\ Originated!Scaled(Originated!LevelPayment(c.amount, n), n) >= Originated!Growth(n)
  BY <1>2, LoanGranted DEF Owed
<1>4. S = {InstallmentOf(c, k) : k \in 1..n}
  BY <1>1, ScheduleOfContract
<1>5. \A k : InstallmentOf(c, k).number = k
  BY DEF InstallmentOf
<1>6. \A k \in 1..n : \A r \in S : r.number = k <=> r = InstallmentOf(c, k)
  BY <1>4, <1>5
<1>7. {r.number : r \in S} = 1..n
  BY <1>4, <1>5
<1>8. \A r, s \in S : r.number = s.number => r = s
  BY <1>6, <1>7
<1>9. ASSUME NEW k \in 1..n
      PROVE  /\ rows[k].principal = paid[k].principal /\ rows[k].total = paid[k].total
             /\ rows[k].due = Originated!DueDate(c.due, k)
  <2>1. InstallmentOf(c, k) \in S
    BY <1>4
  <2>2. (CHOOSE r \in S : r.number = k) = InstallmentOf(c, k)
    BY <1>6, <2>1
  <2>3. rows[k] = InstallmentOf(c, k)
    BY <2>2
  <2> HIDE DEF rows
  <2> QED BY <2>3 DEF InstallmentOf
<1>10. [k \in 1..n |-> rows[k].principal] = [k \in 1..n |-> paid[k].principal]
  <2> HIDE DEF rows, paid, n
  <2> QED BY <1>9
<1>11. n \in 1..n
  BY <1>3
<1>12. /\ Originated!Total([k \in 1..n |-> paid[k].principal], n) = c.amount
       /\ Originated!Scaled(Originated!Abs(paid[n].total - Originated!LevelPayment(c.amount, n)), n)
             <= Originated!Growth(n)
  BY <1>3, ScheduleOfLoan
<1>13. \A k \in 1..n :
          LET day == Originated!DueDate(c.due, k)
          IN  /\ Originated!MonthOf(day) = Originated!MonthOf(c.due) + k - 1
              /\ \/ Originated!DayOfMonth(day) = Originated!DayOfMonth(c.due)
                 \/ /\ Originated!DayOfMonth(day) = OriginMonthDays[Originated!MonthOf(day)]
                    /\ Originated!DayOfMonth(day) < Originated!DayOfMonth(c.due)
  BY <1>2, DueDates
<1> HIDE DEF rows, paid, S, n
<1>14. rows[n].total = paid[n].total
  BY <1>9, <1>11
<1>15. /\ Originated!Total([k \in 1..n |-> rows[k].principal], n) = c.amount
       /\ Originated!Scaled(Originated!Abs(rows[n].total - Originated!LevelPayment(c.amount, n)), n)
             <= Originated!Growth(n)
  BY <1>10, <1>12, <1>14
<1>16. \A k \in 1..n :
          /\ Originated!MonthOf(rows[k].due) = Originated!MonthOf(c.due) + k - 1
          /\ \/ Originated!DayOfMonth(rows[k].due) = Originated!DayOfMonth(c.due)
             \/ /\ Originated!DayOfMonth(rows[k].due) = OriginMonthDays[Originated!MonthOf(rows[k].due)]
                /\ Originated!DayOfMonth(rows[k].due) < Originated!DayOfMonth(c.due)
  BY <1>9, <1>13
<1> QED BY <1>7, <1>8, <1>15, <1>16 DEF rows, S, n

(***************************************************************************)
(* generation/schedules.py: the schedule of every contract has each of its *)
(* installments once, repays the financed amount exactly, ends with an     *)
(* installment that differs from the level one by no more than the cents   *)
(* rounded away month by month, with interest, and falls due in            *)
(* consecutive months, on the same day or on the last of a shorter month.  *)
(***************************************************************************)
THEOREM SchedulesRepayExactly == StudiesSpec => []SchedulesAreSound
<1>1. (focus = "origination" => OriginInv) => SchedulesAreSound
  <2> SUFFICES ASSUME OriginInv, generation = "generated" PROVE Originated!SchedulesAreSound
    BY DEF SchedulesAreSound, Originated!SchedulesAreSound
  <2>1. HasInstallments
    BY DEF OriginInv
  <2> QED BY <2>1, ContractIsScheduled DEF Originated!SchedulesAreSound
<1> QED BY <1>1, OriginationInvariant, PTL
==============================================================================
