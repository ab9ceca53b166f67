----------------------------- MODULE Origination -----------------------------
(***************************************************************************)
(* The tables of a generated portfolio up to its payment schedules, the    *)
(* contract rules they are validated against before publication, and the   *)
(* controlled defects injected into a valid run to show that the rules     *)
(* find them (generation/, contracts/, generation/quarantine.py).          *)
(*                                                                         *)
(* Time is counted in days from the start of the simulated period, money   *)
(* in cents, the monthly rate is RateNum/RateDen.  A table is a function   *)
(* from the places of its rows: a decision stands in the place of its      *)
(* application, a contract in that of its decision, and an installment in  *)
(* that of its contract and its number.                                    *)
(***************************************************************************)
EXTENDS Waterfall, Integers, Sequences, FiniteSets, SequencesExt, FiniteSetsExt

CONSTANTS
    Customers,          \* number of customers
    MaxApplications,    \* applications of a run, at most
    PeriodEnd,          \* last day of the simulated period
    Arrivals, Offsets,  \* days drawn for an arrival, and from it to an application
    Loans,              \* pairs <<requested amount, requested term>>
    Delays,             \* triples: days to a decision, to a contract, to the disbursement
    MaxTerm,            \* approved_term_months_max
    RateNum, RateDen,
    MonthDays           \* days of the calendar months, from the first of the period

------------------------------------------------------------------------------
(* Division by a positive number, rounded half up. *)
HalfUp(a, b) == IF a >= 0 THEN (2 * a + b) \div (2 * b) ELSE -((2 * (-a) + b) \div (2 * b))

Power(base, n) ==
    LET power[k \in 0..n] == IF k = 0 THEN 1 ELSE base * power[k - 1]
    IN  power[n]

(* What RateDen^n grows to in n months, and by how much; the level payment *)
(* of an amount over n months; the interest of a month on what is owed.    *)
Grown(n) == Power(RateNum + RateDen, n)
Growth(n) == Grown(n) - Power(RateDen, n)
LevelPayment(amount, n) == HalfUp(amount * RateNum * Grown(n), RateDen * Growth(n))
Interest(balance) == HalfUp(balance * RateNum, RateDen)

LastAsOthers(n, k, level, interest, balance) == level - interest    \* a slip: nothing absorbs the residual
Principal(n, k, level, interest, balance) == IF k < n THEN level - interest ELSE balance

(* What is owed after k months.                                            *)
Balances(amount, n) ==
    LET After(k, balance) ==
            balance - Principal(n, k, LevelPayment(amount, n), Interest(balance), balance)
        owed[k \in 0..n] == IF k = 0 THEN amount ELSE After(k, owed[k - 1])
    IN  owed

Amortize(amount, n) ==
    LET owed == Balances(amount, n)
    IN  [k \in 1..n |->
            LET interest == Interest(owed[k - 1])
                principal == Principal(n, k, LevelPayment(amount, n), interest, owed[k - 1])
            IN  [principal |-> principal, interest |-> interest, total |-> principal + interest]]

(* Two roundings a month, of half a cent each, with interest on them, are  *)
(* Growth(n) / (RateNum * RateDen^(n - 1)) cents in the end.               *)
Scaled(cents, n) == cents * RateNum * Power(RateDen, n - 1)

(* The calendar: a day is a day of a month. *)
MonthStart[m \in 1..Len(MonthDays)] == IF m = 1 THEN 0 ELSE MonthStart[m - 1] + MonthDays[m - 1]
MonthOf(day) == Max({m \in DOMAIN MonthDays : MonthStart[m] <= day})
DayOfMonth(day) == day - MonthStart[MonthOf(day)] + 1
AddMonths(day, months) ==
    LET m == MonthOf(day) + months
    IN  MonthStart[m] + Least(DayOfMonth(day), MonthDays[m]) - 1

------------------------------------------------------------------------------
(* Loans and months of a configuration: the roundings of a schedule never  *)
(* add up to an installment, and the calendar reaches the last due date.   *)
ApprovedTerm(term) == IF term <= MaxTerm THEN term ELSE MaxTerm
LoansOutweighRounding ==
    \A loan \in Loans :
        LET n == ApprovedTerm(loan[2])
        IN  n >= 1 /\ Scaled(LevelPayment(loan[1], n), n) >= Growth(n)
CalendarIsLongEnough ==
    \A loan \in Loans, d, e \in Delays :
        MonthOf(PeriodEnd + d[1] + e[2] + e[3] + 30) + ApprovedTerm(loan[2]) - 1 \in DOMAIN MonthDays

OriginationAssumption ==
    /\ Customers \in Nat \ {0} /\ MaxApplications \in Nat /\ PeriodEnd \in Nat
    /\ Arrivals \subseteq 0..PeriodEnd /\ Offsets \subseteq 0..PeriodEnd
    /\ Loans \subseteq Nat \X Nat /\ Delays \subseteq Nat \X Nat \X Nat
    /\ MaxTerm \in Nat /\ RateNum \in Nat \ {0} /\ RateDen \in Nat \ {0}
    /\ MonthDays \in Seq(28..31) /\ MonthDays # <<>>
    /\ LoansOutweighRounding /\ CalendarIsLongEnough

VARIABLES
    stage,          \* the last step of the generation that ran
    tables,         \* the tables generated so far
    incident,       \* the defect injected, or "none"
    findings        \* codes of the errors found by the last validation

originationVars == <<stage, tables, incident, findings>>

NoTables == [customers |-> <<>>, applications |-> <<>>, decisions |-> <<>>,
             contracts |-> <<>>, installments |-> <<>>]

OriginationInit ==
    /\ stage = "begun" /\ tables = NoTables
    /\ incident = "none" /\ findings = {}

(* One step of the generator: it fills one table, in a fixed order. *)
Fill(before, after, table, rows) ==
    /\ stage = before /\ stage' = after
    /\ tables' = [tables EXCEPT ![table] = rows]
    /\ UNCHANGED <<incident, findings>>

------------------------------------------------------------------------------
(* Identifiers count up from 1; rows are sorted by arrival. *)
GenerateCustomers ==
    \E days \in [1..Customers -> Arrivals] :
        /\ \A i \in 1..(Customers - 1) : days[i] <= days[i + 1]
        /\ Fill("begun", "customers", "customers",
                [i \in 1..Customers |-> [id |-> i, created |-> days[i]]])

Clamp(day) == IF day <= PeriodEnd THEN day ELSE PeriodEnd
(* Applications of one customer come in the order of their offsets, never   *)
(* after the end of the period.                                            *)
GenerateApplications ==
    \E n \in Customers..MaxApplications :
    \E owner \in [1..n -> 1..Customers], offset \in [1..n -> Offsets], loan \in [1..n -> Loans] :
        /\ {owner[i] : i \in 1..n} = 1..Customers
        /\ \A i \in 1..(n - 1) :
              owner[i] < owner[i + 1] \/ (owner[i] = owner[i + 1] /\ offset[i] <= offset[i + 1])
        /\ Fill("customers", "applications", "applications",
                [i \in 1..n |-> [id |-> i, customer |-> owner[i], status |-> "submitted",
                                 submitted |-> Clamp(tables.customers[owner[i]].created + offset[i]),
                                 amount |-> loan[i][1], term |-> loan[i][2]]])

ApplyCancellations ==
    \E cancelled \in SUBSET DOMAIN tables.applications :
        Fill("applications", "cancelled", "applications",
             [i \in DOMAIN tables.applications |->
                 IF i \in cancelled THEN [tables.applications[i] EXCEPT !.status = "cancelled"]
                 ELSE tables.applications[i]])

(* A score is drawn for every application that was not cancelled. *)
Decidable == {i \in DOMAIN tables.applications : tables.applications[i].status # "cancelled"}
GenerateDecisions ==
    /\ stage = "cancelled" /\ stage' = "decisions"
    /\ \E approved \in SUBSET Decidable, delay \in [Decidable -> {d[1] : d \in Delays}] :
          LET Outcome(i) == IF i \in approved THEN "approved" ELSE "rejected"
          IN  tables' = [tables EXCEPT
                 !.decisions = [i \in Decidable |->
                     LET a == tables.applications[i] IN
                     [application |-> a.id, final |-> TRUE, at |-> a.submitted + delay[i],
                      outcome |-> Outcome(i), amount |-> a.amount, term |-> ApprovedTerm(a.term)]],
                 !.applications = [i \in DOMAIN tables.applications |->
                     IF i \in Decidable THEN [tables.applications[i] EXCEPT !.status = Outcome(i)]
                     ELSE tables.applications[i]]]
    /\ UNCHANGED <<incident, findings>>

(* An approved application becomes a contract, or not; contracts count up.  *)
ApprovedAny == DOMAIN tables.decisions      \* a slip: a rejected application may be booked
Approved == {i \in DOMAIN tables.decisions : tables.decisions[i].outcome = "approved"}
GenerateContracts ==
    \E booked \in SUBSET Approved : \E delay \in [booked -> Delays] :
        Fill("decisions", "contracts", "contracts",
             [i \in booked |->
                LET decision == tables.decisions[i]
                    signed == decision.at + delay[i][2] IN
                [id |-> Cardinality({j \in booked : j <= i}), application |-> decision.application,
                 customer |-> tables.applications[decision.application].customer,
                 date |-> signed, disbursed |-> signed + delay[i][3],
                 amount |-> decision.amount, term |-> decision.term,
                 due |-> signed + delay[i][3] + 30]])

------------------------------------------------------------------------------
ChainDue(first, k) ==         \* a slip: each date is computed from the one before
    FoldLeft(LAMBDA day, i : AddMonths(day, 1), first, [i \in 1..(k - 1) |-> i])
DueDate(first, k) == AddMonths(first, k - 1)

GenerateInstallments ==
    LET Schedule == [i \in DOMAIN tables.contracts |->
                        Amortize(tables.contracts[i].amount, tables.contracts[i].term)]
        Places == UNION {{i} \X (1..tables.contracts[i].term) : i \in DOMAIN tables.contracts}
    IN  Fill("contracts", "generated", "installments",
             [p \in Places |->
                LET c == tables.contracts[p[1]]
                    row == Schedule[p[1]][p[2]] IN
                [contract |-> c.id, due |-> DueDate(c.due, p[2]), number |-> p[2],
                 principal |-> row.principal, interest |-> row.interest, total |-> row.total]])

------------------------------------------------------------------------------
(* The contract rules, each the set of rows that break it. *)
Rows(table) == Range(tables[table])
Repeated(rows, Key(_)) == {i \in DOMAIN rows : \E j \in DOMAIN rows \ {i} : Key(rows[i]) = Key(rows[j])}
Orphans(table, Key(_), known) == {r \in Rows(table) : Key(r) \notin known}
Ids(table) == {r.id : r \in Rows(table)}

CheckPrimaryKey ==
    \/ Repeated(tables.customers, LAMBDA r : r.id) # {}
    \/ Repeated(tables.applications, LAMBDA r : r.id) # {}
CheckForeignKeys ==
    \/ Orphans("applications", LAMBDA r : r.customer, Ids("customers")) # {}
    \/ Orphans("decisions", LAMBDA r : r.application, Ids("applications")) # {}
    \/ Orphans("contracts", LAMBDA r : r.application, Ids("applications")) # {}
    \/ Orphans("installments", LAMBDA r : r.contract, Ids("contracts")) # {}
CheckUniqueness == Repeated(tables.installments, LAMBDA r : <<r.contract, r.number>>) # {}
CheckDomain ==
    \/ \E d \in Rows("decisions") : d.outcome \notin {"approved", "rejected"}
    \/ \E i \in Rows("installments") : i.principal < 0 \/ i.interest < 0 \/ i.total < 0

Finals == {d \in Rows("decisions") : d.final}
SingleFinalDecision == Cardinality(Finals) # Cardinality({d.application : d \in Finals})
ContractRequiresApproval ==
    \E c \in Rows("contracts") :
        ~\E d \in Finals : d.application = c.application /\ d.outcome = "approved"
PolicyFrom == -1        \* the only policy starts a day before the period and does not end
ApprovalRequiresPolicy == \E d \in Rows("decisions") : d.at < PolicyFrom
DecisionBeforeSubmission ==
    \E d \in Rows("decisions"), a \in Rows("applications") : d.application = a.id /\ d.at < a.submitted
ContractBeforeDecision ==
    \E c \in Rows("contracts"), d \in Finals :
        d.application = c.application /\ d.outcome = "approved" /\ c.date < d.at
DisbursedBeforeContract == \E c \in Rows("contracts") : c.disbursed < c.date
InstallmentTotal == \E i \in Rows("installments") : i.total # i.principal + i.interest

CheckAll ==
    {code \in {"PK_DUPLICATE", "FK_ORPHAN", "UNIQUENESS_VIOLATION", "DOMAIN_VIOLATION",
               "MULTIPLE_FINAL_DECISIONS", "CONTRACT_WITHOUT_APPROVED_DECISION",
               "DECISION_POLICY_NOT_VALID_AT_DECISION_TIME", "DECISION_BEFORE_SUBMISSION",
               "CONTRACT_BEFORE_DECISION", "DISBURSEMENT_BEFORE_CONTRACT",
               "INSTALLMENT_TOTAL_NOT_RECONCILED"} :
        CASE code = "PK_DUPLICATE" -> CheckPrimaryKey
          [] code = "FK_ORPHAN" -> CheckForeignKeys
          [] code = "UNIQUENESS_VIOLATION" -> CheckUniqueness
          [] code = "DOMAIN_VIOLATION" -> CheckDomain
          [] code = "MULTIPLE_FINAL_DECISIONS" -> SingleFinalDecision
          [] code = "CONTRACT_WITHOUT_APPROVED_DECISION" -> ContractRequiresApproval
          [] code = "DECISION_POLICY_NOT_VALID_AT_DECISION_TIME" -> ApprovalRequiresPolicy
          [] code = "DECISION_BEFORE_SUBMISSION" -> DecisionBeforeSubmission
          [] code = "CONTRACT_BEFORE_DECISION" -> ContractBeforeDecision
          [] code = "DISBURSEMENT_BEFORE_CONTRACT" -> DisbursedBeforeContract
          [] OTHER -> InstallmentTotal}

Validate ==
    /\ stage = "generated" /\ stage' = "validated"
    /\ findings' = CheckAll
    /\ UNCHANGED <<tables, incident>>

------------------------------------------------------------------------------
(* The expected error of each controlled defect. *)
ExpectedError ==
    [duplicate_primary_key |-> "PK_DUPLICATE", orphan_foreign_key |-> "FK_ORPHAN",
     invalid_domain |-> "DOMAIN_VIOLATION", impossible_date |-> "DECISION_BEFORE_SUBMISSION"]

DuplicatedCustomer ==       \* the first customer again, under the identifier of the second
    [tables EXCEPT !.customers = Append(@, [@[1] EXCEPT !.id = tables.customers[2].id])]
SubmittedOf(decision) == (CHOOSE a \in Rows("applications") : a.id = decision.application).submitted
First(rows) == Min(DOMAIN rows)
WithFirstDecision(decision) == [tables EXCEPT !.decisions[First(tables.decisions)] = decision]
FirstDecision == tables.decisions[First(tables.decisions)]
ImpossibleFromDecision ==   \* a slip: the impossible date is taken from the decision's own day
    WithFirstDecision([FirstDecision EXCEPT !.at = @ - 2])
ImpossibleDate ==
    WithFirstDecision([FirstDecision EXCEPT !.at = SubmittedOf(FirstDecision) - 30])

Inject ==
    /\ stage = "validated" /\ findings = {} /\ incident = "none"
    /\ \/ /\ Len(tables.customers) >= 2
          /\ incident' = "duplicate_primary_key"
          /\ tables' = DuplicatedCustomer
       \/ /\ tables.applications # <<>>
          /\ incident' = "orphan_foreign_key"
          /\ tables' = [tables EXCEPT !.applications[1].customer = 0]
       \/ /\ DOMAIN tables.decisions # {}
          /\ \/ incident' = "invalid_domain"
                /\ tables' = WithFirstDecision([FirstDecision EXCEPT !.outcome = "maybe_later"])
             \/ incident' = "impossible_date" /\ tables' = ImpossibleDate
    /\ stage' = "injected"
    /\ UNCHANGED findings

(* The error is expected of one contract.  Before the injection there was   *)
(* no finding, and each defect touches one table: the code is enough.       *)
ValidateBroken ==
    /\ stage = "injected"
    /\ findings' = CheckAll
    /\ stage' = IF ExpectedError[incident] \in findings' THEN "quarantined" ELSE "incident_error"
    /\ UNCHANGED <<tables, incident>>

OriginationNext ==
    \/ GenerateCustomers \/ GenerateApplications \/ ApplyCancellations \/ GenerateDecisions
    \/ GenerateContracts \/ GenerateInstallments \/ Validate \/ Inject \/ ValidateBroken

------------------------------------------------------------------------------
(* What the generator writes passes every rule, whatever is drawn: also    *)
(* with applications pushed back to the last day of the period and         *)
(* decisions, contracts and due dates beyond it. A run is never refused    *)
(* by its own validation.                                                  *)
GeneratedRunPasses == stage = "validated" => findings = {}

(* Every controlled defect breaks a rule in the table it claims to test.   *)
EveryDefectIsFound == stage # "incident_error"

(* A schedule has one installment of each number; their principal adds up  *)
(* to the financed amount; the last one differs from the level payment by  *)
(* no more than a cent per period, with interest; and due dates fall in    *)
(* consecutive months, on the first one's day or on the last of a shorter  *)
(* month.                                                                  *)
ScheduleOf(c) == {i \in Rows("installments") : i.contract = c.id}
Abs(x) == IF x < 0 THEN -x ELSE x
SchedulesAreSound ==
    stage = "generated" =>
        \A c \in Rows("contracts") :
            LET n == c.term
                rows == [k \in 1..n |-> CHOOSE i \in ScheduleOf(c) : i.number = k]
            IN  /\ {i.number : i \in ScheduleOf(c)} = 1..n
                /\ \A i, j \in ScheduleOf(c) : i.number = j.number => i = j
                /\ Total([k \in 1..n |-> rows[k].principal], n) = c.amount
                /\ Scaled(Abs(rows[n].total - LevelPayment(c.amount, n)), n) <= Growth(n)
                /\ \A k \in 1..n :
                      /\ MonthOf(rows[k].due) = MonthOf(c.due) + k - 1
                      /\ \/ DayOfMonth(rows[k].due) = DayOfMonth(c.due)
                         \/ /\ DayOfMonth(rows[k].due) = MonthDays[MonthOf(rows[k].due)]
                            /\ DayOfMonth(rows[k].due) < DayOfMonth(c.due)
==============================================================================
