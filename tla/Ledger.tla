-------------------------------- MODULE Ledger --------------------------------
(***************************************************************************)
(* generation/payments.py: the month-by-month portfolio ledger.            *)
(*                                                                         *)
(* simulate_portfolio_ledger() walks the month ends of the period.  In     *)
(* each month it visits every contract in a fixed order: decides a         *)
(* payment, allocates it, perhaps reverses it, moves the head pointer past *)
(* exhausted installments, computes days past due, classifies the contract,*)
(* writes the month's snapshot row and perhaps a collections contact.  A   *)
(* second loop then emits the recoveries that fall in this month.  After   *)
(* the last month every installment gets its final status.                 *)
(*                                                                         *)
(* Each draw of the random streams is a nondeterministic choice, so the    *)
(* macro shock, which only rescales probabilities, needs no state.  Time   *)
(* is counted in days; every month has MonthLength days.                   *)
(***************************************************************************)
EXTENDS Waterfall, FiniteSets, FiniteSetsExt

CONSTANTS
    NumContracts,       \* contracts, numbered in the order the loop visits them
    Term,               \* Term[c]: how many installments contract c has
    Schedule,           \* Schedule[c]: scheduled fees, interest, principal, by slot
    DueDate,            \* DueDate[c][k]: the day installment k falls due
    Disbursed,          \* Disbursed[c]: the day the contract is disbursed
    Horizon,            \* month ends simulated
    MonthLength,        \* days in a month
    WriteOffDpd,        \* write_off.dpd_threshold
    ContactDpd,         \* collections.contact_dpd_thresholds, a set
    Tolerance,          \* tolerance.monetary_tolerance
    MaxRecoveryMonths,  \* recovery.max_months_after_write_off
    RecoveryMin,        \* recovery.recovery_fraction_min, in per cent
    RecoveryMax         \* recovery.recovery_fraction_max, in per cent

Contract == 1..NumContracts
Installments(c) == 1..Term[c]
NumSlots(c) == 3 * Term[c]
Slots(c) == 1..NumSlots(c)
InstallmentOf(s) == (s + 2) \div 3
RemainingTotal(r, k) == r[3 * k - 2] + r[3 * k - 1] + r[3 * k]
ScheduledTotal(c) == Total(Schedule[c], NumSlots(c))

ASSUME SizesAssumption ==
    /\ NumContracts \in Nat /\ Horizon \in Nat /\ MonthLength \in Nat \ {0}
    /\ WriteOffDpd \in Nat /\ Tolerance \in Nat /\ MaxRecoveryMonths \in Nat
    /\ RecoveryMin \in Nat /\ RecoveryMax \in 0..100

ASSUME ContractsAssumption ==
    \A c \in Contract :
        /\ Term[c] \in Nat \ {0}
        /\ Schedule[c] \in [Slots(c) -> Nat]
        /\ \A k \in Installments(c) : RemainingTotal(Schedule[c], k) > 0
        /\ DueDate[c] \in [Installments(c) -> Nat]
        /\ \A k, l \in Installments(c) : k < l => DueDate[c][k] < DueDate[c][l]
        /\ Disbursed[c] \in Nat

VARIABLES
    month,      \* month_index, from 1; Horizon + 1 once the month loop is over
    turn,       \* the contract the inner loop visits next
    rem,        \* open_installments: what each slot still owes
    head,       \* head_index
    status,     \* status of the contract
    paid,       \* cumulative_paid
    writeOff,   \* cumulative_write_off
    terminal,   \* terminal_month, 0 for None
    scheduled,  \* scheduled_recovery, target 0 for None
    snap,       \* the contract's latest account_monthly_snapshots row
    events,     \* the payment, reversal and contact rows of that month
    allocated,  \* payment_allocations dated up to this month end, net, by slot
    carried,    \* payment_allocations dated after this month end, net, by slot
    writeOffs,  \* write_off_events
    recoveries, \* recovery_events
    final       \* installments.status after the last month, by contract

vars == <<month, turn, rem, head, status, paid, writeOff, terminal, scheduled,
          snap, events, allocated, carried, writeOffs, recoveries, final>>

MonthEnd(m) == m * MonthLength
MonthStart(m) == MonthEnd(m) - MonthLength + 1

NoRecovery == [target |-> 0, amount |-> 0]
NoSnapshot == [month |-> 0, paid |-> 0, writeOff |-> 0, balance |-> 0,
               pastDue |-> 0, exposure |-> 0, dpd |-> 0, status |-> "none"]
NoEvents == [payment |-> "none", reversed |-> FALSE, contact |-> FALSE]
Zeroes(c) == [s \in Slots(c) |-> 0]

Init ==
    /\ month = 1
    /\ turn = 1
    /\ rem = [c \in Contract |-> Schedule[c]]
    /\ head = [c \in Contract |-> 0]
    /\ status = [c \in Contract |-> "active"]
    /\ paid = [c \in Contract |-> 0]
    /\ writeOff = [c \in Contract |-> 0]
    /\ terminal = [c \in Contract |-> 0]
    /\ scheduled = [c \in Contract |-> NoRecovery]
    /\ snap = [c \in Contract |-> NoSnapshot]
    /\ events = [c \in Contract |-> NoEvents]
    /\ allocated = [c \in Contract |-> Zeroes(c)]
    /\ carried = [c \in Contract |-> Zeroes(c)]
    /\ writeOffs = {}
    /\ recoveries = {}
    /\ final = [c \in Contract |-> <<>>]

-----------------------------------------------------------------------------
(***************************************************************************)
(* Deciding a payment.                                                     *)
(***************************************************************************)

\* What the installments in K still owe under r.
SumOver(c, r, K) ==
    Total([s \in Slots(c) |-> IF InstallmentOf(s) \in K THEN r[s] ELSE 0],
          NumSlots(c))

\* open_installments[head_index:]
Active(c, h) == h + 1 .. Term[c]

\* Installments due by the end of this month (inclusive), and those in
\* arrears at its end (strictly before it).
Payable(c) == {k \in Active(c, head[c]) : DueDate[c][k] <= MonthEnd(month)}
Overdue(c) == {k \in Active(c, head[c]) : DueDate[c][k] < MonthEnd(month)}
HasBacklog(c) == \E k \in Payable(c) : DueDate[c][k] < MonthStart(month)

\* due * fraction, quantized half up, for a fraction between 0.3 and 0.8.
PartialAmounts(due) == ((3 * due + 5) \div 10)..((8 * due + 5) \div 10)

Pays(amount, type) == [amount |-> amount, type |-> type]

\* A slip that restores the whole-balance cure of before ADR 0010.
BacklogDecisionsFullPayoff(c) ==
    {Pays(SumOver(c, rem[c], Active(c, head[c])), "cure"), Pays(0, "cure")}

BacklogDecisions(c) ==
    {Pays(SumOver(c, rem[c], Overdue(c)), "cure"), Pays(0, "cure")}

CurrentDecisions(c) ==
    LET due == SumOver(c, rem[c], Payable(c))
        open == SumOver(c, rem[c], Active(c, head[c]))
    IN  {Pays(due, "scheduled"), Pays(0, "scheduled"), Pays(open, "prepayment")}
            \cup {Pays(Least(p, open), "partial") : p \in PartialAmounts(due)}

\* _decide_payment_amount(): the amounts some draw can produce.
Decisions(c) ==
    IF Payable(c) = {} THEN {Pays(0, "scheduled")}
    ELSE IF HasBacklog(c) THEN BacklogDecisions(c)
    ELSE CurrentDecisions(c)

Allocation(c, amount) ==
    Allocate(amount,
             [s \in Slots(c) |-> IF InstallmentOf(s) > head[c] THEN rem[c][s] ELSE 0],
             NumSlots(c))

\* A reversal settles on the day after the payment and is kept only if that
\* day is still in the payment's month.
InPaymentMonth(day) == day <= MonthLength
AnyMonth(day) == day <= MonthLength + 1   \* a slip: the month is not compared
ReversalAllowed(day) == InPaymentMonth(day)

-----------------------------------------------------------------------------
(***************************************************************************)
(* Closing the month for one contract.                                     *)
(***************************************************************************)

\* The while loop that moves head_index past exhausted installments.
AdvancedHead(c, r, h) ==
    CHOOSE j \in h..Term[c] :
        /\ \A k \in h + 1 .. j : RemainingTotal(r, k) <= 0
        /\ j < Term[c] => RemainingTotal(r, j + 1) > 0

\* compute_dpd() over the installments in K.
DaysPastDue(c, r, K) ==
    LET late == {k \in K : RemainingTotal(r, k) > 0 /\ DueDate[c][k] < MonthEnd(month)}
    IN  Max({0} \cup {MonthEnd(month) - DueDate[c][k] : k \in late})

Classify(open, dpd) ==
    IF open <= Tolerance THEN "settled"
    ELSE IF dpd >= WriteOffDpd THEN "charged_off"
    ELSE IF dpd > 0 THEN "delinquent" ELSE "active"

IsTerminal(st) == st \in {"settled", "charged_off"}

\* schedule_recovery(): none, or an amount some months after this one.
RecoveryAmounts(lost) ==
    ((RecoveryMin * lost + 50) \div 100)..((RecoveryMax * lost + 50) \div 100)
RecoveryPlans(lost) ==
    {NoRecovery} \cup
    {[target |-> month + offset, amount |-> a] :
        offset \in 1..MaxRecoveryMonths, a \in RecoveryAmounts(lost)}

\* derive_snapshot_row(): always over the full list of installments.
SnapshotRow(c, r, collected, lost, st) ==
    LET written == IsTerminal(st) /\ lost > 0
        owed == SumOver(c, r, Installments(c))
        late == {k \in Installments(c) : DueDate[c][k] < MonthEnd(month)}
        balance == IF written THEN 0 ELSE AtLeastZero(owed - lost)
    IN  [month |-> month, paid |-> collected, writeOff |-> lost,
         balance |-> balance,
         pastDue |-> IF written THEN 0 ELSE SumOver(c, r, late),
         exposure |-> IF IsTerminal(st) THEN 0 ELSE balance,
         dpd |-> DaysPastDue(c, r, Installments(c)),
         status |-> st]

ShouldContact(dpd) == \E threshold \in ContactDpd : dpd >= threshold

\* A slip: only contracts not yet disbursed are passed over.
NotDisbursed(c) == Disbursed[c] > MonthEnd(month)

Waiting(c) == terminal[c] # 0 \/ Disbursed[c] > MonthEnd(month)

\* A terminal or not yet disbursed contract is passed over (`continue`).
PassOver(c) ==
    /\ month <= Horizon
    /\ turn = c
    /\ Waiting(c)
    /\ turn' = turn + 1
    /\ UNCHANGED <<month, rem, head, status, paid, writeOff, terminal, scheduled,
                   snap, events, allocated, carried, writeOffs, recoveries, final>>

\* What the slots of c owe once a payment that gave them `given` is booked, and
\* undone by its reversal or not.
RemAfter(c, given, undone) ==
    LET net == [s \in Slots(c) |-> rem[c][s] - given[s]]
    IN  IF undone THEN [s \in Slots(c) |-> net[s] + given[s]] ELSE net

\* A slip: the reversal restores the installments but not cumulative_paid.
PaidAfterKeepsReversed(c, amount, undone) == paid[c] + amount

PaidAfter(c, amount, undone) ==
    LET after == paid[c] + amount
    IN  IF undone THEN after - amount ELSE after

\* A slip: the head pointer moves before the reversal is booked.
HeadAfterTooEarly(c, given, undone) ==
    AdvancedHead(c, RemAfter(c, given, FALSE), head[c])

HeadAfter(c, given, undone) ==
    AdvancedHead(c, RemAfter(c, given, undone), head[c])

\* The dated allocation rows: the payment's, and its reversal's on `day` + 1.
PostRows(c, given, undone, day) ==
    LET same == InPaymentMonth(day + 1)
    IN  /\ allocated' = [allocated EXCEPT ![c] =
              [s \in Slots(c) |-> @[s] + given[s]
                                  - (IF undone /\ same THEN given[s] ELSE 0)]]
        /\ carried' = [carried EXCEPT ![c] =
              [s \in Slots(c) |-> @[s] - (IF undone /\ ~same THEN given[s] ELSE 0)]]

\* The rest of the inner loop's body, once the month's rows leave r owed.
CloseMonth(c, d, r, h, undone) ==
    LET collected == PaidAfter(c, d.amount, undone)
        dpd == DaysPastDue(c, r, Active(c, h))
        open == SumOver(c, r, Active(c, h))
        st == Classify(open, dpd)
        lost == IF st = "charged_off" THEN open ELSE writeOff[c]
    IN  /\ rem' = [rem EXCEPT ![c] = r]
        /\ head' = [head EXCEPT ![c] = h]
        /\ paid' = [paid EXCEPT ![c] = collected]
        /\ status' = [status EXCEPT ![c] = st]
        /\ writeOff' = [writeOff EXCEPT ![c] = lost]
        /\ terminal' = [terminal EXCEPT ![c] = IF IsTerminal(st) THEN month ELSE 0]
        /\ \E plan \in IF st = "charged_off" THEN RecoveryPlans(lost) ELSE {NoRecovery} :
              scheduled' = [scheduled EXCEPT ![c] = plan]
        /\ writeOffs' = IF st = "charged_off"
                        THEN writeOffs \cup {[contract |-> c, month |-> month, amount |-> lost]}
                        ELSE writeOffs
        /\ snap' = [snap EXCEPT ![c] = SnapshotRow(c, r, collected, lost, st)]
        /\ events' = [events EXCEPT ![c] =
              [payment |-> IF d.amount > 0 THEN d.type ELSE "none",
               reversed |-> undone,
               contact |-> ~IsTerminal(st) /\ ShouldContact(dpd)]]

ProcessContract(c) ==
    /\ month <= Horizon
    /\ turn = c
    /\ ~Waiting(c)
    /\ turn' = turn + 1
    /\ \E d \in Decisions(c), day \in 1..MonthLength, drawn \in BOOLEAN :
       LET undone == d.amount > 0 /\ drawn /\ ReversalAllowed(day + 1)
       IN  \E given \in {Allocation(c, d.amount)} :
           \E r \in {RemAfter(c, given, undone)}, h \in {HeadAfter(c, given, undone)} :
              /\ CloseMonth(c, d, r, h, undone)
              /\ PostRows(c, given, undone, day)
    /\ UNCHANGED <<month, recoveries, final>>

-----------------------------------------------------------------------------
(***************************************************************************)
(* The recovery pass, the next month, and the final statuses.              *)
(***************************************************************************)
DueRecoveries == {c \in Contract : scheduled[c] # NoRecovery /\ scheduled[c].target = month}

\* A slip: terminal contracts are skipped here too, as they are in the loop above.
DueRecoveriesOfOpenContracts == {c \in DueRecoveries : terminal[c] = 0}

LandingNow == DueRecoveries

EmitRecoveries ==
    /\ month <= Horizon
    /\ turn = NumContracts + 1
    /\ recoveries' = recoveries \cup
          {[contract |-> c, month |-> month, amount |-> scheduled[c].amount] : c \in LandingNow}
    /\ scheduled' = [c \in Contract |-> IF c \in LandingNow THEN NoRecovery ELSE scheduled[c]]
    /\ month' = month + 1
    /\ turn' = 1
    /\ allocated' = [c \in Contract |-> [s \in Slots(c) |-> allocated[c][s] + carried[c][s]]]
    /\ carried' = [c \in Contract |-> Zeroes(c)]
    /\ UNCHANGED <<rem, head, status, paid, writeOff, terminal, snap, events, writeOffs, final>>

\* A slip: a written-off contract's open installments keep their dated status.
InstallmentStatusIgnoresWriteOff(c, k) ==
    IF RemainingTotal(rem[c], k) <= 0 THEN "paid"
    ELSE IF RemainingTotal(rem[c], k) < RemainingTotal(Schedule[c], k) THEN "partially_paid"
    ELSE IF DueDate[c][k] < MonthEnd(Horizon) THEN "overdue"
    ELSE IF DueDate[c][k] <= MonthEnd(Horizon) THEN "due"
    ELSE "scheduled"

InstallmentStatus(c, k) ==
    IF RemainingTotal(rem[c], k) <= 0 THEN "paid"
    ELSE IF status[c] = "charged_off" THEN "written_off"
    ELSE IF RemainingTotal(rem[c], k) < RemainingTotal(Schedule[c], k) THEN "partially_paid"
    ELSE IF DueDate[c][k] < MonthEnd(Horizon) THEN "overdue"
    ELSE IF DueDate[c][k] <= MonthEnd(Horizon) THEN "due"
    ELSE "scheduled"

Finalise ==
    /\ month = Horizon + 1
    /\ turn = 1
    /\ turn' = 0
    /\ final' = [c \in Contract |-> [k \in Installments(c) |-> InstallmentStatus(c, k)]]
    /\ UNCHANGED <<month, rem, head, status, paid, writeOff, terminal, scheduled, snap,
                   events, allocated, carried, writeOffs, recoveries>>

Next ==
    \/ \E c \in Contract : PassOver(c) \/ ProcessContract(c)
    \/ EmitRecoveries
    \/ Finalise

Spec == Init /\ [][Next]_vars
FairSpec == Spec /\ WF_vars(Next)

-----------------------------------------------------------------------------
(***************************************************************************)
(* contracts/financial_rules.py, _ledger_reconciliation(): what a snapshot *)
(* should say, rebuilt from the schedule and from the dated rows alone.    *)
(* It never looks at rem, head, paid or writeOff.                          *)
(***************************************************************************)
ExpectedPaid(c, k) ==
    Clip(RemainingTotal(allocated[c], k), 0, RemainingTotal(Schedule[c], k))

ExpectedOutstanding(c, k) == RemainingTotal(Schedule[c], k) - ExpectedPaid(c, k)

ExpectedDpd(c) ==
    LET late == {k \in Installments(c) : /\ ExpectedOutstanding(c, k) > Tolerance
                                         /\ DueDate[c][k] < MonthEnd(month)}
    IN  Max({0} \cup {MonthEnd(month) - DueDate[c][k] : k \in late})

ExpectedWriteOff(c) ==
    MapThenSumSet(LAMBDA w : w.amount,
                  {w \in writeOffs : w.contract = c /\ w.month <= month})

ExpectedBalance(c) ==
    AtLeastZero(Total([k \in Installments(c) |-> ExpectedOutstanding(c, k)], Term[c])
                - ExpectedWriteOff(c))

Reconciled(c) ==
    /\ snap[c].paid = Total([k \in Installments(c) |-> ExpectedPaid(c, k)], Term[c])
    /\ snap[c].balance = ExpectedBalance(c)
    /\ snap[c].writeOff = ExpectedWriteOff(c)
    /\ snap[c].dpd = ExpectedDpd(c)

\* write_off_not_before_contract: a write-off is dated on its month end.
WriteOffNotBeforeContract(w) == MonthEnd(w.month) >= Disbursed[w.contract]

\* recovery_after_write_off: the write-off it names exists and is no later.
RecoveryAfterWriteOff(x) ==
    \E w \in writeOffs : w.contract = x.contract /\ w.month <= x.month

\* Of two snapshot rows of one contract, an earlier and a later one:
\* cumulative_paid_non_decreasing, without the exception it makes for reversals,
\* cumulative_write_off_non_decreasing, and no_snapshot_after_terminal_status.
PaidNonDecreasing(earlier, later) == later.paid >= earlier.paid
WriteOffNonDecreasing(earlier, later) == later.writeOff >= earlier.writeOff
NoRowAfterTerminal(earlier) == ~IsTerminal(earlier.status)

-----------------------------------------------------------------------------
(***************************************************************************)
(* Properties.                                                             *)
(***************************************************************************)

\* Every variable keeps its type.  Amounts never go below zero, which the
\* generator relies on when it writes them to non-negative contract columns.
TypeOK ==
    /\ month \in 1..Horizon + 1
    /\ turn \in 0..NumContracts + 1
    /\ head \in [Contract -> Nat]
    /\ status \in [Contract -> {"active", "delinquent", "settled", "charged_off"}]
    /\ paid \in [Contract -> Nat]
    /\ writeOff \in [Contract -> Nat]
    /\ terminal \in [Contract -> 0..Horizon]
    /\ scheduled \in [Contract -> [target : 0..Horizon + MaxRecoveryMonths, amount : Nat]]
    /\ DOMAIN rem = Contract /\ DOMAIN allocated = Contract /\ DOMAIN carried = Contract
    /\ \A c \in Contract :
         /\ head[c] <= Term[c]
         /\ rem[c] \in [Slots(c) -> Nat]
         /\ allocated[c] \in [Slots(c) -> Nat]
         /\ carried[c] \in [Slots(c) -> Int]

\* The remaining amounts are a function of cumulative_paid alone: after any
\* history of partial payments, cures, prepayments and reversals, exactly the
\* oldest slots are paid, in waterfall order, and cumulative_paid says how far.
FollowsWaterfall ==
    \A c \in Contract :
        /\ paid[c] <= ScheduledTotal(c)
        /\ rem[c] = OldestFirst(Schedule[c], paid[c], NumSlots(c))

\* The comment at _ContractState.head_index: the installments before the head
\* are exhausted for good and the ones from it on are exactly the open ones.
\* Dpd, write-off amounts and decisions are computed from that slice only.
HeadPointerExact ==
    \A c \in Contract : \A k \in Installments(c) :
        k <= head[c] <=> RemainingTotal(rem[c], k) = 0

\* The generator's eager netting agrees, at every month end, with the ledger
\* rebuilt from dated rows: cumulative_paid, total_balance, cumulative_write_off
\* and dpd.  The code comments argue this for reversals inside the month.
SnapshotReconciled ==
    \A c \in Contract : snap[c].month = month => Reconciled(c)

\* Every unit of the schedule is, in each snapshot, collected, still on the
\* books or written off, and a recovery never exceeds what was written off.
NothingLost ==
    /\ \A c \in Contract : snap[c].month > 0 =>
          snap[c].paid + snap[c].balance + snap[c].writeOff = ScheduledTotal(c)
    /\ \A x \in recoveries : x.amount <= writeOff[x.contract]

\* The dates of the two terminal events obey the temporal rules, and more: a
\* recovery refers to exactly one earlier write-off of the same contract, at
\* most MaxRecoveryMonths before; a contract recovers once at most; and one
\* still scheduled has neither landed nor been missed by the == test on months.
RecoveriesFollowWriteOffs ==
    /\ \A w \in writeOffs : WriteOffNotBeforeContract(w)
    /\ \A x \in recoveries :
          /\ RecoveryAfterWriteOff(x)
          /\ \A w \in writeOffs :
                w.contract = x.contract => x.month - w.month \in 1..MaxRecoveryMonths
    /\ \A x, y \in recoveries \cup writeOffs :
          x.contract = y.contract /\ (x \in writeOffs <=> y \in writeOffs) => x = y
    /\ \A c \in Contract : scheduled[c] # NoRecovery =>
          /\ scheduled[c].target >= month
          /\ status[c] = "charged_off"
          /\ ~\E x \in recoveries : x.contract = c

\* ADR 0010 says it of every cure: "`past_due_amount` and `dpd` both return to
\* `0` at the cure month's own snapshot", and that payment_type = "cure" is "a
\* reliable way to identify cure events".
CureMonthIsClean ==
    \A c \in Contract : events[c].payment = "cure" => snap[c].dpd = 0 /\ snap[c].pastDue = 0

\* A cure that stands is this step's payment of c.
Cured(c) ==
    /\ turn = c /\ turn' = c + 1 /\ ~Waiting(c)
    /\ events'[c].payment = "cure" /\ ~events'[c].reversed /\ snap'[c].month = month

\* Reversals exist, but they are netted inside the month, so no snapshot ever
\* reports less collected than the one before; and a terminal contract's row is
\* never written again.  ADR 0010: a cure that stands ends its month with
\* nothing past due, and leaves every installment due at or after the month end
\* exactly as it was.
SnapshotsMoveForward ==
    [][\A c \in Contract :
          /\ snap'[c] # snap[c] => /\ PaidNonDecreasing(snap[c], snap'[c])
                                  /\ WriteOffNonDecreasing(snap[c], snap'[c])
                                  /\ NoRowAfterTerminal(snap[c])
          /\ Cured(c) =>
                /\ snap'[c].dpd = 0 /\ snap'[c].pastDue = 0
                /\ \A s \in Slots(c) :
                      DueDate[c][InstallmentOf(s)] >= MonthEnd(month) => rem'[c][s] = rem[c][s]]_vars

\* The installments table, written once at the end, tells the same story as the
\* contract's last snapshot: settled means all paid, charged off means paid or
\* written off, active means nothing in arrears, delinquent means something is.
FinalStatusesAgree ==
    \A c \in Contract : final[c] # <<>> =>
        LET statuses == {final[c][k] : k \in Installments(c)}
            late == {k \in Installments(c) : /\ DueDate[c][k] < MonthEnd(Horizon)
                                             /\ final[c][k] # "paid"}
        IN  /\ status[c] = "settled" => statuses \subseteq {"paid"}
            /\ status[c] = "charged_off" => "written_off" \in statuses
                                            /\ statuses \subseteq {"paid", "written_off"}
            /\ status[c] = "active" /\ snap[c].month > 0 => late = {}
            /\ status[c] = "delinquent" => late # {}

\* A recovery scheduled for a month inside the period is emitted, although the
\* contract it belongs to is terminal and the main loop no longer visits it.
ScheduledRecoveryLands ==
    \A c \in Contract :
        scheduled[c].target \in 1..Horizon ~> \E x \in recoveries : x.contract = c

-----------------------------------------------------------------------------
(***************************************************************************)
(* The loan book this ledger implements.                                   *)
(***************************************************************************)
\* The recovery that landed on c, if any, as the loan book knows it.
CollectedOf(c) == {x.amount : x \in {y \in recoveries : y.contract = c}}

Book == INSTANCE LoanBook WITH
    Loans <- Contract,
    Owed <- [c \in Contract |-> ScheduledTotal(c)],
    state <- [c \in Contract |->
                IF status[c] \in {"active", "delinquent"} THEN "performing" ELSE status[c]],
    collected <- paid,
    lost <- writeOff,
    recovered <- [c \in Contract |->
                    IF CollectedOf(c) = {} THEN -1 ELSE Max(CollectedOf(c))]

\* The month-by-month ledger implements the loan book: each step of a contract
\* is one month of its loan, or nothing, whatever the waterfall did inside.
ImplementsLoanBook == Book!Spec
=============================================================================
