---------------------------- MODULE CommonRandom ----------------------------
(***************************************************************************)
(* Counterfactual suites under common random numbers: generation/suite.py,  *)
(* montecarlo.py and comparison.py over two runs of one seed.               *)
(*                                                                         *)
(* A run draws from named streams that depend on the seed alone (rng.py).   *)
(* The draws of a seed are the variable tape: nobody knows a cell before    *)
(* the first run reads it, and the second run reads what the first one did. *)
(* What a draw decides depends on the thresholds of the run's scenario, and *)
(* so does the number of draws it makes: a stream stays common only as long *)
(* as both runs have made the same number of them.                          *)
(*                                                                         *)
(* A payment is one whole installment, or all that are overdue (a cure);    *)
(* partial payments, prepayments and write-offs are in the module Ledger,   *)
(* what a killed or failed suite leaves on disk in the module RunStore.     *)
(***************************************************************************)
EXTENDS Integers, Sequences, FiniteSets, SequencesExt

CONSTANTS
    Customers,      \* the number of customers of the scale; each applies once
    Months,         \* bound: months simulated
    Term,           \* installments of a contract, one a month
    MaxSeeds,       \* bound: seeds of a Monte Carlo
    Configs         \* the configurations of the scenarios

Baseline == [name |-> "baseline", crn |-> TRUE, cutoff |-> 1, onTime |-> 2, cure |-> 1, shock |-> 0]

(* What config/synthetic/*.generation.yaml say of themselves: an expansion  *)
(* only lowers the cutoff of the baseline, a tightening only raises it, and *)
(* a shock leaves every other parameter as the baseline has it.             *)
ConfigsAssumption ==
    \A c \in Configs :
        /\ c.crn \in BOOLEAN /\ c.cutoff \in Int /\ c.shock \in Nat
        /\ c.name = "policy_expansion" => c.cutoff <= Baseline.cutoff
        /\ c.name = "policy_tightening" => c.cutoff >= Baseline.cutoff
        /\ c.shock # 0 => /\ c.cutoff = Baseline.cutoff
                          /\ c.onTime = Baseline.onTime /\ c.cure = Baseline.cure

CommonRandomAssumption ==
    /\ Customers \in Nat \ {0} /\ Months \in Nat \ {0} /\ Term \in 1..Months /\ MaxSeeds \in Nat \ {0}
    /\ ConfigsAssumption

Draws == 0..2                           \* low, middle, high
Coins == {0, 2}                         \* of draws that are only compared with one rate

VARIABLES
    scenario,       \* the configuration compared with the baseline
    tape,           \* the draws of this seed, by stream, in the order they are made
    book,           \* book[w]: the tables of run w
    at,             \* [run, month, left]: contracts left this month; or where the suite stands
    report,         \* what the suite's manifest says of the scenario
    deltas          \* of the Monte Carlo, seed by seed

commonVars == <<scenario, tape, book, at, report, deltas>>
Runs == {"baseline", "scenario"}

Config(w) == IF w = "baseline" THEN Baseline ELSE scenario

NoBook == [population |-> {}, approved |-> {}, contracts |-> <<>>, paid |-> <<>>, rows |-> {},
           late |-> {}, read |-> 0]
NoTape == [applications |-> <<>>, decisions |-> <<>>, booking |-> <<>>, payments |-> <<>>]
Ready(run) == [phase |-> "originate", run |-> run]

CommonInit ==
    /\ scenario \in Configs
    /\ tape = NoTape
    /\ book = [w \in Runs |-> NoBook]
    /\ at = Ready("baseline")
    /\ report = [written |-> FALSE]
    /\ deltas = <<>>

------------------------------------------------------------------------------
(* RunRandomStreams: what the next n draws of a stream can be, after the    *)
(* first k.                                                                 *)
NextDraws(stream, k, n, outcomes) ==
    {s \in [1..n -> outcomes] : \A i \in 1..n : k + i <= Len(stream) => s[i] = stream[k + i]}
Extended(stream, k, s) == IF k + Len(s) > Len(stream) THEN SubSeq(stream, 1, k) \o s ELSE stream

(* The population has ids of its own configuration, or for a scenario that  *)
(* keeps common random numbers, of the baseline's.                          *)
OwnHash(w) == Config(w).name                \* a slip: every id is prefixed by the run's own hash
PopulationHash(w) == Baseline.name
Size(w) == IF Config(w).crn THEN Customers ELSE Customers - 1
Ids(w) == {<<PopulationHash(w), i>> : i \in 1..Size(w)}

(* The decisions: each application that was not cancelled draws its noise,  *)
(* whatever becomes of it, in the order of the applications.                *)
Nth(S, i) == Cardinality({j \in S : j <= i})
Decidable(w, cancel) == {i \in 1..Size(w) : cancel[i] # 0}
Approved(w, decidable, score) == {i \in decidable : score[Nth(decidable, i)] >= Config(w).cutoff}
(* An approved application is booked by a draw of its own, in order.        *)
Booked(approved, coin) == SetToSortSeq({i \in approved : coin[Nth(approved, i)] < 2}, <)

(* assert_crn_compatible(): a scenario whose population differs is refused. *)
(* The scenarios here are those that are compared (CRN_SCENARIOS); the one  *)
(* that is generated for coverage, with customers of its own, is not.       *)
Refuse ==
    /\ at.phase = "originate" /\ ~Config(at.run).crn
    /\ at' = [phase |-> "refused"]
    /\ UNCHANGED <<scenario, tape, book, report, deltas>>

(* generate_scenario(), up to the contracts.                                *)
Originate ==
    /\ at.phase = "originate" /\ Config(at.run).crn
    /\ \E cancel \in NextDraws(tape.applications, 0, Size(at.run), Coins) :
       LET decidable == Decidable(at.run, cancel) IN
       \E score \in NextDraws(tape.decisions, 0, Cardinality(decidable), Draws) :
       LET approved == Approved(at.run, decidable, score) IN
       \E coin \in NextDraws(tape.booking, 0, Cardinality(approved), Coins) :
       LET booked == Booked(approved, coin) IN
          /\ book' = [book EXCEPT ![at.run] =
                 [NoBook EXCEPT !.population = Ids(at.run),
                                !.approved = {<<PopulationHash(at.run), i>> : i \in approved},
                                !.contracts = booked, !.paid = [i \in Range(booked) |-> 0]]]
          /\ tape' = [tape EXCEPT !.applications = Extended(@, 0, cancel),
                                  !.decisions = Extended(@, 0, score),
                                  !.booking = Extended(@, 0, coin)]
          /\ at' = [phase |-> "pay", run |-> at.run, month |-> 1, left |-> booked]
    /\ UNCHANGED <<scenario, report, deltas>>

------------------------------------------------------------------------------
(* _effective_payment_behavior(): a shock takes the draws that would have   *)
(* been paid at the margin, from its month on.                              *)
Shocked(w, month) == Config(w).shock # 0 /\ month >= Config(w).shock
OnTime(w, month) == IF Shocked(w, month) THEN Config(w).onTime - 1 ELSE Config(w).onTime
Cure(w, month) == IF Shocked(w, month) THEN Config(w).cure - 1 ELSE Config(w).cure

(* One contract in one month: a draw decides what is paid; a payment draws  *)
(* once more, for its day and its channel (low, middle) and whether it is   *)
(* reversed within the month (high).                                        *)
Backlog(paid, month) == paid < month - 1
AfterPayment(w, paid, month, draw) ==
    IF Backlog(paid, month)
    THEN IF draw < Cure(w, month) THEN month ELSE paid
    ELSE IF draw < OnTime(w, month) THEN month ELSE paid

Entered(b, month, c, after, details) ==
    LET net == IF details = <<2>> THEN b.paid[c] ELSE after
    IN  [b EXCEPT !.paid = [@ EXCEPT ![c] = net],
                  !.rows = @ \cup {<<month, c, after - b.paid[c], d>> : d \in Range(details)},
                  !.late = @ \cup (IF net < month THEN {<<month, c>>} ELSE {}),
                  !.read = @ + 1 + Len(details)]

PayContract ==
    /\ at.phase = "pay" /\ at.left # <<>>
    /\ LET w == at.run
           c == Head(at.left)
           paid == book[w].paid[c]
           k == book[w].read
       IN  \E first \in NextDraws(tape.payments, k, 1, Draws) :
           LET after == AfterPayment(w, paid, at.month, first[1])
           IN  \E details \in NextDraws(tape.payments, k + 1, IF after > paid THEN 1 ELSE 0, Draws) :
                   /\ tape' = [tape EXCEPT !.payments = Extended(@, k, first \o details)]
                   /\ book' = [book EXCEPT ![w] = Entered(@, at.month, c, after, details)]
    /\ at' = [at EXCEPT !.left = Tail(@)]
    /\ UNCHANGED <<scenario, report, deltas>>

(* A contract that is settled draws no more.                                *)
Open(b) == SelectSeq(b.contracts, LAMBDA c : b.paid[c] < Term)

EndMonth ==
    /\ at.phase = "pay" /\ at.left = <<>>
    /\ at' = IF at.month < Months /\ at.month < Term
             THEN [at EXCEPT !.month = @ + 1, !.left = Open(book[at.run])]
             ELSE IF at.run = "baseline" THEN Ready("scenario") ELSE [phase |-> "compare"]
    /\ UNCHANGED <<scenario, tape, book, report, deltas>>

------------------------------------------------------------------------------
(* The suite's report: the hashes of the populations, and the directional   *)
(* checks of the scenario.                                                  *)
CrnPreserved == book["baseline"].population = book["scenario"].population
Before(w, month) == {row \in book[w].rows : row[1] < month}
DirectionalChecks ==
    CASE scenario.name = "policy_expansion" -> book["baseline"].approved \subseteq book["scenario"].approved
      [] scenario.name = "policy_tightening" -> book["scenario"].approved \subseteq book["baseline"].approved
      [] scenario.name = "macroeconomic_stress" /\ scenario.shock # 0 ->
             Before("baseline", scenario.shock) = Before("scenario", scenario.shock)
      [] OTHER -> TRUE

(* Of the metrics compared, only the number of approvals is followed; and   *)
(* from the snapshots before a shock, how many of them are late, over how   *)
(* many there are (every contract has one each month).                      *)
NApproved(w) == Cardinality(book[w].approved)
CompareMetrics == NApproved("scenario") - NApproved("baseline")
LateBefore(w, month) ==
    [late |-> Cardinality({l \in book[w].late : l[1] < month}), of |-> Len(book[w].contracts)]
PreShockEqualityRow ==
    LET b == LateBefore("baseline", scenario.shock)
        s == LateBefore("scenario", scenario.shock)
    IN  [identical |-> b.late * s.of = s.late * b.of \/ (b.of = 0 /\ s.late = 0) \/ (s.of = 0 /\ b.late = 0)]

WriteManifest ==
    /\ at.phase = "compare"
    /\ report' = [written |-> TRUE, crn |-> CrnPreserved, checks |-> DirectionalChecks]
    /\ deltas' = Append(deltas, [approvals |-> CompareMetrics, preShock |-> PreShockEqualityRow])
    /\ at' = [phase |-> "done"]
    /\ UNCHANGED <<scenario, tape, book>>

(* run_monte_carlo(): the suite once more, with the next seed.              *)
NextSeed ==
    /\ at.phase = "done" /\ Len(deltas) < MaxSeeds
    /\ tape' = NoTape
    /\ book' = [w \in Runs |-> NoBook]
    /\ report' = [written |-> FALSE]
    /\ at' = Ready("baseline")
    /\ UNCHANGED <<scenario, deltas>>

(* EXPECTED_DIRECTIONS, for the number of approvals.                        *)
ExpectedDirection ==
    CASE scenario.name = "policy_expansion" -> 1
      [] scenario.name = "policy_tightening" -> -1
      [] OTHER -> 0

(* MetricRobustness, over the seeds that were run: a seed that does not     *)
(* move counts against the expected direction like one that moves against   *)
(* it; and how many seeds were identical before the shock.                  *)
SeedsWhere(Test(_)) == Cardinality({s \in DOMAIN deltas : Test(deltas[s])})
ObservedDirection(delta) == IF delta > 0 THEN 1 ELSE IF delta < 0 THEN -1 ELSE 0
Robustness ==
    [observed |-> [s \in DOMAIN deltas |-> ObservedDirection(deltas[s].approvals)],
     inversions |-> IF ExpectedDirection = 0 THEN 0
                    ELSE SeedsWhere(LAMBDA d : ExpectedDirection * d.approvals <= 0),
     identical |-> SeedsWhere(LAMBDA d : d.preShock.identical),
     of |-> Len(deltas)]

SummarizeSeeds ==
    /\ at.phase = "done"
    /\ at' = [phase |-> "summarized", robustness |-> Robustness]
    /\ UNCHANGED <<scenario, tape, book, report, deltas>>

CommonNext ==
    Refuse \/ Originate \/ PayContract \/ EndMonth \/ WriteManifest \/ NextSeed \/ SummarizeSeeds

------------------------------------------------------------------------------
(* docs/common_random_numbers.md: every suite that is written has the same  *)
(* population in both runs and passes its directional checks; no seed of a  *)
(* sweep moves the approvals against the expected direction, and under a    *)
(* shock every seed is identical before it. Each run makes its own number   *)
(* of draws, month after month.                                             *)
ScenariosAreCounterfactual ==
    /\ report.written => report.crn /\ report.checks
    /\ at.phase = "summarized" =>
        /\ \A s \in DOMAIN deltas : at.robustness.observed[s] \in {0, ExpectedDirection} \/ ExpectedDirection = 0
        /\ scenario.shock # 0 => at.robustness.identical = at.robustness.of
==============================================================================
