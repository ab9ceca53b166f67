------------------------------- MODULE Splits -------------------------------
(***************************************************************************)
(* The rows behind a model: the dataset and the contract that pins it, the *)
(* split table of an experiment, and which rows each command reads to fit, *)
(* to choose and to judge.                                                 *)
(*                                                                         *)
(* A row is its identifier.  What is learned from rows is the set of them: *)
(* fitted are the rows parameters were estimated on, chosen the ones a     *)
(* calibration or a threshold was selected on.                             *)
(***************************************************************************)
EXTENDS Integers, FiniteSets

CONSTANTS
    Versions,          \* version of the dataset -> its identifiers
    Positive,          \* the identifiers whose target is positive
    Parts,             \* split.*_fraction, as integer shares
    BatchRows, NBatches,  \* batch_size and the number of monitoring batches
    MaxFetches         \* bound of the exploration

SplitsAssumption ==
    /\ IsFiniteSet(DOMAIN Versions)
    /\ \A v \in DOMAIN Versions : IsFiniteSet(Versions[v]) /\ Versions[v] \subseteq Nat
    /\ DOMAIN Parts = {"train", "validation", "test"}
    /\ \A p \in DOMAIN Parts : Parts[p] \in Nat \ {0}
    /\ {BatchRows, NBatches, MaxFetches} \subseteq Nat

VARIABLES
    file, entry,       \* the version on disk and the one of the file manifest
    pinned,            \* the version whose hash the target contract records
    splitTable,        \* split_assignment.csv: none (Absent), or <<identifier -> name>>
    model,             \* what is dumped: NoModel, or [fitted, chosen]
    experiment,        \* is there an experiment record
    evaluation,        \* the last evaluation: NoEvaluation, or what it read
    monitored,         \* rows of the performance reference and of the batches
    modelCommand,      \* the command that is under way
    fetches

splitVars == <<file, entry, pinned, splitTable, model, experiment, evaluation,
               monitored, modelCommand, fetches>>

Absent == <<>>
NoModel == [fitted |-> {}, chosen |-> {}]
NoEvaluation == [test |-> {}, validation |-> {}]
NoneMonitored == [performance |-> {}, batches |-> <<>>]
NoCommand == [name |-> "none", step |-> "none", split |-> Absent, model |-> NoModel]

Named(split, part) == {i \in DOMAIN split : split[i] = part}

------------------------------------------------------------------------------
(* The two stratified cuts: the test rows first, the validation rows from  *)
(* what is left.  A cut of n rows takes from each class its share, rounded *)
(* up or down, and train_test_split refuses one with a side smaller than   *)
(* the number of classes.                                                  *)
CeilShare(n, part, whole) == (n * part + whole - 1) \div whole

StratifiedCuts(rows, n) ==
    LET Class(positive) == {i \in rows : (i \in Positive) = positive}
        Floor(positive) == (n * Cardinality(Class(positive))) \div Cardinality(rows)
        Classes == {c \in BOOLEAN : Class(c) # {}}
    IN  {cut \in SUBSET rows :
            /\ Cardinality(cut) = n
            /\ n >= Cardinality(Classes)
            /\ Cardinality(rows) - n >= Cardinality(Classes)
            /\ \A c \in Classes :
                  Cardinality(cut \cap Class(c)) \in Floor(c) .. Floor(c) + 1}

CreateSplit(rows) ==
    LET all == Parts["train"] + Parts["validation"] + Parts["test"]
        NTest == CeilShare(Cardinality(rows), Parts["test"], all)
        Test == StratifiedCuts(rows, NTest)
        NValidation ==
            CeilShare(Cardinality(rows) - NTest, Parts["validation"],
                      Parts["train"] + Parts["validation"])
    IN  UNION {{[i \in rows |-> IF i \in test THEN "test"
                                ELSE IF i \in validation THEN "validation"
                                ELSE "train"]
                   : validation \in StratifiedCuts(rows \ test, NValidation)}
                  : test \in Test}

(* The rows of the dataset, named by the table; refused (SplitError) when  *)
(* a row has no name.  Names of rows that are gone are not used.           *)
Applicable(rows) == splitTable # Absent /\ rows \subseteq DOMAIN splitTable[1]
ApplyTable(rows) == [i \in rows |-> splitTable[1][i]]

(* An experiment that has a split keeps it; only one without gets a new.   *)
TrainSplitsAnew(rows) == CreateSplit(rows)
TrainSplits(rows) ==
    IF splitTable = Absent THEN CreateSplit(rows)
    ELSE IF Applicable(rows) THEN {ApplyTable(rows)} ELSE {}

(* What a kill leaves of a table under way: its first rows in the order of *)
(* identifiers, the last of them perhaps with half a name.                 *)
TornTables(split) ==
    LET Before(n) == [i \in {j \in DOMAIN split : j < n} |-> split[i]]
        Upto(n) == [i \in {j \in DOMAIN split : j <= n} |->
                       IF i = n THEN "cut" ELSE split[i]]
    IN  {Before(n) : n \in DOMAIN split} \cup {Upto(n) : n \in DOMAIN split}

------------------------------------------------------------------------------
(* What each step of training and evaluating learns from which rows.       *)
FitModel(rows) == [fitted |-> rows, chosen |-> {}]

(* The grid is searched in folds of the training rows and the best         *)
(* candidate refitted on all of them.                                      *)
TuneCandidate(rows) == [FitModel(rows) EXCEPT !.chosen = rows]

(* The calibrators are fitted on training rows in folds; which of them is  *)
(* kept, if any, is decided on validation rows.                            *)
CompareCalibration(candidate, train, validation) ==
    [candidate EXCEPT !.fitted = @ \cup train, !.chosen = @ \cup validation]

Trained(split) ==
    CompareCalibration(TuneCandidate(Named(split, "train")),
                       Named(split, "train"), Named(split, "validation"))

(* Operating points are set on validation rows and judged on test rows.    *)
OperatingPointsOnTest(split) ==
    [defined |-> Named(split, "test"), judged |-> Named(split, "test")]
OperatingPoints(split) ==
    [defined |-> Named(split, "validation"), judged |-> Named(split, "test")]

------------------------------------------------------------------------------
SplitsInit ==
    /\ file = 1 /\ entry = 1 /\ pinned = 1
    /\ splitTable = Absent /\ model = NoModel /\ experiment = FALSE
    /\ evaluation = NoEvaluation /\ monitored = NoneMonitored
    /\ modelCommand = NoCommand /\ fetches = 0

Idle == modelCommand.name = "none"

(* load_uci_default_credit() verifies the file against its manifest entry. *)
Loadable == file = entry
Rows == Versions[file]

(* credlens data fetch replaces the file and then its entry; it may be     *)
(* killed in between.  The contract is edited by hand.                     *)
FetchFile ==
    /\ Idle /\ fetches < MaxFetches
    /\ file' \in DOMAIN Versions \ {file}
    /\ fetches' = fetches + 1
    /\ UNCHANGED <<entry, pinned, splitTable, model, experiment, evaluation,
                   monitored, modelCommand>>
FetchEntry ==
    /\ Idle /\ file # entry
    /\ entry' = file
    /\ UNCHANGED <<file, pinned, splitTable, model, experiment, evaluation,
                   monitored, modelCommand, fetches>>
PinContract ==
    /\ Idle /\ pinned # entry
    /\ pinned' = entry
    /\ UNCHANGED <<file, entry, splitTable, model, experiment, evaluation,
                   monitored, modelCommand, fetches>>

keepModel == UNCHANGED <<file, entry, pinned, model, experiment, evaluation,
                         monitored, fetches>>

(* credlens model create-split: refused when the experiment has a split.   *)
BeginCreateSplit ==
    /\ Idle /\ Loadable /\ splitTable = Absent
    /\ \E split \in CreateSplit(Rows) :
          modelCommand' = [NoCommand EXCEPT !.name = "create-split",
                                            !.step = "write", !.split = split]
    /\ UNCHANGED splitTable /\ keepModel

(* credlens model train: only of the dataset the contract pins.            *)
BeginTrain ==
    /\ Idle /\ Loadable /\ entry = pinned
    /\ \E split \in TrainSplits(Rows) :
          modelCommand' = [NoCommand EXCEPT
                              !.name = "train", !.split = split,
                              !.step = IF splitTable = Absent THEN "write" ELSE "fit"]
    /\ UNCHANGED splitTable /\ keepModel

WriteSplitTable ==
    /\ modelCommand.step = "write"
    /\ splitTable' = <<modelCommand.split>>
    /\ modelCommand' =
          IF modelCommand.name = "train" THEN [modelCommand EXCEPT !.step = "fit"]
          ELSE NoCommand
    /\ keepModel

Fit ==
    /\ modelCommand.step = "fit"
    /\ modelCommand' = [modelCommand EXCEPT !.step = "dump",
                                            !.model = Trained(modelCommand.split)]
    /\ UNCHANGED splitTable /\ keepModel

DumpModel ==
    /\ modelCommand.step = "dump"
    /\ model' = modelCommand.model
    /\ modelCommand' = [modelCommand EXCEPT !.step = "record"]
    /\ UNCHANGED <<file, entry, pinned, splitTable, experiment, evaluation,
                   monitored, fetches>>

RecordExperiment ==
    /\ modelCommand.step = "record"
    /\ experiment' = TRUE
    /\ modelCommand' = NoCommand
    /\ UNCHANGED <<file, entry, pinned, splitTable, model, evaluation,
                   monitored, fetches>>

KillModelCommand ==
    /\ ~Idle
    /\ modelCommand' = NoCommand
    /\ IF modelCommand.step = "write"
       THEN splitTable' \in {splitTable} \cup {<<torn>> : torn \in TornTables(modelCommand.split)}
       ELSE UNCHANGED splitTable
    /\ keepModel

(* The commands that read the model and the rows the table names.  What an *)
(* evaluation that is killed leaves is in module Governance.               *)
Usable == Idle /\ Loadable /\ Applicable(Rows) /\ experiment /\ model # NoModel

Evaluate ==
    /\ Usable
    /\ LET points == OperatingPoints(ApplyTable(Rows))
       IN  evaluation' = [test |-> points.judged, validation |-> points.defined]
    /\ UNCHANGED <<file, entry, pinned, splitTable, model, experiment, monitored,
                   modelCommand, fetches>>

(* credlens monitor create-reference: the population has the training and  *)
(* the validation rows, what performance is compared with only the latter. *)
PerformanceReference ==
    /\ Usable
    /\ monitored' = [monitored EXCEPT
                        !.performance = Named(ApplyTable(Rows), "validation")]
    /\ UNCHANGED <<file, entry, pinned, splitTable, model, experiment, evaluation,
                   modelCommand, fetches>>

(* credlens monitor simulate-batches: slices of the test rows in the order *)
(* of identifiers, refused when there are not enough rows.                 *)
TestRows == Named(ApplyTable(Rows), "test")
SortedPosition(i) == Cardinality({j \in TestRows : j <= i})
SliceOfPartition(p) ==
    {i \in TestRows : SortedPosition(i) \in (p - 1) * BatchRows + 1 .. p * BatchRows}
BuildBatches ==
    /\ Usable
    /\ BatchRows * NBatches <= Cardinality(TestRows)
    /\ monitored' = [monitored EXCEPT
                        !.batches = [p \in 1 .. NBatches |-> SliceOfPartition(p)]]
    /\ UNCHANGED <<file, entry, pinned, splitTable, model, experiment, evaluation,
                   modelCommand, fetches>>

SplitsNext ==
    \/ FetchFile \/ FetchEntry \/ PinContract
    \/ BeginCreateSplit \/ BeginTrain \/ WriteSplitTable \/ Fit \/ DumpModel
    \/ RecordExperiment \/ KillModelCommand
    \/ Evaluate \/ PerformanceReference \/ BuildBatches

------------------------------------------------------------------------------
(* The rows a model is judged on were neither fitted nor chosen on, those  *)
(* that set thresholds and the performance reference were not fitted on,   *)
(* and monitoring batches overlap neither the training nor one another:    *)
(* also when training was killed, repeated, or the dataset was replaced.   *)
TestRowsUnseen ==
    LET learned == model.fitted \cup model.chosen
    IN  /\ evaluation.test \cap (learned \cup evaluation.validation) = {}
        /\ (evaluation.validation \cup monitored.performance) \cap model.fitted = {}
        /\ \A p \in DOMAIN monitored.batches :
              /\ monitored.batches[p] \cap learned = {}
              /\ \A q \in 1 .. p - 1 :
                    monitored.batches[p] \cap monitored.batches[q] = {}
==============================================================================
