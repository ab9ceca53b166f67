------------------------------- MODULE Studies -------------------------------
(***************************************************************************)
(* The generator and the studies, side by side: each computes from draws   *)
(* what is a choice here, and what matters is the result.                  *)
(***************************************************************************)
EXTENDS Focus, Integers, Sequences, FiniteSets

CONSTANTS
    (* Origination.tla *)
    OriginCustomers, OriginMaxApplications, OriginPeriodEnd, OriginArrivals,
    OriginOffsets, OriginLoans, OriginDelays, OriginMaxTerm, OriginRateNum,
    OriginRateDen, OriginMonthDays,
    (* CommonRandom.tla *)
    SuiteCustomers, SuiteMonths, SuiteTerm, SuiteMaxSeeds, SuiteConfigs,
    (* FeatureAudit.tla *)
    FeatureColumns, FeatureTier, FeatureRedundancies, FeatureExact,
    FeatureActionThreshold, FeatureMinFeatures, FeatureUnstablePercent, FeatureTopK,
    FeatureContributions,
    (* NegativeControls.tla *)
    ControlScores, ControlNPermutations, ControlAlphaPercent, ControlSigma,
    ControlRatio, ControlRefitAucs,
    (* CalibrationStudy.tla *)
    CalibrationFeatures, CalibrationMaxLevel, CalibrationNResamples,
    CalibrationNBatches, CalibrationSizes, CalibrationMinSample,
    CalibrationReviewPercent, CalibrationMaterialPercent,
    (* Incidents.tla *)
    StreamBatches, StreamWindow, Streams, StreamPlanted

VARIABLES
    generation, tables, defect, findings, scenario, tape, book, suiteAt,
    suiteReport, deltas, groups, remaining, removed, reduction, output,
    scores, labels, control, shuffles, aucs, controlReport, marginal,
    familyWise, study, batch, counts, watched, calibrated, observed, alerts,
    incidentReport

------------------------------------------------------------------------------
Originated == INSTANCE Origination WITH
    Customers <- OriginCustomers, MaxApplications <- OriginMaxApplications,
    PeriodEnd <- OriginPeriodEnd, Arrivals <- OriginArrivals,
    Offsets <- OriginOffsets, Loans <- OriginLoans, Delays <- OriginDelays,
    MaxTerm <- OriginMaxTerm, RateNum <- OriginRateNum, RateDen <- OriginRateDen,
    MonthDays <- OriginMonthDays, stage <- generation, incident <- defect

Compared == INSTANCE CommonRandom WITH
    Customers <- SuiteCustomers, Months <- SuiteMonths, Term <- SuiteTerm,
    MaxSeeds <- SuiteMaxSeeds, Configs <- SuiteConfigs, at <- suiteAt,
    report <- suiteReport

Reduced == INSTANCE FeatureAudit WITH
    FeatureColumns <- FeatureColumns, Tier <- FeatureTier,
    Redundancies <- FeatureRedundancies, Exact <- FeatureExact,
    ActionThreshold <- FeatureActionThreshold, MinFeatures <- FeatureMinFeatures,
    UnstablePercent <- FeatureUnstablePercent, TopK <- FeatureTopK,
    Contributions <- FeatureContributions, stage <- reduction

Controls == INSTANCE NegativeControls WITH
    Scores <- ControlScores, NPermutations <- ControlNPermutations,
    AlphaPercent <- ControlAlphaPercent, Sigma <- ControlSigma, Ratio <- ControlRatio,
    RefitAucs <- ControlRefitAucs, report <- controlReport

Calibrated == INSTANCE CalibrationStudy WITH
    Features <- CalibrationFeatures, MaxLevel <- CalibrationMaxLevel,
    NResamples <- CalibrationNResamples, NBatches <- CalibrationNBatches,
    Sizes <- CalibrationSizes, MinSample <- CalibrationMinSample,
    ReviewPercent <- CalibrationReviewPercent,
    MaterialPercent <- CalibrationMaterialPercent

Stream == INSTANCE Incidents WITH
    Batches <- StreamBatches, Window <- StreamWindow, Streams <- Streams,
    Planted <- StreamPlanted, history <- observed, report <- incidentReport

ASSUME StudiesAssumption ==
    /\ Originated!OriginationAssumption
    /\ Compared!CommonRandomAssumption
    /\ Reduced!FeatureAuditAssumption
    /\ Controls!NegativeControlsAssumption
    /\ Calibrated!CalibrationAssumption
    /\ Stream!IncidentsAssumption

------------------------------------------------------------------------------
originationVars == <<generation, tables, defect, findings>>
OriginationOff ==
    /\ generation = Off /\ tables = Off /\ defect = Off /\ findings = Off
OriginationInit == IF focus = "origination" THEN Originated!OriginationInit ELSE OriginationOff

suiteVars == <<scenario, tape, book, suiteAt, suiteReport, deltas>>
SuiteOff ==
    /\ scenario = Off /\ tape = Off /\ book = Off /\ suiteAt = Off
    /\ suiteReport = Off /\ deltas = Off
SuiteInit == IF focus = "suite" THEN Compared!CommonInit ELSE SuiteOff

featuresVars == <<groups, remaining, removed, reduction, output>>
FeaturesOff ==
    /\ groups = Off /\ remaining = Off /\ removed = Off /\ reduction = Off
    /\ output = Off
FeaturesInit == IF focus = "features" THEN Reduced!FeatureInit ELSE FeaturesOff

controlsVars == <<scores, labels, control, shuffles, aucs, controlReport>>
ControlsOff ==
    /\ scores = Off /\ labels = Off /\ control = Off /\ shuffles = Off
    /\ aucs = Off /\ controlReport = Off
ControlsInit == IF focus = "controls" THEN Controls!ControlInit ELSE ControlsOff

calibrationVars == <<marginal, familyWise, study, batch, counts>>
CalibrationOff ==
    /\ marginal = Off /\ familyWise = Off /\ study = Off /\ batch = Off
    /\ counts = Off
CalibrationInit == IF focus = "calibration" THEN Calibrated!CalibrationInit ELSE CalibrationOff

streamVars == <<watched, calibrated, observed, alerts, incidentReport>>
StreamOff ==
    /\ watched = Off /\ calibrated = Off /\ observed = Off /\ alerts = Off
    /\ incidentReport = Off
StreamInit == IF focus = "stream" THEN Stream!Init ELSE StreamOff

(* The group as a whole.                                                    *)
studiesVars ==
    <<focus, originationVars, suiteVars, featuresVars, controlsVars,
    calibrationVars, streamVars>>

StudiesInit ==
    /\ OriginationInit
    /\ SuiteInit
    /\ FeaturesInit
    /\ ControlsInit
    /\ CalibrationInit
    /\ StreamInit

(* The component in focus moves, the others stay.                          *)
StudiesMoves(component) ==
    /\ focus = component /\ UNCHANGED focus
    /\ component # "origination" => UNCHANGED originationVars
    /\ component # "suite" => UNCHANGED suiteVars
    /\ component # "features" => UNCHANGED featuresVars
    /\ component # "controls" => UNCHANGED controlsVars
    /\ component # "calibration" => UNCHANGED calibrationVars
    /\ component # "stream" => UNCHANGED streamVars

StudiesNext ==
    \/ StudiesMoves("origination") /\ Originated!OriginationNext
    \/ StudiesMoves("suite") /\ Compared!CommonNext
    \/ StudiesMoves("features") /\ Reduced!FeatureNext
    \/ StudiesMoves("controls") /\ Controls!ControlNext
    \/ StudiesMoves("calibration") /\ Calibrated!CalibrationNext
    \/ StudiesMoves("stream") /\ Stream!Next

StudiesSpec == FocusInit /\ StudiesInit /\ [][StudiesNext]_studiesVars

------------------------------------------------------------------------------
(* What the generator writes passes every contract rule, whatever is       *)
(* drawn; and every controlled defect breaks the rule it claims to test.   *)
GeneratedRunsAreJudgedRight ==
    focus = "origination" =>
        /\ Originated!GeneratedRunPasses
        /\ Originated!EveryDefectIsFound

(* The principal of a schedule adds up to the financed amount, its last    *)
(* installment differs by no more than the rounding of the others, and its *)
(* due dates fall in consecutive months.                                   *)
SchedulesAreSound == focus = "origination" => Originated!SchedulesAreSound

(* A suite that is written has one population and passes its directional   *)
(* checks; no seed of a sweep moves against the expected direction, and    *)
(* before a shock every seed is identical.                                 *)
ScenariosAreCounterfactual ==
    focus = "suite" =>
        Compared!ScenariosAreCounterfactual

(* A feature eliminated as an exact combination of others can be computed  *)
(* from what is kept and what was removed for a finite inflation.          *)
NothingLostByReduction == focus = "features" => Reduced!NothingLostByReduction

(* The rank-sum ROC-AUC of the model and of every shuffle counts the pairs *)
(* that the scores order, and half of the tied ones; and if the labels     *)
(* mean nothing, a negative control passes with probability alpha at most. *)
ControlsAreExact ==
    focus = "controls" =>
        /\ Controls!RankSumIsConcordance
        /\ Controls!PassIsRare

(* Of a batch without drift and the resamples behind the family-wise       *)
(* threshold, only so many could have raised any of the checks as the      *)
(* percentile leaves above it.                                             *)
FamilyWiseRateIsBounded ==
    focus = "calibration" =>
        Calibrated!FamilyWiseRateIsBounded

(* The incidents of a report are the blocked batches and the maximal runs  *)
(* of at least a window of significant batches of one category, and no     *)
(* deviation is graded high on the evidence of one batch alone.            *)
IncidentsAreSound ==
    focus = "stream" =>
        /\ Stream!IncidentsAreMaximalRuns
        /\ Stream!NoIsolatedHigh
==============================================================================
