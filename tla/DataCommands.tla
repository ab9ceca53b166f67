---------------------------- MODULE DataCommands -----------------------------
(***************************************************************************)
(* The commands that fetch, admit, divide and analyse data, side by side:  *)
(* raw sources, the batches in front of a model, the rows behind one, and  *)
(* what is made of a warehouse build.                                      *)
(***************************************************************************)
EXTENDS Focus, Integers, Sequences, FiniteSets

CONSTANTS
    (* Acquisition.tla *)
    RawSources, RawRegistries, RawKind, RawMaxRetries, RawLastDay, RawPeriodDays,
    RawWindowDays, RawMaxVersion,
    (* Intake.tla *)
    IntakeIds, IntakeStatuses, IntakeAmounts, IntakeMaxRows,
    (* Splits.tla *)
    SplitVersions, SplitPositive, SplitParts, SplitBatchRows, SplitNBatches,
    SplitMaxFetches,
    (* Analysis.tla *)
    AnalysisMaxBuilds, AnalysisMaxSweeps, AnalysisMaxRuns

VARIABLES
    registry, published, disk, rawManifest, audited, fetch, raw, profile,
    strict, scored, quarantine, intake, file, entry, pinned, splitTable,
    model, experiment, evaluation, monitored, modelCommand, fetches, build,
    sweep, out, analysis, verdict, demo, caches, page

------------------------------------------------------------------------------
Data == INSTANCE Acquisition WITH
    Sources <- RawSources, Registries <- RawRegistries, Kind <- RawKind,
    MaxRetries <- RawMaxRetries, LastDay <- RawLastDay, PeriodDays <- RawPeriodDays,
    WindowDays <- RawWindowDays, MaxVersion <- RawMaxVersion, manifest <- rawManifest,
    evidence <- audited, job <- fetch

Gate == INSTANCE Intake WITH
    Ids <- IntakeIds, Statuses <- IntakeStatuses, Amounts <- IntakeAmounts,
    MaxRows <- IntakeMaxRows

Split == INSTANCE Splits WITH
    Versions <- SplitVersions, Positive <- SplitPositive, Parts <- SplitParts,
    BatchRows <- SplitBatchRows, NBatches <- SplitNBatches,
    MaxFetches <- SplitMaxFetches

Analysed == INSTANCE Analysis WITH
    MaxBuilds <- AnalysisMaxBuilds, MaxSweeps <- AnalysisMaxSweeps,
    MaxRuns <- AnalysisMaxRuns, run <- analysis

ASSUME DataCommandsAssumption ==
    /\ Data!AcquisitionAssumption
    /\ Gate!IntakeAssumption
    /\ Split!SplitsAssumption
    /\ Analysed!AnalysisAssumption

------------------------------------------------------------------------------
dataVars == <<registry, published, disk, rawManifest, audited, fetch>>
DataOff ==
    /\ registry = Off /\ published = Off /\ disk = Off /\ rawManifest = Off
    /\ audited = Off /\ fetch = Off
DataInit == IF focus = "data" THEN Data!Init ELSE DataOff

intakeVars == <<raw, profile, strict, scored, quarantine, intake>>
IntakeOff ==
    /\ raw = Off /\ profile = Off /\ strict = Off /\ scored = Off
    /\ quarantine = Off /\ intake = Off
IntakeInit == IF focus = "intake" THEN Gate!IntakeInit ELSE IntakeOff

splitVars == <<file, entry, pinned, splitTable, model, experiment, evaluation,
               monitored, modelCommand, fetches>>
SplitOff ==
    /\ file = Off /\ entry = Off /\ pinned = Off /\ splitTable = Off
    /\ model = Off /\ experiment = Off /\ evaluation = Off /\ monitored = Off
    /\ modelCommand = Off /\ fetches = Off
SplitInit == IF focus = "split" THEN Split!SplitsInit ELSE SplitOff

analysisVars ==
    <<build, sweep, out, analysis, verdict, demo, caches, page>>
AnalysisOff ==
    /\ build = Off /\ sweep = Off /\ out = Off /\ analysis = Off
    /\ verdict = Off /\ demo = Off /\ caches = Off /\ page = Off
AnalysisInit == IF focus = "analysis" THEN Analysed!AnalysisInit ELSE AnalysisOff

(* The group as a whole.                                                    *)
dataCommandVars ==
    <<focus, dataVars, intakeVars, splitVars, analysisVars>>

DataCommandInit ==
    /\ DataInit
    /\ IntakeInit
    /\ SplitInit
    /\ AnalysisInit

(* The component in focus moves, the others stay.                          *)
DataCommandMoves(component) ==
    /\ focus = component /\ UNCHANGED focus
    /\ component # "data" => UNCHANGED dataVars
    /\ component # "intake" => UNCHANGED intakeVars
    /\ component # "split" => UNCHANGED splitVars
    /\ component # "analysis" => UNCHANGED analysisVars

DataCommandNext ==
    \/ DataCommandMoves("data") /\ Data!Next
    \/ DataCommandMoves("intake") /\ Gate!IntakeNext
    \/ DataCommandMoves("split") /\ Split!SplitsNext
    \/ DataCommandMoves("analysis") /\ Analysed!AnalysisNext

DataCommandSpec == FocusInit /\ DataCommandInit /\ [][DataCommandNext]_dataCommandVars

------------------------------------------------------------------------------
(* An archive that verifies and the member beside it come from one and the *)
(* same download; counts marked audited were taken from the very content   *)
(* the entry's hash records; and a stored series has every period of the   *)
(* range, in order, a period twice only if its value changed between two   *)
(* windows: whatever is published, deleted, refused or killed in between.  *)
RawDataIsWhatIsRecorded ==
    focus = "data" =>
        /\ Data!VerifiedSourceIsOneDownload
        /\ Data!AuditedContentVerified
        /\ Data!SeriesComplete

(* Every fetch and audit ends: attempts, windows and targets are bounded,  *)
(* however the servers answer.                                             *)
CommandEnds == []<>(focus = "data" => Data!Idle)

(* No row a model is judged or monitored on was learned from, however      *)
(* training is killed or repeated and the dataset replaced; and a batch    *)
(* that is let in is divided into rows fit to be scored, each once, and    *)
(* rows in quarantine, which the self-test of the gate would notice.       *)
ModelDataIsSound ==
    /\ focus = "split" => Split!TestRowsUnseen
    /\ focus = "intake" => Gate!BatchIsPartitioned /\ Gate!SelfTestAccepts

(* Insights cite the build they were computed from, a reproduction that    *)
(* matches has read the data of the original, and a page over a package    *)
(* shows that package: also over killed analyses and servers that cache.   *)
AnalysisIsTraceable ==
    focus = "analysis" =>
        /\ Analysed!InsightsCiteTheirBuild
        /\ Analysed!MatchReproduces
        /\ Analysed!PackagePageIsCurrent
==============================================================================
