--------------------------- MODULE ReleaseCommands ---------------------------
(***************************************************************************)
(* The commands that lead from a registered model to a release, side by    *)
(* side: its remediation, its monitoring, the evidence and the assets of   *)
(* the release, and the cleanup of the repository.                         *)
(***************************************************************************)
EXTENDS Focus, Integers, Sequences, FiniteSets

CONSTANTS
    (* Remediation.tla *)
    RemediationMaxFits, RemediationMaxCommands, RemediationMaxRecords,
    RemediationScores, RemediationTolerance, RemediationAudits,
    RemediationMaxFlipRate, RemediationInfinite, RemediationActionThreshold,
    (* Monitoring.tla *)
    MonitoringMaxBuilds, MonitoringMaxEdits, MonitoringMaxRuns,
    (* Release.tla *)
    ReleaseMaxEdits, ReleasePasses,
    (* Cleanup.tla *)
    CleanupEphemeral, CleanupSources, CleanupOrder, CleanupBatchSize,
    CleanupMaxCommits

VARIABLES
    v1, v1Tables, pipeline, record, comparison, artifact, modelManifest,
    lifecycle, remediation, source, references, reference, batchSet, runs,
    monitoringReport, monitoringEvidence, monitor, versions, committed, tree, stray,
    coverageJson, releaseEvidence, assets, licensed, scanned,
    releaseManifest, listed, step, head, index, plan, commits, task

------------------------------------------------------------------------------
Remedied == INSTANCE Remediation WITH
    MaxFits <- RemediationMaxFits, MaxCommands <- RemediationMaxCommands,
    MaxRecords <- RemediationMaxRecords, Scores <- RemediationScores,
    Tolerance <- RemediationTolerance, Audits <- RemediationAudits,
    MaxFlipRate <- RemediationMaxFlipRate, Infinite <- RemediationInfinite,
    ActionThreshold <- RemediationActionThreshold, tables <- v1Tables,
    manifest <- modelManifest, history <- lifecycle, command <- remediation

Monitored == INSTANCE Monitoring WITH
    MaxBuilds <- MonitoringMaxBuilds, MaxEdits <- MonitoringMaxEdits,
    MaxRuns <- MonitoringMaxRuns, builds <- references, report <- monitoringReport,
    evidence <- monitoringEvidence, job <- monitor

Released == INSTANCE Release WITH
    MaxEdits <- ReleaseMaxEdits, Passes <- ReleasePasses, evidence <- releaseEvidence,
    audited <- scanned, manifest <- releaseManifest

Cleaned == INSTANCE Cleanup WITH
    Ephemeral <- CleanupEphemeral, Sources <- CleanupSources, Order <- CleanupOrder,
    BatchSize <- CleanupBatchSize, MaxCommits <- CleanupMaxCommits

ASSUME ReleaseCommandsAssumption ==
    /\ Remedied!RemediationAssumption
    /\ Monitored!MonitoringAssumption
    /\ Released!ReleaseAssumption
    /\ Cleaned!CleanupAssumption

------------------------------------------------------------------------------
remediationVars == <<v1, v1Tables, pipeline, record, comparison,
                        artifact, modelManifest, lifecycle, remediation>>
RemediationOff ==
    /\ v1 = Off /\ v1Tables = Off /\ pipeline = Off /\ record = Off
    /\ comparison = Off /\ artifact = Off /\ modelManifest = Off /\ lifecycle = Off
    /\ remediation = Off
RemediationInit == IF focus = "remediation" THEN Remedied!RemediationInit ELSE RemediationOff

monitoringVars == <<source, versions, references, reference, batchSet, runs,
                       monitoringReport, monitoringEvidence, committed, monitor>>
MonitoringOff ==
    /\ source = Off /\ references = Off /\ reference = Off /\ batchSet = Off
    /\ runs = Off /\ monitoringReport = Off /\ monitoringEvidence = Off /\ monitor = Off
    /\ versions = Off /\ committed = Off
MonitoringInit == IF focus = "monitoring" THEN Monitored!MonitoringInit ELSE MonitoringOff

releaseVars == <<tree, stray, coverageJson, releaseEvidence, assets,
                    licensed, scanned, releaseManifest, listed, step>>
ReleaseOff ==
    /\ tree = Off /\ stray = Off /\ coverageJson = Off /\ releaseEvidence = Off
    /\ assets = Off /\ licensed = Off /\ scanned = Off /\ releaseManifest = Off
    /\ listed = Off /\ step = Off
ReleaseInit == IF focus = "release" THEN Released!ReleaseInit ELSE ReleaseOff

cleanupVars == <<head, index, plan, commits, task>>
CleanupOff ==
    /\ head = Off /\ index = Off /\ plan = Off /\ commits = Off
    /\ task = Off
CleanupInit == IF focus = "cleanup" THEN Cleaned!CleanupInit ELSE CleanupOff

(* The group as a whole.                                                    *)
releaseCommandVars ==
    <<focus, remediationVars, monitoringVars, releaseVars, cleanupVars>>

ReleaseCommandInit ==
    /\ RemediationInit
    /\ MonitoringInit
    /\ ReleaseInit
    /\ CleanupInit

(* The component in focus moves, the others stay.                          *)
ReleaseCommandMoves(component) ==
    /\ focus = component /\ UNCHANGED focus
    /\ component # "remediation" => UNCHANGED remediationVars
    /\ component # "monitoring" => UNCHANGED monitoringVars
    /\ component # "release" => UNCHANGED releaseVars
    /\ component # "cleanup" => UNCHANGED cleanupVars

ReleaseCommandNext ==
    \/ ReleaseCommandMoves("remediation") /\ Remedied!RemediationNext
    \/ ReleaseCommandMoves("monitoring") /\ Monitored!MonitoringNext
    \/ ReleaseCommandMoves("release") /\ Released!ReleaseNext
    \/ ReleaseCommandMoves("cleanup") /\ Cleaned!CleanupNext

ReleaseCommandSpec == FocusInit /\ ReleaseCommandInit /\ [][ReleaseCommandNext]_releaseCommandVars

------------------------------------------------------------------------------
(* A model that loads as a remediation candidate was audited itself, with  *)
(* no finite variance inflation at the limit and sign flips below it on    *)
(* average, and is neither worse nor suspiciously better than the fit it   *)
(* was compared with.                                                      *)
RegisteredWasAudited == focus = "remediation" => Remedied!RegisteredWasAudited

(* A lifecycle history only grows, each transition from the state the one  *)
(* before led to, and nothing is written over a torn one.                  *)
LifecycleAppendOnly == Remedied!LifecycleAppendOnly

(* A monitoring gate that passes tells of the code, reference, thresholds  *)
(* and batch manifest there are now; the population and the batches are    *)
(* those evaluated, absent, or no older than the code.                     *)
PassedGateIsCurrent == focus = "monitoring" => Monitored!PassedGateIsCurrent

(* The release checklist, followed once on a tree that deserves it, ends   *)
(* with a ready manifest of this tree and a release that validates.        *)
ChecklistConverges == focus = "release" => Released!ChecklistConverges

(* A cleanup that reports success leaves an index without the reviewed     *)
(* byproducts, and otherwise as it was.                                    *)
CleanupIsThePlan == focus = "cleanup" => Cleaned!CleanupIsThePlan
==============================================================================
