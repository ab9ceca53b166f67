----------------------------- MODULE Monitoring -----------------------------
(***************************************************************************)
(* credlens monitor: the files of the simulated monitoring of a registered *)
(* model.  A reference is three files (json, population, thresholds), a    *)
(* batch set is its batches and a manifest, a run is its record and its    *)
(* alerts; two evaluations leave evidence stamped with a fingerprint of    *)
(* the files git tracks (release/source_snapshot.py), which are all of     *)
(* these but the population, the batches and the runs.  What is computed   *)
(* in one run is module Incidents; here are the files, written one after   *)
(* the other, by commands that may be killed in between, and what becomes  *)
(* of them when the tracked ones are committed, restored or cloned.        *)
(***************************************************************************)
EXTENDS Integers

CONSTANTS
    MaxBuilds,      \* bound: references ever built
    MaxEdits,       \* bound: versions of the tracked sources
    MaxRuns         \* bound: runs ever recorded

MonitoringAssumption == {MaxBuilds, MaxEdits, MaxRuns} \subseteq Nat

VARIABLES
    source,         \* version of the tracked code, configuration and models
    versions,       \* number of versions there have been
    builds,         \* number of references built so far: no two json are equal
    reference,      \* json: its build; the rest: the version each part was computed by
    batchSet,       \* the version that made the batches, and their manifest
    runs,           \* runs ever recorded, the last one on disk, and has it its alerts?
    report,         \* run the committed reports tell about
    evidence,       \* detection and false-alert evidence
    committed,      \* the tracked files as they were committed last
    job             \* the running command

monitoringVars ==
    <<source, versions, builds, reference, batchSet, runs, report, evidence, committed, job>>
repository == <<source, versions, committed>>

Absent == 0         \* no build, version or run has this number
NoEvidence ==       \* none, none of a known tree, or one that misses the floors of the gate
    [stamp |-> <<>>, on |-> <<>>, good |-> FALSE]
Idle == [pc |-> "idle"]
NoThresholds == [marginal |-> Absent, family |-> Absent]

(* What a command reads before it computes: everything a result depends on. *)
Read == [source |-> source, reference |-> reference, batchSet |-> batchSet]
Readable == reference.json # Absent /\ reference.population # Absent
Calibrated == reference.thresholds.marginal # Absent

(* Tracked by git and not excluded: neither the population, nor the         *)
(* batches, nor the evidence.                                               *)
FingerprintSource ==            \* a slip: the thresholds are taken for an output too
    <<source, reference.json, batchSet.manifest, report>>
Fingerprint ==
    <<source, reference.json, reference.thresholds, batchSet.manifest, report>>

Tracked ==
    [source |-> source, json |-> reference.json, thresholds |-> reference.thresholds,
     manifest |-> batchSet.manifest, report |-> report, evidence |-> evidence]

(* A fresh clone of a repository whose committed evidence may be of this    *)
(* very tree, on the population and batches its author had.                 *)
AuthorsTree == [Read EXCEPT !.reference.population = 1, !.batchSet.batches = 1]
AuthorsEvidence == [stamp |-> Fingerprint, on |-> AuthorsTree, good |-> TRUE]

MonitoringInit ==
    /\ source = 1 /\ versions = 1 /\ builds = 1
    /\ \E family \in {Absent, 1} :
          reference = [json |-> 1, population |-> Absent,
                       thresholds |-> [marginal |-> 1, family |-> family]]
    /\ batchSet = [batches |-> Absent, manifest |-> 1]
    /\ runs = [count |-> 0, last |-> Absent, alerts |-> FALSE]
    /\ report = Absent
    /\ evidence \in [{"detection", "false_alerts"} -> {NoEvidence, AuthorsEvidence}]
    /\ evidence["detection"].good => reference.thresholds.family # Absent
    /\ committed = Tracked
    /\ job = Idle

Begin(pc, purpose) ==
    /\ job = Idle
    /\ job' = [pc |-> pc, purpose |-> purpose, on |-> Read]
Continue(from, to) ==
    /\ job.pc = from
    /\ job' = [job EXCEPT !.pc = to]
End(from) == job.pc = from /\ job' = Idle
Preparing == job # Idle /\ job.purpose = "prepare"
(* The end of a command, where demo prepare goes on with the next one. *)
EndOrPrepare(from, to) == IF Preparing THEN Continue(from, to) ELSE End(from)

------------------------------------------------------------------------------
(* create-reference: built first, refused late if the json is there. *)
BuildReference ==
    /\ builds < MaxBuilds
    /\ Begin("built", "command")
    /\ UNCHANGED <<repository, builds, reference, batchSet, runs, report, evidence>>

RefuseReference ==
    /\ End("built") /\ reference.json # Absent
    /\ UNCHANGED <<repository, builds, reference, batchSet, runs, report, evidence>>

WriteJson ==
    /\ Continue("built", "population") /\ reference.json = Absent
    /\ builds' = builds + 1
    /\ reference' = [reference EXCEPT !.json = builds']
    /\ UNCHANGED <<repository, batchSet, runs, report, evidence>>

WritePopulation ==
    /\ Continue("population", "thresholds")
    /\ reference' = [reference EXCEPT !.population = source]
    /\ UNCHANGED <<repository, builds, batchSet, runs, report, evidence>>

WriteThresholds ==
    /\ EndOrPrepare("thresholds", "calibrated")
    /\ reference' = [reference EXCEPT !.thresholds = [marginal |-> source, family |-> Absent]]
    /\ UNCHANGED <<repository, builds, batchSet, runs, report, evidence>>

(* calibrate-reference: adds to the thresholds it finds after calibrating. *)
Calibrate ==
    /\ Readable
    /\ Begin("calibrated", "command")
    /\ UNCHANGED <<repository, builds, reference, batchSet, runs, report, evidence>>

AddThresholds ==
    /\ EndOrPrepare("calibrated", "simulate")
    /\ IF Calibrated
       THEN reference' = [reference EXCEPT !.thresholds.family = reference.population]
       ELSE UNCHANGED reference
    /\ UNCHANGED <<repository, builds, batchSet, runs, report, evidence>>

(* simulate-batches, refused only where there are batches: they are written *)
(* first, the manifest last.                                                *)
WriteBatches ==
    /\ reference.json # Absent /\ batchSet.batches = Absent
    /\ Begin("batches", "command") \/ Continue("simulate", "batches")
    /\ batchSet' = [batchSet EXCEPT !.batches = source]
    /\ UNCHANGED <<repository, builds, reference, runs, report, evidence>>

WriteBatchManifest ==
    /\ End("batches")
    /\ batchSet' = [batchSet EXCEPT !.manifest = source]
    /\ UNCHANGED <<repository, builds, reference, runs, report, evidence>>

------------------------------------------------------------------------------
(* demo prepare --component monitoring: what is there is removed, if forced, *)
(* and made anew by the commands above; unforced, nothing is done.          *)
AlreadyPresent == reference.json # Absent \/ batchSet # [batches |-> Absent, manifest |-> Absent]
PrepareDemo ==
    /\ builds < MaxBuilds
    /\ Begin(IF AlreadyPresent THEN "json" ELSE "built", "prepare")
    /\ UNCHANGED <<repository, builds, reference, batchSet, runs, report, evidence>>

RemoveReferenceFile ==
    /\ \/ /\ Continue("json", "population csv")
          /\ reference' = [reference EXCEPT !.json = Absent]
       \/ /\ Continue("population csv", "thresholds json")
          /\ reference' = [reference EXCEPT !.population = Absent]
       \/ /\ Continue("thresholds json", "batch set")
          /\ reference' = [reference EXCEPT !.thresholds = NoThresholds]
    /\ UNCHANGED <<repository, builds, batchSet, runs, report, evidence>>

(* A directory is removed in any order. *)
RemoveBatchSet ==
    /\ job.pc = "batch set"
    /\ \E removed \in SUBSET DOMAIN batchSet \ {{}} :
          /\ batchSet' = [part \in DOMAIN batchSet |-> IF part \in removed THEN Absent ELSE batchSet[part]]
          /\ job' = IF removed = DOMAIN batchSet THEN [job EXCEPT !.pc = "built"] ELSE job
    /\ UNCHANGED <<repository, builds, reference, runs, report, evidence>>

------------------------------------------------------------------------------
(* run, and evaluate-detection, which runs first.  A batch set without its *)
(* manifest stops both until the demo is prepared with force: the error is *)
(* not the one evaluate-detection would answer by simulating the batches.  *)
Runnable == Readable /\ Calibrated /\ batchSet.batches # Absent /\ batchSet.manifest # Absent

RunMonitoring ==
    /\ Runnable /\ runs.count < MaxRuns
    /\ \E purpose \in {"command", "evaluate"} : Begin("checked", purpose)
    /\ UNCHANGED <<repository, builds, reference, batchSet, runs, report, evidence>>

WriteRunJson ==
    /\ Continue("checked", "alerts")
    /\ runs' = [count |-> runs.count + 1, last |-> runs.count + 1, alerts |-> FALSE]
    /\ UNCHANGED <<repository, builds, reference, batchSet, report, evidence>>

WriteAlerts ==
    /\ job.pc = "alerts"
    /\ runs' = [runs EXCEPT !.alerts = TRUE]
    /\ job' = IF job.purpose = "command" THEN Idle ELSE [job EXCEPT !.pc = "detection"]
    /\ UNCHANGED <<repository, builds, reference, batchSet, report, evidence>>

(* The stamp is taken when the evidence is written.  Below its floors the   *)
(* gate fails, whatever the stamp: no more is kept of such evidence.        *)
Evidence(kind, good) ==
    evidence' = [evidence EXCEPT ![kind] =
                    IF good THEN [stamp |-> Fingerprint, on |-> job.on, good |-> TRUE] ELSE NoEvidence]

(* Without the thresholds of calibrate-reference nothing detects bad data. *)
EvaluateDetection ==
    /\ End("detection")
    /\ \E good \in BOOLEAN :
          /\ good => reference.thresholds.family # Absent
          /\ Evidence("detection", good)
    /\ UNCHANGED <<repository, builds, reference, batchSet, runs, report>>

BeginFalseAlerts ==
    /\ Readable /\ Calibrated
    /\ Begin("false_alerts", "evaluate")
    /\ UNCHANGED <<repository, builds, reference, batchSet, runs, report, evidence>>

EvaluateFalseAlerts ==
    /\ End("false_alerts")
    /\ \E good \in BOOLEAN : Evidence("false_alerts", good)
    /\ UNCHANGED <<repository, builds, reference, batchSet, runs, report>>

(* report: a run without alerts is reported as a run that raised none. *)
WriteMonitoringReports ==
    /\ job = Idle /\ runs.last # Absent /\ report # runs.last
    /\ report' = runs.last
    /\ UNCHANGED <<repository, builds, reference, batchSet, runs, evidence, job>>

------------------------------------------------------------------------------
(* By hand: the reference is removed, as the refusal says, whole or in part; *)
(* the sources change, between two commands; a command is killed.           *)
RemoveReference ==
    /\ job = Idle /\ reference.json # Absent
    /\ \E kept \in {reference, [reference EXCEPT !.population = Absent, !.thresholds = NoThresholds]} :
          reference' = [kept EXCEPT !.json = Absent]
    /\ UNCHANGED <<repository, builds, batchSet, runs, report, evidence, job>>

Edit ==
    /\ job = Idle /\ versions < MaxEdits
    /\ versions' = versions + 1 /\ source' = versions'
    /\ UNCHANGED <<builds, reference, batchSet, runs, report, evidence, committed, job>>

Kill ==
    /\ job # Idle /\ job' = Idle
    /\ UNCHANGED <<repository, builds, reference, batchSet, runs, report, evidence>>

(* git: all that is tracked is committed; the tracked reports are taken     *)
(* from the last commit, or all tracked files, what git ignores left as it  *)
(* is; or the commit is checked out in an empty directory.                  *)
Commit ==
    /\ job = Idle /\ committed' = Tracked
    /\ UNCHANGED <<source, versions, builds, reference, batchSet, runs, report, evidence, job>>

TakeReports(population, batches) ==
    /\ job = Idle
    /\ reference' = [json |-> committed.json, population |-> population,
                     thresholds |-> committed.thresholds]
    /\ batchSet' = [batches |-> batches, manifest |-> committed.manifest]
    /\ report' = committed.report /\ evidence' = committed.evidence
    /\ UNCHANGED <<versions, builds, committed, job>>

Restore ==
    /\ TakeReports(reference.population, batchSet.batches)
    /\ source' \in {source, committed.source}
    /\ UNCHANGED runs

Clone ==
    /\ TakeReports(Absent, Absent)
    /\ source' = committed.source
    /\ runs' = [runs EXCEPT !.last = Absent, !.alerts = FALSE]

MonitoringNext ==
    \/ BuildReference \/ RefuseReference \/ WriteJson \/ WritePopulation \/ WriteThresholds
    \/ Calibrate \/ AddThresholds \/ WriteBatches \/ WriteBatchManifest
    \/ PrepareDemo \/ RemoveReferenceFile \/ RemoveBatchSet
    \/ RunMonitoring \/ WriteRunJson \/ WriteAlerts \/ EvaluateDetection
    \/ BeginFalseAlerts \/ EvaluateFalseAlerts \/ WriteMonitoringReports
    \/ RemoveReference \/ Edit \/ Kill \/ Commit \/ Restore \/ Clone

------------------------------------------------------------------------------
(* The monitoring gate of a release: both evaluations, current and good. *)
Current(kind) == evidence[kind].stamp = Fingerprint
MonitoringGate == \A kind \in DOMAIN evidence : Current(kind) /\ evidence[kind].good

(* What git ignores is what was evaluated, or absent, or made by this       *)
(* version or a later one that was given up: never a leftover from before.  *)
NotLeftOver(evaluated, now) == now \in {Absent, evaluated} \cup source..versions

(* A gate that passes tells of the tree it is judged in, wherever that is:  *)
(* both evaluations were made by this code, on this reference, with these   *)
(* thresholds, which are fully calibrated, and this batch manifest.  Of the *)
(* population and the batches, which no fingerprint knows, it can only say  *)
(* that they are no leftovers: in a clone they are absent.                  *)
PassedGateIsCurrent ==
    MonitoringGate =>
        /\ reference.thresholds.family # Absent
        /\ \A kind \in DOMAIN evidence :
              LET on == evidence[kind].on
              IN  /\ on.source = source
                  /\ on.reference.json = reference.json
                  /\ on.reference.thresholds = reference.thresholds
                  /\ on.batchSet.manifest = batchSet.manifest
                  /\ NotLeftOver(on.reference.population, reference.population)
                  /\ NotLeftOver(on.batchSet.batches, batchSet.batches)
==============================================================================
