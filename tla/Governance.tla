------------------------------ MODULE Governance ------------------------------
(***************************************************************************)
(* modeling/reporting.py, modeling/registry.py and model_validation/: one  *)
(* experiment from its training to the verdict on the models registered    *)
(* from it.                                                                *)
(*                                                                         *)
(* The commands of the pipeline (train, evaluate, explain, audit-groups,   *)
(* stress-test, register, register-challenger) run one at a time, each     *)
(* over files the earlier ones left; validate-independent takes hours and  *)
(* runs beside them.  A command may be killed between two files.           *)
(*                                                                         *)
(* Training is deterministic: what it fits depends on the version of its   *)
(* configuration and code.  A model, its metrics and what is computed from *)
(* it are represented by that version, 0 when there is none.  Versions     *)
(* only move forward: nobody goes back to an earlier one.                  *)
(***************************************************************************)
EXTENDS Integers, FiniteSets

CONSTANTS
    MaxVersion,     \* bound: versions of the configuration and code of training
    Flaws           \* what may be wrong with the versions

Versions == 1..MaxVersion

ASSUME GovernanceAssumption ==
    /\ MaxVersion \in Nat \ {0}
    /\ Flaws \subseteq [Versions -> {"none", "weak", "leaky"}]

\* Both registered models stem from the one experiment: the logistic regression
\* as candidate, the gradient boosting as challenger.
Models == {"candidate", "challenger"}
Tables == {"predictions", "robustness"}

VARIABLES
    flaw,       \* flaw[v]: its metrics miss a threshold, or a negative control fails
    version,    \* what training would fit now
    fits,       \* fits[m]: the experiment's own pipeline behind model m
    rec,        \* the experiment's JSON record
    tables,     \* the experiment's CSV tables
    artifact,   \* artifact[m]: models/<m>.joblib
    manifest,   \* manifest[m]: models/<m>.manifest.json
    job,        \* where the pipeline's command stands
    torn,       \* history: a training was killed, and none has ended since
    vpc,        \* where validate-independent stands
    evidence,   \* what it froze
    vread,      \* versions of the predictions it has read
    vok,        \* no blocking gate has failed
    verdict     \* the decision it wrote

pipelineVars == <<flaw, version, fits, rec, tables, artifact, manifest, job, torn>>
validationVars == <<vpc, evidence, vread, vok, verdict>>
govVars == <<pipelineVars, validationVars>>

NoMetrics == [m \in Models |-> 0]
NoRecord == [status |-> "none", fit |-> 0, metrics |-> NoMetrics, audit |-> 0]
NoManifest == [hash |-> 0, metrics |-> 0, audit |-> 0, torn |-> FALSE]
NoEvidence == [prediction |-> 0, metrics |-> 0]

Init ==
    /\ flaw \in Flaws
    /\ version = 1
    /\ fits = NoMetrics
    /\ rec = NoRecord
    /\ tables = [t \in Tables |-> 0]
    /\ artifact = NoMetrics
    /\ manifest = [m \in Models |-> NoManifest]
    /\ job = "idle"
    /\ torn = FALSE
    /\ vpc = "idle" /\ evidence = NoEvidence /\ vread = {} /\ vok = FALSE /\ verdict = "none"

-----------------------------------------------------------------------------
(***************************************************************************)
(* The pipeline.                                                           *)
(***************************************************************************)
\* The configuration or the code of training changes between two commands.
Upgrade ==
    /\ job = "idle"
    /\ version < MaxVersion
    /\ version' = version + 1
    /\ UNCHANGED <<flaw, fits, rec, tables, artifact, manifest, job, torn, validationVars>>

\* train: the pipelines are dumped one by one, then the record is replaced.
DumpLogistic ==
    /\ job = "idle"
    /\ job' = "dumped"
    /\ fits' = [fits EXCEPT !["candidate"] = version]
    /\ UNCHANGED <<flaw, version, rec, tables, artifact, manifest, torn, validationVars>>

DumpBoosting ==
    /\ job = "dumped"
    /\ job' = "trained"
    /\ fits' = [fits EXCEPT !["challenger"] = version]
    /\ UNCHANGED <<flaw, version, rec, tables, artifact, manifest, torn, validationVars>>

\* A slip: training again keeps what evaluation and audit found.
TrainedRecordKeepsFindings(v) ==
    [rec EXCEPT !.fit = v, !.status = IF @ = "none" THEN "trained" ELSE @]

\* A slip: training again keeps the subgroup audit.
TrainedRecordKeepsAudit(v) == [NoRecord EXCEPT !.status = "trained", !.fit = v, !.audit = rec.audit]

TrainedRecord(v) == [NoRecord EXCEPT !.status = "trained", !.fit = v]

RecordTraining ==
    /\ job = "trained"
    /\ job' = "idle"
    /\ rec' = TrainedRecord(version)
    /\ torn' = FALSE
    /\ UNCHANGED <<flaw, version, fits, tables, artifact, manifest, validationVars>>

\* _load_experiment_data() and _reload_models() of the commands below.
Reloadable == rec.status # "none" /\ \A m \in Models : fits[m] # 0

WriteTable(t) == tables' = [tables EXCEPT ![t] = fits["candidate"]]

\* evaluate: the predictions and what follows from them, then the record.
EvaluatePredictions ==
    /\ job = "idle" /\ Reloadable
    /\ job' = "predicted"
    /\ WriteTable("predictions")
    /\ UNCHANGED <<flaw, version, fits, rec, artifact, manifest, torn, validationVars>>

RecordEvaluation ==
    /\ job = "predicted"
    /\ job' = "idle"
    /\ rec' = [rec EXCEPT !.metrics = fits, !.status = "evaluated"]
    /\ UNCHANGED <<flaw, version, fits, tables, artifact, manifest, torn, validationVars>>

StressTest ==
    /\ job = "idle" /\ Reloadable
    /\ WriteTable("robustness")
    /\ UNCHANGED <<flaw, version, fits, rec, artifact, manifest, job, torn, validationVars>>

AuditGroups ==
    /\ job = "idle" /\ Reloadable
    /\ rec' = [rec EXCEPT !.audit = fits["candidate"]]
    /\ UNCHANGED <<flaw, version, fits, tables, artifact, manifest, job, torn, validationVars>>

Evaluated == rec.status \in {"evaluated", "registered_candidate", "gates_failed"}

\* A slip: the experiment's warnings are not looked at.
EligibleThoughLeaky == flaw[rec.metrics["candidate"]] # "weak" /\ rec.audit # 0

\* evaluate_gates().
Eligible ==
    /\ flaw[rec.metrics["candidate"]] # "weak"
    /\ flaw[rec.fit] # "leaky"
    /\ rec.audit # 0

GatesFail ==
    /\ job = "idle" /\ Reloadable /\ Evaluated
    /\ ~Eligible
    /\ rec' = [rec EXCEPT !.status = "gates_failed"]
    /\ UNCHANGED <<flaw, version, fits, tables, artifact, manifest, job, torn, validationVars>>

DumpArtifact(m) ==
    /\ artifact' = [artifact EXCEPT ![m] = fits[m]]
    /\ UNCHANGED <<flaw, version, fits, rec, tables, manifest, torn, validationVars>>

\* The audit and torn are kept for the properties; the file has neither.
WriteManifest(m) ==
    /\ manifest' = [manifest EXCEPT ![m] =
           [hash |-> artifact[m], metrics |-> rec.metrics[m], audit |-> rec.audit, torn |-> torn]]
    /\ UNCHANGED <<flaw, version, fits, rec, tables, artifact, torn, validationVars>>

RegisterArtifact ==
    /\ job = "idle" /\ Reloadable /\ Evaluated
    /\ Eligible
    /\ job' = "registering"
    /\ DumpArtifact("candidate")

RegisterManifest ==
    /\ job = "registering"
    /\ job' = "registered"
    /\ WriteManifest("candidate")

RecordRegistration ==
    /\ job = "registered"
    /\ job' = "idle"
    /\ rec' = [rec EXCEPT !.status = "registered_candidate"]
    /\ UNCHANGED <<flaw, version, fits, tables, artifact, manifest, torn, validationVars>>

\* register-challenger asks for no gate, only for the pipeline and its metrics.
ChallengerArtifact ==
    /\ job = "idle" /\ rec.metrics["challenger"] # 0
    /\ job' = "challenging"
    /\ DumpArtifact("challenger")

ChallengerManifest ==
    /\ job = "challenging"
    /\ job' = "idle"
    /\ WriteManifest("challenger")

Kill ==
    /\ job # "idle"
    /\ job' = "idle"
    /\ torn' = (torn \/ job \in {"dumped", "trained"})
    /\ UNCHANGED <<flaw, version, fits, rec, tables, artifact, manifest, validationVars>>

Pipeline ==
    \/ Upgrade
    \/ DumpLogistic \/ DumpBoosting \/ RecordTraining
    \/ EvaluatePredictions \/ RecordEvaluation
    \/ StressTest \/ AuditGroups
    \/ GatesFail \/ RegisterArtifact \/ RegisterManifest \/ RecordRegistration
    \/ ChallengerArtifact \/ ChallengerManifest
    \/ Kill

-----------------------------------------------------------------------------
(***************************************************************************)
(* validate-independent.                                                   *)
(***************************************************************************)
\* load_model_candidate() does not refuse m.
Loadable(m) == manifest[m].hash # 0 /\ artifact[m] = manifest[m].hash

Freeze ==
    /\ vpc = "idle"
    /\ manifest["candidate"].hash # 0 /\ Evaluated /\ tables["predictions"] # 0
    /\ vpc' = "frozen"
    /\ evidence' = [prediction |-> tables["predictions"], metrics |-> rec.metrics["candidate"]]
    /\ UNCHANGED <<pipelineVars, vread, vok, verdict>>

\* run_recomputation(): metrics of two fits never agree within the tolerance.
Recompute ==
    /\ vpc = "frozen"
    /\ vpc' = "recomputed"
    /\ vread' = {tables["predictions"]}
    /\ vok' = (tables["predictions"] = evidence.metrics /\ flaw[evidence.metrics] # "weak")
    /\ UNCHANGED <<pipelineVars, evidence, verdict>>

\* The record is read again for the leakage gate, then the predictions for the
\* audit, and the experiment's own pipeline for the perturbations.
Diagnose ==
    /\ vpc = "recomputed"
    /\ tables["robustness"] # 0
    /\ vpc' = "diagnosed"
    /\ vread' = vread \cup {tables["predictions"]}
    /\ vok' = (vok /\ flaw[rec.fit] # "leaky" /\ fits["candidate"] = tables["robustness"])
    /\ UNCHANGED <<pipelineVars, evidence, verdict>>

\* A slip: the predictions are not hashed again.
ReproducibleByDecree == TRUE

\* _check_reproducibility().
Reproducible == tables["predictions"] = evidence.prediction

\* make_decision(): one failed blocking gate suffices.  The other gates, over
\* reports and statistics, may fail whatever is modelled here.
Decide ==
    /\ vpc = "diagnosed"
    /\ Loadable("candidate")
    /\ vpc' = "decided"
    /\ verdict' \in {"failed"} \cup (IF vok /\ Reproducible THEN {"passed"} ELSE {})
    /\ UNCHANGED <<pipelineVars, evidence, vread, vok>>

\* The validation ends; or before that a table is missing, the artifact does
\* not match its manifest, or the process is killed.
ValidationEnds ==
    /\ vpc # "idle"
    /\ vpc' = "idle" /\ evidence' = NoEvidence /\ vread' = {} /\ vok' = FALSE /\ verdict' = "none"
    /\ UNCHANGED pipelineVars

Validation == Freeze \/ Recompute \/ Diagnose \/ Decide \/ ValidationEnds

Next == Pipeline \/ Validation

Spec == Init /\ [][Next]_govVars

-----------------------------------------------------------------------------
(***************************************************************************)
(* Properties.                                                             *)
(***************************************************************************)
\* The metrics in the manifest of a model that can be loaded are the metrics of
\* the pipeline that is loaded, whatever was retrained, killed or registered
\* again since, unless it was registered over a training that was killed.
MetricsOfTheModel ==
    \A m \in Models : Loadable(m) /\ ~manifest[m].torn => manifest[m].metrics = artifact[m]

\* A candidate that can be loaded was audited for subgroups itself: the audit
\* of an earlier fit does not open the gate.  And it is no fit with a failed
\* negative control, and none that misses a threshold.
CandidateIsFit ==
    Loadable("candidate") /\ ~manifest["candidate"].torn =>
        /\ manifest["candidate"].audit = artifact["candidate"]
        /\ flaw[artifact["candidate"]] = "none"

\* A validation passes only over predictions that nobody replaced since it
\* froze its evidence, and that have the metrics it froze, although evaluate
\* may run beside it.
PassedOnFrozenPredictions ==
    vpc = "decided" /\ verdict = "passed"
        => vread = {evidence.prediction} /\ evidence.prediction = evidence.metrics

\* validation.yml: require_artifact_hash_match.  The artifact of the candidate
\* that passes is the fit whose metrics its evidence froze.
ArtifactHashMatches ==
    vpc = "decided" /\ verdict = "passed" /\ ~torn /\ ~manifest["candidate"].torn
        => artifact["candidate"] = evidence.metrics
=============================================================================
