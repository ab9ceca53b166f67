----------------------------- MODULE Remediation -----------------------------
(***************************************************************************)
(* credlens model remediate: model_validation/remediation.py builds three   *)
(* reduced models from the split of a registered one (v1), compares them    *)
(* with it, and registers the last of them if it is good enough; and the    *)
(* lifecycle history that every registration and verdict is appended to     *)
(* (lifecycle.py).                                                          *)
(*                                                                         *)
(* The files of a build are labelled with the number of the command that    *)
(* wrote them, those of v1 with the number of its fit.  A command may be    *)
(* killed between two files.                                               *)
(***************************************************************************)
EXTENDS Integers, Sequences, FiniteSets, SequencesExt

CONSTANTS
    MaxFits,        \* bound: trainings of v1
    MaxCommands,    \* bound: remediations begun
    MaxRecords,     \* bound: length of a lifecycle history
    Scores,         \* PR-AUC of the original model, in steps
    Audits,         \* what an audit of a reduced one may find: its PR-AUC, and of each feature
                    \* the variance inflation and the sign-flip rate in per cent
    Infinite,       \* the inflation of a feature the others determine exactly
    ActionThreshold, \* max_vif_action_threshold
    Tolerance,      \* the change of the PR-AUC that is accepted, either way
    MaxFlipRate     \* max_kept_feature_sign_flip_rate, in per cent

Features == {"x", "y"}                  \* the two the final model keeps

RemediationAssumption ==
    /\ MaxFits \in Nat \ {0} /\ MaxCommands \in Nat /\ MaxRecords \in Nat
    /\ Scores \subseteq Nat /\ Tolerance \in Nat /\ MaxFlipRate \in Nat
    /\ Infinite \in Nat /\ ActionThreshold \in 1..Infinite
    /\ Audits \subseteq [score : Nat, vif : [Features -> 1..Infinite], flips : [Features -> 0..100]]

Reduced == {"stability", "final"}       \* the models whose coefficients are audited again

VARIABLES
    v1,             \* v1[k]: PR-AUC of the k-th fit of the original model
    tables,         \* the fit each table of the original was written for; 0: none
    pipeline, record, \* of each reduced model: the command that wrote the file, and the audit
    comparison,     \* the command that wrote the comparison table
    artifact, manifest, \* of the model id given to the command
    history,        \* the lifecycle file of that id: its transitions, and is it cut short
    command         \* the running command

remediationVars ==
    <<v1, tables, pipeline, record, comparison, artifact, manifest, history, command>>
files == <<pipeline, record, comparison, artifact, manifest, history>>

Tables == {"pareto", "classification"}
NoCommand == [number |-> 0, at |-> "idle", verdict |-> "none"]
NoRecord == [by |-> 0]
NoManifest == [status |-> "none"]

RemediationInit ==
    /\ v1 \in {<<s>> : s \in Scores}
    /\ tables = [t \in Tables |-> 0]
    /\ pipeline = [m \in Reduced |-> 0] /\ record = [m \in Reduced |-> NoRecord]
    /\ comparison = 0 /\ artifact = 0 /\ manifest = NoManifest
    /\ history = [log |-> <<>>, torn |-> FALSE]
    /\ command = NoCommand

Idle == command.at = "idle"
Goto(at) == command' = [command EXCEPT !.at = at]
Stop == Goto("idle")

------------------------------------------------------------------------------
(* The original model is trained, evaluated and registered once more: its   *)
(* own files are new, the tables of its validation are not.                 *)
Retrain ==
    /\ Idle /\ Len(v1) < MaxFits
    /\ \E s \in Scores : v1' = Append(v1, s)
    /\ UNCHANGED <<tables, files, command>>

(* compare-candidates; it needs a registered challenger.                    *)
CompareCandidates ==
    /\ Idle
    /\ tables' = [tables EXCEPT !["pareto"] = Len(v1)]
    /\ UNCHANGED <<v1, files, command>>

(* validate-independent leaves the coefficients of v1 classified.           *)
ClassifyCoefficients ==
    /\ Idle
    /\ tables' = [tables EXCEPT !["classification"] = Len(v1)]
    /\ UNCHANGED <<v1, files, command>>

------------------------------------------------------------------------------
(* The remediation.  It stops where no variable is inflated in v1.          *)
Begin ==
    /\ Idle /\ command.number < MaxCommands
    /\ \E inflated \in BOOLEAN :
          command' = [number |-> command.number + 1, verdict |-> "none",
                      at |-> IF inflated THEN "stability" ELSE "idle"]
    /\ UNCHANGED <<v1, tables, files>>

(* A reduced model: its pipeline, then its record with its own audit.  Only *)
(* the mechanical one reads a table of the original.                        *)
DumpPipeline ==
    /\ command.at \in Reduced
    /\ IF command.at = "stability" /\ tables["classification"] = 0
       THEN Stop /\ UNCHANGED pipeline
       ELSE /\ pipeline' = [pipeline EXCEPT ![command.at] = command.number]
            /\ Goto(IF command.at = "final" THEN "record final" ELSE "record stability")
    /\ UNCHANGED <<v1, tables, record, comparison, artifact, manifest, history>>

(* The table of variance inflations, as json has it: an infinite one is     *)
(* written as None.  What was found is kept for the properties.             *)
None == 0
VifTable(audit) == [f \in Features |-> IF audit.vif[f] = Infinite THEN None ELSE audit.vif[f]]
AuditReduced(m) ==
    \E audit \in Audits :
        record' = [record EXCEPT ![m] = [by |-> command.number, vif |-> VifTable(audit),
                        score |-> audit.score, flips |-> audit.flips, found |-> audit]]
WriteRecord ==
    /\ \/ command.at = "record stability" /\ AuditReduced("stability") /\ Goto("final")
       \/ command.at = "record final" /\ AuditReduced("final") /\ Goto("compare")
    /\ UNCHANGED <<v1, tables, pipeline, comparison, artifact, manifest, history>>

(* compare_five_models(): the rows of v1 come from the table of             *)
(* compare-candidates, the others from the records.                         *)
Compare ==
    /\ command.at = "compare"
    /\ IF tables["pareto"] = 0 \/ tables["classification"] = 0
       THEN Stop /\ UNCHANGED comparison
       ELSE comparison' = command.number /\ Goto("decide")
    /\ UNCHANGED <<v1, tables, pipeline, record, artifact, manifest, history>>

ComparedFromMechanical == record["stability"]   \* a slip: the row of the mechanical model
ComparedFrom == record["final"]
Original == v1[tables["pareto"]]

(* The largest inflation is taken over the values that are not None, the    *)
(* mean over the sign-flip rates of all features.                           *)
VifValues(row) == {row.vif[f] : f \in Features} \ {None}
Inflated(row) == \E vif \in VifValues(row) : vif >= ActionThreshold
TotalFlips(row) == row.flips["x"] + row.flips["y"]
MeanAtLeast(row, rate) == TotalFlips(row) >= 2 * rate
Verdict(row, original) ==
    IF Inflated(row) \/ MeanAtLeast(row, MaxFlipRate) THEN "remediation_rejected"
    ELSE IF row.score - original > Tolerance THEN "requires_new_external_validation"
    ELSE IF original - row.score > Tolerance THEN "remediation_rejected"
    ELSE "remediation_candidate"

DecideRemediation ==
    /\ command.at = "decide"
    /\ LET verdict == Verdict(ComparedFrom, Original)
       IN  command' = [command EXCEPT !.verdict = verdict,
                         !.at = IF verdict = "remediation_candidate" THEN "artifact" ELSE "idle"]
    /\ UNCHANGED <<v1, tables, files>>

RegisterArtifact ==
    /\ command.at = "artifact"
    /\ artifact' = pipeline["final"]
    /\ Goto("manifest")
    /\ UNCHANGED <<v1, tables, pipeline, record, comparison, manifest, history>>

(* "against" and "found" are kept for the properties.                       *)
RegisterManifest ==
    /\ command.at = "manifest"
    /\ manifest' = [status |-> command.verdict, hash |-> artifact, metrics |-> record["final"].by,
                    found |-> record["final"].found, against |-> Original]
    /\ Goto("transition")
    /\ UNCHANGED <<v1, tables, pipeline, record, comparison, artifact, history>>

------------------------------------------------------------------------------
(* record_transition(): the file is read, and written again as a whole.  A  *)
(* writer killed in between leaves a file that cannot be read any more.     *)
CurrentState == IF history.log = <<>> THEN "experiment" ELSE Last(history.log).to

WithoutHistory(to) == [history EXCEPT !.log = <<[from |-> CurrentState, to |-> to]>>]  \* a slip: begun anew
Appended(to) == [history EXCEPT !.log = Append(@, [from |-> CurrentState, to |-> to])]
Torn == [history EXCEPT !.torn = TRUE]

RecordTransition ==
    /\ command.at = "transition"
    /\ history' \in IF history.torn THEN {history} ELSE {Appended(command.verdict), Torn}
    /\ Stop
    /\ UNCHANGED <<v1, tables, pipeline, record, comparison, artifact, manifest>>

(* The same model may be validated, or registered as a challenger.          *)
RecordVerdict ==
    /\ Idle /\ ~history.torn /\ Len(history.log) < MaxRecords
    /\ artifact # 0 /\ manifest # NoManifest
    /\ \E to \in {"validation_failed", "challenger"} :
          history' \in {Appended(to), Torn}
    /\ UNCHANGED <<v1, tables, pipeline, record, comparison, artifact, manifest, command>>

Kill ==
    /\ ~Idle
    /\ Stop
    /\ UNCHANGED <<v1, tables, files>>

RemediationNext ==
    \/ Retrain \/ CompareCandidates \/ ClassifyCoefficients
    \/ Begin \/ DumpPipeline \/ WriteRecord \/ Compare \/ DecideRemediation
    \/ RegisterArtifact \/ RegisterManifest \/ RecordTransition \/ RecordVerdict \/ Kill

------------------------------------------------------------------------------
(* A model that loads as a remediation candidate: its manifest speaks of    *)
(* the artifact beside it.                                                  *)
Registered == manifest # NoManifest /\ manifest.hash = artifact

(* It was audited itself, with its own features, and is neither worse nor   *)
(* suspiciously better than the fit of v1 it was compared with: whatever    *)
(* was killed, begun again or retrained.  Of its features the decision      *)
(* excludes a finite inflation at the threshold, and a sign-flip rate so    *)
(* high that the mean reaches the limit; it excludes neither an infinite    *)
(* inflation nor a single rate over the limit (KeptFeaturesAreSound).      *)
RegisteredWasAudited ==
    Registered =>
        /\ manifest.metrics = artifact
        /\ \A f \in Features : /\ manifest.found.vif[f] \notin ActionThreshold..(Infinite - 1)
                              /\ manifest.found.flips[f] < 2 * MaxFlipRate
        /\ manifest.found.score \in (manifest.against - Tolerance)..(manifest.against + Tolerance)

(* decide_remediation() says of a candidate "max VIF among KEPT features     *)
(* below the action threshold, no kept feature with a bootstrap sign-flip   *)
(* rate at/above the unstable threshold": an exactly collinear one has no   *)
(* maximum that could be above it, and it is the mean that is below.        *)
KeptFeaturesAreSound ==
    Registered =>
        \A f \in Features : /\ manifest.found.vif[f] < ActionThreshold
                            /\ manifest.found.flips[f] < MaxFlipRate

(* lifecycle.py: "never truncates or edits a prior transition".  A history  *)
(* only grows, each transition from the state the one before led to, until  *)
(* a writer is killed; no later command then takes it for a new one.        *)
Chained(h) == \A i \in DOMAIN h : h[i].from = IF i = 1 THEN "experiment" ELSE h[i - 1].to
LifecycleAppendOnly ==
    [][history' # history => /\ ~history.torn
                             /\ IsPrefix(history.log, history'.log) /\ Chained(history'.log)
      ]_remediationVars
==============================================================================
