--------------------------- MODULE GovernanceProofs ---------------------------
(***************************************************************************)
(* Theorems about Governance, for any number of versions and whatever may  *)
(* be wrong with them.                                                     *)
(*                                                                         *)
(* The pipeline and the validation are argued apart.  Of the pipeline: as  *)
(* long as no training was killed, everything the record holds is of the   *)
(* fit it names, and so is what the registration writes from it.  Of the   *)
(* validation: versions only move forward, so predictions that are in the  *)
(* end what they were in the beginning were never anything else.           *)
(***************************************************************************)
EXTENDS Governance, TLAPS

-----------------------------------------------------------------------------
(***************************************************************************)
(* The inductive invariant of the pipeline.                                *)
(***************************************************************************)
Upto == 0..version

Jobs == {"idle", "dumped", "trained", "predicted", "registering", "registered", "challenging"}
Statuses == {"none", "trained", "evaluated", "registered_candidate", "gates_failed"}

PipelineTypeOK ==
    /\ flaw \in [Versions -> {"none", "weak", "leaky"}]
    /\ version \in Versions
    /\ fits \in [Models -> Upto]
    /\ rec \in [status : Statuses, fit : Upto, metrics : [Models -> Upto], audit : Upto]
    /\ tables \in [Tables -> Upto]
    /\ artifact \in [Models -> Upto]
    /\ manifest \in [Models -> [hash : Upto, metrics : Upto, audit : Upto, torn : BOOLEAN]]
    /\ job \in Jobs
    /\ torn \in BOOLEAN

\* While no training runs, and none was killed, the pipelines are the record's.
FitsOfRecord ==
    /\ job \notin {"dumped", "trained"} /\ ~torn => \A m \in Models : fits[m] = rec.fit
    /\ job \in {"dumped", "trained"} => fits["candidate"] = version
    /\ job = "trained" => fits["challenger"] = version

\* What evaluation and audit found is of the fit they were recorded with.
FindingsOfRecord ==
    /\ ~torn => /\ \A m \in Models : rec.metrics[m] \in {0, rec.fit}
                /\ rec.audit \in {0, rec.fit}
    /\ Evaluated => \A m \in Models : rec.metrics[m] # 0
    /\ job = "predicted" => rec.status # "none" /\ \A m \in Models : fits[m] # 0

\* A registration carries the pipeline it found to the artifact.
RegistrationOfFit ==
    /\ job \in {"registering", "registered"} => Evaluated /\ Eligible
    /\ job = "registering" => artifact["candidate"] = fits["candidate"]
    /\ job = "challenging" => /\ artifact["challenger"] = fits["challenger"]
                              /\ rec.metrics["challenger"] # 0

\* A manifest is of one fit, unless it was written over a killed training.
ManifestOfFit ==
    /\ \A m \in Models :
          manifest[m].hash # 0 /\ ~manifest[m].torn => manifest[m].metrics = manifest[m].hash
    /\ manifest["candidate"].hash # 0 /\ ~manifest["candidate"].torn =>
          /\ manifest["candidate"].audit = manifest["candidate"].hash
          /\ flaw[manifest["candidate"].hash] = "none"

PredictionsOfFit == tables["predictions"] <= fits["candidate"]

PipelineInv ==
    /\ PipelineTypeOK
    /\ FitsOfRecord
    /\ FindingsOfRecord
    /\ RegistrationOfFit
    /\ ManifestOfFit
    /\ PredictionsOfFit

-----------------------------------------------------------------------------
(***************************************************************************)
(* The inductive invariant of the validation.                              *)
(***************************************************************************)
\* The predictions read are of versions between the frozen one and the one
\* there is now, and those with the frozen metrics are among them.
ReadSinceFrozen ==
    /\ vpc # "idle" => evidence.prediction \in Nat /\ evidence.prediction <= tables["predictions"]
    /\ vpc \in {"recomputed", "diagnosed"} =>
          /\ vread # {}
          /\ \A x \in vread : /\ x \in Nat
                              /\ evidence.prediction <= x /\ x <= tables["predictions"]
          /\ vok => evidence.metrics \in vread

ValidationInv == PipelineInv /\ ReadSinceFrozen /\ PassedOnFrozenPredictions

-----------------------------------------------------------------------------
(***************************************************************************)
(* The commands of the pipeline keep its types.                            *)
(***************************************************************************)
LEMMA PipelineKeepsTypes ==
    ASSUME PipelineTypeOK, Pipeline
    PROVE  PipelineTypeOK'
<1> USE DEF PipelineTypeOK, Upto, Models
<1>0. MaxVersion \in Nat \ {0} /\ version \in Nat /\ Versions = 1..MaxVersion
  BY GovernanceAssumption DEF Versions
<1>1. CASE Upgrade
  <2>1. version' \in Versions /\ version' = version + 1
    BY <1>0, <1>1 DEF Upgrade
  <2>2. 0..version \subseteq 0..version'
    BY <1>0, <2>1
  <2> QED BY <1>1, <2>1, <2>2 DEF Upgrade
<1>2. CASE DumpLogistic
  BY <1>0, <1>2 DEF DumpLogistic, Jobs
<1>3. CASE DumpBoosting
  BY <1>0, <1>3 DEF DumpBoosting, Jobs
<1>4. CASE RecordTraining
  <2>1. rec' = [status |-> "trained", fit |-> version, metrics |-> NoMetrics, audit |-> 0]
    BY <1>4 DEF RecordTraining, TrainedRecord, NoRecord
  <2>2. version \in Upto /\ 0 \in Upto /\ NoMetrics \in [Models -> Upto]
    BY <1>0 DEF NoMetrics
  <2>3. rec' \in [status : Statuses, fit : Upto, metrics : [Models -> Upto], audit : Upto]
    BY <2>1, <2>2 DEF Statuses
  <2> QED BY <1>0, <1>4, <2>3 DEF RecordTraining, Jobs
<1>5. CASE EvaluatePredictions
  BY <1>0, <1>5 DEF EvaluatePredictions, WriteTable, Jobs
<1>6. CASE RecordEvaluation
  BY <1>0, <1>6 DEF RecordEvaluation, Jobs, Statuses
<1>7. CASE StressTest
  BY <1>0, <1>7 DEF StressTest, WriteTable
<1>8. CASE AuditGroups
  BY <1>0, <1>8 DEF AuditGroups
<1>9. CASE GatesFail
  BY <1>0, <1>9 DEF GatesFail, Statuses
<1>10. CASE RegisterArtifact
  BY <1>0, <1>10 DEF RegisterArtifact, DumpArtifact, Jobs
<1>11. CASE RegisterManifest
  BY <1>0, <1>11 DEF RegisterManifest, WriteManifest, Jobs
<1>12. CASE RecordRegistration
  BY <1>0, <1>12 DEF RecordRegistration, Jobs, Statuses
<1>13. CASE ChallengerArtifact
  BY <1>0, <1>13 DEF ChallengerArtifact, DumpArtifact, Jobs
<1>14. CASE ChallengerManifest
  BY <1>0, <1>14 DEF ChallengerManifest, WriteManifest, Jobs
<1>15. CASE Kill
  BY <1>0, <1>15 DEF Kill, Jobs
<1> QED BY <1>1, <1>2, <1>3, <1>4, <1>5, <1>6, <1>7, <1>8, <1>9, <1>10, <1>11, <1>12, <1>13,
           <1>14, <1>15 DEF Pipeline
(***************************************************************************)
(* They keep the invariant.  The registration is where it matters: without *)
(* a killed training the artifact, the metrics and the audit that its      *)
(* manifest brings together are all of the fit of the record, for which    *)
(* the gates are open.                                                     *)
(***************************************************************************)
LEMMA PipelineKeepsInv ==
    ASSUME PipelineInv, Pipeline
    PROVE  PipelineInv'
<1> USE DEF PipelineInv, PipelineTypeOK, Upto, Models, Tables
<1>a. PipelineTypeOK'
  BY PipelineKeepsTypes
<1>b. MaxVersion \in Nat \ {0} /\ version \in Nat
  BY GovernanceAssumption DEF Versions
<1>1. CASE Upgrade
  BY <1>a, <1>b, <1>1 DEF Upgrade, FitsOfRecord, FindingsOfRecord, RegistrationOfFit,
     ManifestOfFit, PredictionsOfFit, Evaluated, Eligible
<1>2. CASE DumpLogistic
  <2>1. PredictionsOfFit'
    BY <1>b, <1>2 DEF DumpLogistic, PredictionsOfFit
  <2>2. FitsOfRecord' /\ FindingsOfRecord' /\ RegistrationOfFit' /\ ManifestOfFit'
    BY <1>b, <1>2 DEF DumpLogistic, FitsOfRecord, FindingsOfRecord, RegistrationOfFit,
       ManifestOfFit, Evaluated, Eligible
  <2> QED BY <1>a, <2>1, <2>2
<1>3. CASE DumpBoosting
  BY <1>a, <1>b, <1>3 DEF DumpBoosting, FitsOfRecord, FindingsOfRecord, RegistrationOfFit,
     ManifestOfFit, PredictionsOfFit, Evaluated, Eligible
<1>4. CASE RecordTraining
  <2>1. FitsOfRecord'
    BY <1>b, <1>4 DEF RecordTraining, TrainedRecord, NoRecord, NoMetrics, FitsOfRecord
  <2>2. FindingsOfRecord'
    BY <1>b, <1>4 DEF RecordTraining, TrainedRecord, NoRecord, NoMetrics, FindingsOfRecord,
       Evaluated
  <2>3. RegistrationOfFit' /\ ManifestOfFit' /\ PredictionsOfFit'
    BY <1>b, <1>4 DEF RecordTraining, TrainedRecord, NoRecord, NoMetrics,
       RegistrationOfFit, ManifestOfFit, PredictionsOfFit, Evaluated, Eligible
  <2> QED BY <1>a, <2>1, <2>2, <2>3
<1>5. CASE EvaluatePredictions
  <2>1. FindingsOfRecord'
    BY <1>b, <1>5 DEF EvaluatePredictions, WriteTable, FindingsOfRecord, Reloadable,
       Evaluated
  <2>2. FitsOfRecord' /\ RegistrationOfFit' /\ ManifestOfFit' /\ PredictionsOfFit'
    BY <1>b, <1>5 DEF EvaluatePredictions, WriteTable, FitsOfRecord, RegistrationOfFit,
       ManifestOfFit, PredictionsOfFit, Evaluated, Eligible
  <2> QED BY <1>a, <2>1, <2>2
<1>6. CASE RecordEvaluation
  <2>1. FindingsOfRecord'
    BY <1>b, <1>6 DEF RecordEvaluation, FindingsOfRecord, FitsOfRecord, Evaluated
  <2>2. FitsOfRecord' /\ RegistrationOfFit' /\ ManifestOfFit' /\ PredictionsOfFit'
    BY <1>b, <1>6 DEF RecordEvaluation, FitsOfRecord, RegistrationOfFit, ManifestOfFit,
       PredictionsOfFit, Evaluated, Eligible
  <2> QED BY <1>a, <2>1, <2>2
<1>7. CASE StressTest
  BY <1>a, <1>b, <1>7 DEF StressTest, WriteTable, FitsOfRecord, FindingsOfRecord,
     RegistrationOfFit, ManifestOfFit, PredictionsOfFit, Evaluated, Eligible
<1>8. CASE AuditGroups
  <2>1. FindingsOfRecord'
    BY <1>b, <1>8 DEF AuditGroups, FindingsOfRecord, FitsOfRecord, Evaluated
  <2>2. FitsOfRecord' /\ RegistrationOfFit' /\ ManifestOfFit' /\ PredictionsOfFit'
    BY <1>b, <1>8 DEF AuditGroups, FitsOfRecord, RegistrationOfFit, ManifestOfFit,
       PredictionsOfFit, Evaluated, Eligible
  <2> QED BY <1>a, <2>1, <2>2
<1>9. CASE GatesFail
  <2>1. FindingsOfRecord'
    BY <1>b, <1>9 DEF GatesFail, FindingsOfRecord, Evaluated
  <2>2. FitsOfRecord' /\ RegistrationOfFit' /\ ManifestOfFit' /\ PredictionsOfFit'
    BY <1>b, <1>9 DEF GatesFail, FitsOfRecord, RegistrationOfFit, ManifestOfFit,
       PredictionsOfFit, Evaluated, Eligible
  <2> QED BY <1>a, <2>1, <2>2
<1>10. CASE RegisterArtifact
  <2>1. RegistrationOfFit'
    BY <1>b, <1>10 DEF RegisterArtifact, DumpArtifact, RegistrationOfFit, Evaluated,
       Eligible
  <2>2. FitsOfRecord' /\ FindingsOfRecord' /\ ManifestOfFit' /\ PredictionsOfFit'
    BY <1>b, <1>10 DEF RegisterArtifact, DumpArtifact, FitsOfRecord, FindingsOfRecord,
       ManifestOfFit, PredictionsOfFit, RegistrationOfFit, Evaluated, Eligible
  <2> QED BY <1>a, <2>1, <2>2
<1>11. CASE RegisterManifest
  <2>1. manifest'["candidate"] =
            [hash |-> artifact["candidate"], metrics |-> rec.metrics["candidate"],
             audit |-> rec.audit, torn |-> torn]
    BY <1>11 DEF RegisterManifest, WriteManifest
  <2>2. ASSUME ~torn
        PROVE  /\ artifact["candidate"] = rec.fit /\ rec.metrics["candidate"] = rec.fit
               /\ rec.audit = rec.fit /\ flaw[rec.fit] = "none"
    <3>1. artifact["candidate"] = rec.fit
      BY <1>11, <2>2 DEF RegisterManifest, RegistrationOfFit, FitsOfRecord
    <3>2. rec.metrics["candidate"] # 0 /\ rec.audit # 0
      BY <1>11 DEF RegisterManifest, RegistrationOfFit, FindingsOfRecord, Eligible
    <3>3. rec.metrics["candidate"] = rec.fit /\ rec.audit = rec.fit
      BY <2>2, <3>2 DEF FindingsOfRecord
    <3>4. flaw[rec.fit] \notin {"weak", "leaky"}
      BY <1>11, <3>3 DEF RegisterManifest, RegistrationOfFit, Eligible
    <3>5. rec.fit \in Versions
      BY <1>b, <3>2, <3>3 DEF Versions
    <3> QED BY <3>1, <3>3, <3>4, <3>5
  <2>3. ManifestOfFit'
    BY <1>11, <2>1, <2>2 DEF RegisterManifest, WriteManifest, ManifestOfFit
  <2>4. FitsOfRecord' /\ FindingsOfRecord' /\ RegistrationOfFit' /\ PredictionsOfFit'
    BY <1>11 DEF RegisterManifest, WriteManifest, FitsOfRecord, FindingsOfRecord,
       RegistrationOfFit, PredictionsOfFit, Evaluated, Eligible
  <2> QED BY <1>a, <2>3, <2>4
<1>12. CASE RecordRegistration
  <2>1. FindingsOfRecord'
    BY <1>b, <1>12 DEF RecordRegistration, FindingsOfRecord, RegistrationOfFit, Evaluated,
       Eligible
  <2>2. FitsOfRecord' /\ RegistrationOfFit' /\ ManifestOfFit' /\ PredictionsOfFit'
    BY <1>b, <1>12 DEF RecordRegistration, FitsOfRecord, RegistrationOfFit, ManifestOfFit,
       PredictionsOfFit, Evaluated, Eligible
  <2> QED BY <1>a, <2>1, <2>2
<1>13. CASE ChallengerArtifact
  <2>1. RegistrationOfFit'
    BY <1>b, <1>13 DEF ChallengerArtifact, DumpArtifact, RegistrationOfFit, Evaluated,
       Eligible
  <2>2. FitsOfRecord' /\ FindingsOfRecord' /\ ManifestOfFit' /\ PredictionsOfFit'
    BY <1>b, <1>13 DEF ChallengerArtifact, DumpArtifact, FitsOfRecord, FindingsOfRecord,
       ManifestOfFit, PredictionsOfFit, RegistrationOfFit, Evaluated, Eligible
  <2> QED BY <1>a, <2>1, <2>2
<1>14. CASE ChallengerManifest
  <2>1. manifest'["challenger"] =
            [hash |-> artifact["challenger"], metrics |-> rec.metrics["challenger"],
             audit |-> rec.audit, torn |-> torn]
    BY <1>14 DEF ChallengerManifest, WriteManifest
  <2>2. ASSUME ~torn
        PROVE  artifact["challenger"] = rec.metrics["challenger"]
    BY <1>14, <2>2 DEF ChallengerManifest, RegistrationOfFit, FitsOfRecord, FindingsOfRecord
  <2>3. ManifestOfFit'
    BY <1>14, <2>1, <2>2 DEF ChallengerManifest, WriteManifest, ManifestOfFit
  <2>4. FitsOfRecord' /\ FindingsOfRecord' /\ RegistrationOfFit' /\ PredictionsOfFit'
    BY <1>14 DEF ChallengerManifest, WriteManifest, FitsOfRecord, FindingsOfRecord,
       RegistrationOfFit, PredictionsOfFit, Evaluated, Eligible
  <2> QED BY <1>a, <2>3, <2>4
<1>15. CASE Kill
  BY <1>a, <1>b, <1>15 DEF Kill, FitsOfRecord, FindingsOfRecord, RegistrationOfFit,
     ManifestOfFit, PredictionsOfFit, Evaluated, Eligible
<1> QED BY <1>1, <1>2, <1>3, <1>4, <1>5, <1>6, <1>7, <1>8, <1>9, <1>10, <1>11, <1>12, <1>13,
           <1>14, <1>15 DEF Pipeline
LEMMA ValidationKeepsPipelineInv ==
    ASSUME PipelineInv, UNCHANGED pipelineVars
    PROVE  PipelineInv'
<1> USE DEF PipelineInv, pipelineVars
<1>1. PipelineTypeOK'
  BY DEF PipelineTypeOK, Upto
<1>2. FitsOfRecord' /\ FindingsOfRecord' /\ RegistrationOfFit' /\ ManifestOfFit' /\ PredictionsOfFit'
  BY DEF FitsOfRecord, FindingsOfRecord, RegistrationOfFit, ManifestOfFit, PredictionsOfFit,
         Evaluated, Eligible
<1> QED BY <1>1, <1>2

-----------------------------------------------------------------------------
(***************************************************************************)
(* The predictions of the experiment only move forward: evaluate writes    *)
(* those of a pipeline at least as new.                                    *)
(***************************************************************************)
LEMMA PredictionsMoveForward ==
    ASSUME PipelineInv, Pipeline
    PROVE  /\ tables["predictions"] \in Nat /\ tables'["predictions"] \in Nat
           /\ tables["predictions"] <= tables'["predictions"]
<1> USE DEF PipelineInv
<1>1. version \in Nat /\ "predictions" \in Tables
  BY GovernanceAssumption DEF PipelineTypeOK, Versions, Tables
<1>2. tables["predictions"] \in Nat
  BY <1>1 DEF PipelineTypeOK, Upto
<1>3. fits["candidate"] \in Nat
  BY <1>1 DEF PipelineTypeOK, Upto, Models
<1>4. CASE EvaluatePredictions
  <2>1. tables'["predictions"] = fits["candidate"]
    BY <1>1, <1>4 DEF EvaluatePredictions, WriteTable, PipelineTypeOK
  <2> QED BY <1>2, <1>3, <2>1 DEF PredictionsOfFit
<1>5. CASE StressTest
  <2>1. tables'["predictions"] = tables["predictions"]
    BY <1>1, <1>5 DEF StressTest, WriteTable, PipelineTypeOK
  <2> QED BY <1>2, <2>1
<1>6. CASE ~EvaluatePredictions /\ ~StressTest
  <2>1. tables' = tables
    BY <1>6 DEF Pipeline, Upgrade, DumpLogistic, DumpBoosting, RecordTraining, RecordEvaluation,
                AuditGroups, GatesFail, RegisterArtifact, RegisterManifest, RecordRegistration,
                ChallengerArtifact, ChallengerManifest, Kill, DumpArtifact, WriteManifest
  <2> QED BY <1>2, <2>1
<1> QED BY <1>4, <1>5, <1>6

LEMMA PipelineLeavesValidation ==
    ASSUME Pipeline
    PROVE  UNCHANGED validationVars
BY DEF Pipeline, validationVars, Upgrade, DumpLogistic, DumpBoosting, RecordTraining,
       EvaluatePredictions, RecordEvaluation, StressTest, AuditGroups, GatesFail,
       RegisterArtifact, RegisterManifest, RecordRegistration, ChallengerArtifact,
       ChallengerManifest, Kill, DumpArtifact, WriteManifest

LEMMA PipelineKeepsValidationInv ==
    ASSUME ValidationInv, Pipeline
    PROVE  ValidationInv'
<1>1. PipelineInv'
  BY PipelineKeepsInv DEF ValidationInv
<1>2. UNCHANGED validationVars
  BY PipelineLeavesValidation
<1>3. ReadSinceFrozen'
  BY <1>2, PredictionsMoveForward DEF ValidationInv, ReadSinceFrozen, validationVars
<1>4. PassedOnFrozenPredictions'
  BY <1>2 DEF ValidationInv, PassedOnFrozenPredictions, validationVars
<1> QED BY <1>1, <1>3, <1>4 DEF ValidationInv

(***************************************************************************)
(* A step of the validation.  To pass, the predictions must be the frozen  *)
(* ones again at the end, and so must have been all along.                 *)
(***************************************************************************)
LEMMA ValidationKeepsValidationInv ==
    ASSUME ValidationInv, Validation
    PROVE  ValidationInv'
<1>0. UNCHANGED pipelineVars
  BY DEF Validation, Freeze, Recompute, Diagnose, Decide, ValidationEnds
<1>1. PipelineInv'
  BY <1>0, ValidationKeepsPipelineInv DEF ValidationInv
<1>2. tables' = tables /\ tables["predictions"] \in Nat
  BY <1>0, GovernanceAssumption
     DEF pipelineVars, ValidationInv, PipelineInv, PipelineTypeOK, Upto, Tables, Versions
<1>3. CASE Freeze
  BY <1>1, <1>2, <1>3 DEF Freeze, ValidationInv, ReadSinceFrozen, PassedOnFrozenPredictions
<1>4. CASE Recompute
  <2>1. vread' = {tables["predictions"]} /\ (vok' => evidence.metrics \in vread')
    BY <1>4 DEF Recompute
  <2>2. evidence.prediction \in Nat /\ evidence.prediction <= tables["predictions"]
    BY <1>4 DEF Recompute, ValidationInv, ReadSinceFrozen
  <2>3. ReadSinceFrozen'
    BY <1>2, <1>4, <2>1, <2>2 DEF Recompute, ReadSinceFrozen
  <2> QED BY <1>1, <1>4, <2>3 DEF Recompute, ValidationInv, PassedOnFrozenPredictions
<1>5. CASE Diagnose
  <2>1. vread' = vread \cup {tables["predictions"]} /\ (vok' => vok)
    BY <1>5 DEF Diagnose
  <2>2. /\ evidence.prediction \in Nat /\ evidence.prediction <= tables["predictions"]
        /\ \A x \in vread : /\ x \in Nat
                            /\ evidence.prediction <= x /\ x <= tables["predictions"]
        /\ vok => evidence.metrics \in vread
    BY <1>5 DEF Diagnose, ValidationInv, ReadSinceFrozen
  <2>3. ReadSinceFrozen'
    BY <1>2, <1>5, <2>1, <2>2 DEF Diagnose, ReadSinceFrozen
  <2> QED BY <1>1, <1>5, <2>3 DEF Diagnose, ValidationInv, PassedOnFrozenPredictions
<1>6. CASE Decide
  <2>1. ReadSinceFrozen'
    BY <1>2, <1>6 DEF Decide, ValidationInv, ReadSinceFrozen
  <2>2. ASSUME verdict' = "passed"
        PROVE  vread = {evidence.prediction} /\ evidence.prediction = evidence.metrics
    <3>1. vok /\ tables["predictions"] = evidence.prediction
      BY <1>6, <2>2 DEF Decide, Reproducible
    <3>2. \A x \in vread : x = evidence.prediction
      BY <1>2, <1>6, <3>1 DEF Decide, ValidationInv, ReadSinceFrozen
    <3>3. evidence.metrics \in vread
      BY <1>6, <3>1 DEF Decide, ValidationInv, ReadSinceFrozen
    <3> QED BY <3>2, <3>3
  <2>3. PassedOnFrozenPredictions'
    BY <1>6, <2>2 DEF Decide, PassedOnFrozenPredictions
  <2> QED BY <1>1, <2>1, <2>3 DEF ValidationInv
<1>7. CASE ValidationEnds
  BY <1>1, <1>2, <1>7 DEF ValidationEnds, ValidationInv, ReadSinceFrozen, PassedOnFrozenPredictions
<1> QED BY <1>3, <1>4, <1>5, <1>6, <1>7 DEF Validation

-----------------------------------------------------------------------------
(***************************************************************************)
(* The theorems.                                                           *)
(***************************************************************************)
LEMMA InitEstablishes ==
    ASSUME Init
    PROVE  ValidationInv
<1> USE DEF Init, NoMetrics, NoRecord, NoManifest, Models, Tables
<1>1. version \in Versions /\ version \in Nat /\ MaxVersion \in Nat \ {0}
  BY GovernanceAssumption DEF Versions
<1>2. PipelineTypeOK
  <2>1. flaw \in [Versions -> {"none", "weak", "leaky"}]
    BY GovernanceAssumption
  <2>2. rec \in [status : Statuses, fit : Upto, metrics : [Models -> Upto], audit : Upto]
    <3>1. NoMetrics \in [Models -> Upto] /\ 0 \in Upto
      BY <1>1 DEF Upto
    <3>2. rec = [status |-> "none", fit |-> 0, metrics |-> NoMetrics, audit |-> 0]
      OBVIOUS
    <3> HIDE DEF NoMetrics
    <3> QED BY <3>1, <3>2 DEF Statuses
  <2>3. manifest \in [Models -> [hash : Upto, metrics : Upto, audit : Upto, torn : BOOLEAN]]
    BY <1>1 DEF Upto
  <2> QED BY <1>1, <2>1, <2>2, <2>3 DEF PipelineTypeOK, Upto, Jobs
<1>3. FitsOfRecord /\ FindingsOfRecord /\ RegistrationOfFit /\ ManifestOfFit /\ PredictionsOfFit
  BY DEF FitsOfRecord, FindingsOfRecord, RegistrationOfFit, ManifestOfFit, PredictionsOfFit,
         Evaluated
<1>4. ReadSinceFrozen /\ PassedOnFrozenPredictions
  BY DEF ReadSinceFrozen, PassedOnFrozenPredictions
<1> QED BY <1>2, <1>3, <1>4 DEF PipelineInv, ValidationInv

THEOREM GovernanceInvariant == Spec => []ValidationInv
<1>1. Init => ValidationInv
  BY InitEstablishes
<1>2. ValidationInv /\ [Next]_govVars => ValidationInv'
  <2> SUFFICES ASSUME ValidationInv, [Next]_govVars
               PROVE  ValidationInv'
    OBVIOUS
  <2>1. CASE Pipeline
    BY <2>1, PipelineKeepsValidationInv
  <2>2. CASE Validation
    BY <2>2, ValidationKeepsValidationInv
  <2>3. CASE UNCHANGED govVars
    <3>1. PipelineInv'
      BY <2>3, ValidationKeepsPipelineInv DEF ValidationInv, govVars
    <3> QED BY <2>3, <3>1
            DEF ValidationInv, ReadSinceFrozen, PassedOnFrozenPredictions, govVars,
                pipelineVars, validationVars
  <2> QED BY <2>1, <2>2, <2>3 DEF Next
<1> QED BY <1>1, <1>2, PTL DEF Spec

\* registry.py: the metrics in the manifest of a model that can be loaded are
\* those of the pipeline that is loaded, whatever was retrained, killed and
\* registered again, unless it was registered over a killed training.
THEOREM MetricsAreTheModels == Spec => []MetricsOfTheModel
<1>1. ValidationInv => MetricsOfTheModel
  BY DEF ValidationInv, PipelineInv, ManifestOfFit, MetricsOfTheModel, Loadable
<1> QED BY <1>1, GovernanceInvariant, PTL

\* The gates of registry.py: with the same exception, a candidate that can be
\* loaded was audited itself, misses no threshold and failed no control.
THEOREM CandidatesAreFit == Spec => []CandidateIsFit
<1>1. ValidationInv => CandidateIsFit
  BY DEF ValidationInv, PipelineInv, ManifestOfFit, CandidateIsFit, Loadable
<1> QED BY <1>1, GovernanceInvariant, PTL

\* model_validation/: a validation beside which evaluate replaced the
\* predictions, at whatever moment, does not pass.
THEOREM PassesAreOnFrozenPredictions == Spec => []PassedOnFrozenPredictions
<1>1. ValidationInv => PassedOnFrozenPredictions
  BY DEF ValidationInv
<1> QED BY <1>1, GovernanceInvariant, PTL
=============================================================================
