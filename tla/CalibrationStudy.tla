-------------------------- MODULE CalibrationStudy --------------------------
(***************************************************************************)
(* credlens monitor: how alert thresholds are calibrated on resamples of   *)
(* the reference (monitoring/thresholds.py), and the studies that measure  *)
(* how often batches without any drift raise an alert, at one or several   *)
(* batch sizes, and how often perturbed ones do                            *)
(* (monitoring/calibration_study.py).                                      *)
(*                                                                         *)
(* What a random sample gives is a choice: a level of PSI per feature      *)
(* (drift.py), the distance of its ROC-AUC from the reference, or one      *)
(* class only.  Score, prevalence and composition are checked the way the  *)
(* ROC-AUC is, one statistic against its own null distribution, and are    *)
(* left out; so is the rounding of the cutoffs written to disk.            *)
(***************************************************************************)
EXTENDS Integers, Sequences, FiniteSets, FiniteSetsExt

CONSTANTS
    Features,           \* the features of the model
    MaxLevel,           \* bound: levels of a statistic
    NResamples,         \* resamples of a null distribution
    NBatches,           \* batches of a study
    Sizes,              \* batch sizes studied
    MinSample,          \* min_sample_size_for_alert
    ReviewPercent, MaterialPercent

CalibrationAssumption ==
    /\ IsFiniteSet(Features) /\ Features # {}
    /\ {MaxLevel, MinSample} \cup Sizes \subseteq Nat /\ {NResamples, NBatches} \subseteq Nat \ {0}
    /\ ReviewPercent \in 0..100 /\ MaterialPercent \in ReviewPercent..100

VARIABLES
    marginal,           \* cutoffs of one feature taken by itself, and of the ROC-AUC
    familyWise,         \* the resamples behind the family-wise threshold
    study,              \* the running study
    batch,              \* its last batch
    counts              \* what its report will divide by the number of batches

calibrationVars == <<marginal, familyWise, study, batch, counts>>

Levels == 0..MaxLevel
OneClass == -1          \* a sample without both classes has no ROC-AUC
NoBatch == [size |-> 0]
NoStudy == [kind |-> "none"]
NoCounts == [batches |-> 0, marginal |-> 0, anyMarginal |-> 0, review |-> 0, material |-> 0]

------------------------------------------------------------------------------
(* numpy's percentile, between two neighbours in the sorted sample; 100     *)
(* times its value, so that it is a whole number.                           *)
Smallest(s, k) ==
    CHOOSE x \in Levels : /\ Cardinality({i \in DOMAIN s : s[i] < x}) < k
                          /\ Cardinality({i \in DOMAIN s : s[i] <= x}) >= k
Percentile(s, percent) ==
    LET at == (Len(s) - 1) * percent
        low == Smallest(s, at \div 100 + 1)
    IN  IF at % 100 = 0 THEN 100 * low
        ELSE 100 * low + (at % 100) * (Smallest(s, at \div 100 + 2) - low)

(* An empty null distribution counts as one of a single zero.               *)
Cutoffs(null) ==
    LET sample == IF null = <<>> THEN <<0>> ELSE null
    IN  [review |-> Percentile(sample, ReviewPercent), material |-> Percentile(sample, MaterialPercent)]

ClassifyState(observed, cutoffs, size) ==
    IF size < MinSample THEN "insufficient_sample"
    ELSE IF 100 * observed >= cutoffs.material THEN "material_deviation"
    ELSE IF 100 * observed >= cutoffs.review THEN "review"
    ELSE "within_reference_variability"

(* Any other state counts as a fired signal, a sample too small included.   *)
Fired(state) == state # "within_reference_variability"

(* The statistic of a resample: the largest PSI of all features.            *)
MaxPsi(psi) == Max({psi[f] : f \in Features})
OnePsi(psi) == psi[CHOOSE f \in Features : TRUE]    \* a slip: one feature, as for the marginal cutoffs
FamilyStatistic(psi) == MaxPsi(psi)
FamilyCutoffs(resamples) == Cutoffs([i \in DOMAIN resamples |-> FamilyStatistic(resamples[i])])

------------------------------------------------------------------------------
CalibrationInit ==
    /\ marginal = [psi |-> Cutoffs(<<>>), auc |-> Cutoffs(<<>>)]
    /\ familyWise = <<>> /\ study = NoStudy /\ batch = NoBatch /\ counts = NoCounts

(* calibrate_thresholds(): the PSI of one feature drawn per resample; a     *)
(* resample of one class is left out of the null of the ROC-AUC.            *)
Calibrate ==
    /\ study = NoStudy
    /\ \E psi \in [1..NResamples -> Levels], auc \in [1..NResamples -> {OneClass, MaxLevel}] :
          marginal' = [psi |-> Cutoffs(psi),
                       auc |-> Cutoffs(SelectSeq(auc, LAMBDA x : x # OneClass))]
    /\ study' = [kind |-> "calibrated"]
    /\ UNCHANGED <<familyWise, batch, counts>>

(* A study calibrates its family-wise threshold itself, at its batch size;  *)
(* the marginal cutoffs stay those of the file, whatever their batch size.  *)
(* The sensitivity analysis takes the family-wise threshold of the file     *)
(* too: its resamples are those calibrate-reference drew, at a batch size   *)
(* that may be another.  They are any resamples here, and no property       *)
(* judges a perturbed batch by them.                                        *)
BeginStudy(kind, size) ==
    /\ study.kind = "calibrated"
    /\ \E resamples \in [1..NResamples -> [Features -> Levels]] : familyWise' = resamples
    /\ study' = [kind |-> kind, size |-> size]
    /\ UNCHANGED <<marginal, batch, counts>>

(* run_false_alert_rate_study(): an unperturbed batch against both.         *)
MarginalSignals(psi, auc) ==
    {f \in Features : Fired(ClassifyState(psi[f], marginal.psi, study.size))}
    \cup (IF auc # OneClass /\ Fired(ClassifyState(auc, marginal.auc, study.size)) THEN {"auc"} ELSE {})

RunBatch(psi, auc) ==
    /\ study.kind = "false_alerts" /\ counts.batches < NBatches
    /\ LET state == ClassifyState(MaxPsi(psi), FamilyCutoffs(familyWise), study.size)
           signals == MarginalSignals(psi, auc)
       IN  /\ batch' = [size |-> study.size, psi |-> psi, state |-> state]
           /\ counts' = [batches     |-> counts.batches + 1,
                         marginal    |-> counts.marginal + Cardinality(signals),
                         anyMarginal |-> counts.anyMarginal + (IF signals # {} THEN 1 ELSE 0),
                         review      |-> counts.review + (IF Fired(state) THEN 1 ELSE 0),
                         material    |-> counts.material + (IF state = "material_deviation" THEN 1 ELSE 0)]
    /\ UNCHANGED <<marginal, familyWise, study>>

(* run_sensitivity_analysis(): a perturbed batch against the family-wise    *)
(* threshold; every strength of the perturbation has a row of its own.      *)
RunPerturbed(psi) ==
    /\ study.kind = "sensitivity" /\ counts.batches < NBatches
    /\ LET state == ClassifyState(MaxPsi(psi), FamilyCutoffs(familyWise), study.size)
       IN  /\ batch' = [size |-> study.size, psi |-> psi, state |-> state]
           /\ counts' = [counts EXCEPT !.batches = @ + 1,
                                       !.review = @ + (IF Fired(state) THEN 1 ELSE 0),
                                       !.material = @ + (IF state = "material_deviation" THEN 1 ELSE 0)]
    /\ UNCHANGED <<marginal, familyWise, study>>

(* The rates go to the caller; the next size of a study starts anew.        *)
Report ==
    /\ study.kind \in {"false_alerts", "sensitivity"} /\ counts.batches = NBatches
    /\ study' = [kind |-> "calibrated"]
    /\ familyWise' = <<>> /\ batch' = NoBatch /\ counts' = NoCounts
    /\ UNCHANGED marginal

CalibrationNext ==
    \/ Calibrate
    \/ \E size \in Sizes : BeginStudy("false_alerts", size) \/ BeginStudy("sensitivity", size)
    \/ \E psi \in [Features -> Levels], auc \in {OneClass, MaxLevel} : RunBatch(psi, auc)
    \/ \E psi \in [Features -> Levels] : RunPerturbed(psi)
    \/ Report

------------------------------------------------------------------------------
(* calibration_study.py: what the family-wise threshold is for.  A batch    *)
(* without drift could as well have been one of the resamples.  Whichever   *)
(* of them it was, when no two have the same largest PSI only so many could *)
(* have raised any of the checks as the percentile leaves above it.  For    *)
(* the marginal cutoffs there is no such bound.                             *)
Pool == Append(familyWise, batch.psi)
Without(i) == SubSeq(Pool, 1, i - 1) \o SubSeq(Pool, i + 1, Len(Pool))
Raised(state) == {i \in DOMAIN Pool : ClassifyState(MaxPsi(Pool[i]), FamilyCutoffs(Without(i)), study.size) \in state}
AtMost(percent) == NResamples - ((NResamples - 1) * percent) \div 100
FamilyWiseRateIsBounded ==
    (/\ study.kind = "false_alerts" /\ batch # NoBatch /\ batch.size >= MinSample
     /\ Cardinality({MaxPsi(Pool[i]) : i \in DOMAIN Pool}) = Len(Pool)) =>
            /\ Cardinality(Raised({"review", "material_deviation"})) <= AtMost(ReviewPercent)
            /\ Cardinality(Raised({"material_deviation"})) <= AtMost(MaterialPercent)
            /\ Fired(batch.state) => Len(Pool) \in Raised({"review", "material_deviation"})
==============================================================================
