---------------------------- MODULE FeatureAudit ----------------------------
(***************************************************************************)
(* Redundant features of the credit model: the collinearity audit and the  *)
(* elimination by variance inflation that builds a reduced challenger      *)
(* (model_validation/collinearity.py, reporting.py), the classification of *)
(* coefficients by the stability of their sign (coefficient_audit.py), and *)
(* the reason codes a local explanation names under a governance policy    *)
(* (modeling/reason_code_policy.py, interpretability.py).                  *)
(*                                                                         *)
(* Redundancy is given by the groups of features that explain one another: *)
(* a feature is as inflated as the worst group that is there as a whole,   *)
(* and Exact stands for a group whose members determine each other.        *)
(* Resampled signs and contributions are choices.                          *)
(***************************************************************************)
EXTENDS Integers, Sequences, FiniteSets, SequencesExt, FiniteSetsExt

CONSTANTS
    FeatureColumns,     \* the features in the order of the columns
    Redundancies,       \* the sets of groups considered, each with its inflation (vif)
    Exact,              \* the infinite inflation of an exact combination
    ActionThreshold,    \* vif_action_threshold
    MinFeatures,        \* the elimination stops there
    UnstablePercent,    \* sign_flip_rate_unstable_threshold
    Tier,               \* the policy: the tier of every feature
    TopK,               \* reason codes of an explanation
    Contributions       \* bound: contributions of a feature to a score

FeatureAuditAssumption ==
    /\ IsFiniteSet(Range(FeatureColumns)) /\ DOMAIN Tier = Range(FeatureColumns)
    /\ {Exact, ActionThreshold, MinFeatures, UnstablePercent, TopK} \subseteq Nat
    /\ FeatureColumns \in Seq(Range(FeatureColumns))
    /\ ActionThreshold <= Exact /\ Exact > 1
    /\ \A explained \in Redundancies : \A g \in explained : g.vif \in 1..Exact

VARIABLES
    groups,             \* how the features of the training set explain each other
    remaining,          \* features still in, in column order
    removed,            \* the steps of the elimination
    stage,              \* "idle", "reducing" or "reduced"
    output              \* what the last command that changes no model said

featureVars == <<groups, remaining, removed, stage, output>>

None == [command |-> "none"]

------------------------------------------------------------------------------
(* compute_vif() of the features S, the worst first, ties in column order.  *)
Vif(f, S) == Max({1} \cup {g.vif : g \in {h \in groups : f \in h.members /\ h.members \subseteq S}})
FullVif(f, S) == Vif(f, Range(FeatureColumns))      \* a slip: the table is not computed again
InflationOf(f, S) == Vif(f, S)
Worst(columns) ==
    LET inflation(i) == InflationOf(columns[i], Range(columns))
    IN  CHOOSE i \in DOMAIN columns :
            \A j \in DOMAIN columns : inflation(j) < inflation(i) \/ (inflation(j) = inflation(i) /\ i <= j)

FeatureInit ==
    /\ groups \in Redundancies
    /\ remaining = FeatureColumns /\ removed = <<>> /\ stage = "idle"
    /\ output = None

(* run_collinearity_audit(): of all features, whatever the model uses.      *)
AuditCollinearity ==
    /\ output' = [command |-> "collinearity",
                  above |-> {f \in Range(FeatureColumns) : Vif(f, Range(FeatureColumns)) >= ActionThreshold}]
    /\ UNCHANGED <<groups, remaining, removed, stage>>

(* build_reduced_experiment(): iteratively_reduce_by_vif(), one removal at *)
(* a time; a model is fitted again only if something was removed.           *)
BeginReduction ==
    /\ stage = "idle" /\ stage' = "reducing"
    /\ remaining' = FeatureColumns /\ removed' = <<>>
    /\ UNCHANGED <<groups, output>>

WorstIsInflated == InflationOf(remaining[Worst(remaining)], Range(remaining)) >= ActionThreshold

RemoveWorst ==
    /\ stage = "reducing" /\ Len(remaining) > MinFeatures /\ WorstIsInflated
    /\ LET i == Worst(remaining)
       IN  /\ removed' = Append(removed, [feature |-> remaining[i],
                                          vif |-> InflationOf(remaining[i], Range(remaining))])
           /\ remaining' = RemoveAt(remaining, i)
    /\ UNCHANGED <<groups, stage, output>>

FitReduced ==
    /\ stage = "reducing" /\ (Len(remaining) <= MinFeatures \/ ~WorstIsInflated)
    /\ stage' = IF removed = <<>> THEN "idle" ELSE "reduced"
    /\ UNCHANGED <<groups, remaining, removed, output>>

------------------------------------------------------------------------------
(* classify_coefficients(): the first of the reasons that applies.  The     *)
(* language says "consistently" in all but three of the categories.         *)
Category(f, S, flips, foldFlips, changes, small) ==
    IF flips > UnstablePercent THEN "unstable_direction"
    ELSE IF Vif(f, S) >= ActionThreshold THEN "redundant"
    ELSE IF changes THEN "sensitive_to_regularization"
    ELSE IF small THEN "low_magnitude"
    ELSE IF flips > 0 \/ foldFlips > 0 THEN "not_interpretable_individually"
    ELSE "stable_direction"
SaysConsistently(category) ==
    category \notin {"unstable_direction", "redundant", "not_interpretable_individually"}

ClassifyCoefficient ==
    /\ stage \in {"idle", "reduced"}
    /\ \E f \in Range(remaining), flips \in {0, UnstablePercent, 100}, foldFlips \in {0, 100},
          changes, small \in BOOLEAN :
          LET category == Category(f, Range(remaining), flips, foldFlips, changes, small)
          IN  output' = [command |-> "coefficients", feature |-> f, category |-> category,
                        consistently |-> SaysConsistently(category)]
    /\ UNCHANGED <<groups, remaining, removed, stage>>

(* _reason_codes_from_pairs(): ranked by the size of the contribution, ties *)
(* in column order; the policy drops features before the ranking is cut,    *)
(* and without a policy file nothing is dropped.                            *)
Size(c) == IF c < 0 THEN -c ELSE c
Before(contribution, i, j) ==
    LET a == Size(contribution[FeatureColumns[i]])
        b == Size(contribution[FeatureColumns[j]])
    IN  a > b \/ (a = b /\ i < j)
Ranked(contribution, eligible) ==
    LET places == {i \in DOMAIN FeatureColumns : FeatureColumns[i] \in eligible}
        ranking == SetToSortSeq(places, LAMBDA i, j : Before(contribution, i, j))
    IN  [k \in DOMAIN ranking |-> FeatureColumns[ranking[k]]]
Governed == {f \in Range(FeatureColumns) : Tier[f] \in {"allowed", "conditional"}}
Cut(ranking) == SubSeq(ranking, 1, IF Len(ranking) < TopK THEN Len(ranking) ELSE TopK)

Explain ==
    /\ stage = "idle"
    /\ \E contribution \in [Range(FeatureColumns) -> Contributions],
          eligible \in {Governed, Range(FeatureColumns)} :
          output' = [command |-> "explain", codes |-> Cut(Ranked(contribution, eligible))]
    /\ UNCHANGED <<groups, remaining, removed, stage>>

FeatureNext == AuditCollinearity \/ BeginReduction \/ RemoveWorst \/ FitReduced \/ ClassifyCoefficient \/ Explain

------------------------------------------------------------------------------
(* collinearity.py: what an elimination may cost.  A feature removed as an  *)
(* exact combination of others can be computed from what is kept, together  *)
(* with what was removed for a finite inflation: no group is emptied of     *)
(* what it says, however the groups overlap.                                *)
Completed(S) ==
    S \cup UNION {g.members : g \in {h \in groups : h.vif = Exact /\ Cardinality(h.members \ S) = 1}}
Determined(S) ==
    LET after[n \in 0..Len(FeatureColumns)] == IF n = 0 THEN S ELSE Completed(after[n - 1])
    IN  after[Len(FeatureColumns)]
RemovedFor(exact) == {removed[i].feature : i \in {j \in DOMAIN removed : (removed[j].vif = Exact) = exact}}
NothingLostByReduction ==
    stage = "reduced" => RemovedFor(TRUE) \subseteq Determined(Range(remaining) \cup RemovedFor(FALSE))
==============================================================================
