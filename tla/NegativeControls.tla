-------------------------- MODULE NegativeControls --------------------------
(***************************************************************************)
(* The permutation controls of an independent validation:                   *)
(* model_validation/negative_controls.py, permutation_audit.py and the      *)
(* independent ROC-AUC of discrimination.py.                                *)
(*                                                                         *)
(* Control 1 shuffles the validation labels against frozen scores; control  *)
(* 2 shuffles the training labels, fits again and scores the untouched      *)
(* validation set.  Each run draws its shuffles one by one, then judges.    *)
(* What a seed shuffles to is a choice.  An AUC is kept as the integer      *)
(* AUC * 2 * n_pos * n_neg, and every test is cleared of its fractions and  *)
(* roots; rounding of floating point numbers is left out.                   *)
(***************************************************************************)
EXTENDS Integers, Sequences, FiniteSets

CONSTANTS
    Scores,             \* the frozen score vectors considered
    NPermutations,      \* n_permutations of the configuration
    AlphaPercent,       \* alpha, in percent
    Sigma,              \* centering_sigma_multiplier
    Ratio,              \* amplitude_se_ratio_max; the minimum is its inverse
    RefitAucs           \* bound: the AUCs a refit can reach, scaled like the others

NegativeControlsAssumption ==
    /\ NPermutations \in Nat \ {0} /\ AlphaPercent \in 1..100 /\ Sigma \in Nat /\ Ratio \in Nat \ {0}
    /\ Scores \subseteq Seq(Int) /\ RefitAucs \subseteq Int

VARIABLES
    scores,             \* the frozen predictions of the validation set
    labels,             \* its labels
    control,            \* the running control, or "none"
    shuffles,           \* the label vectors drawn so far
    aucs,               \* aucs[1]: of the model; aucs[i + 1]: of shuffle i
    report              \* what the last control concluded

controlVars == <<scores, labels, control, shuffles, aucs, report>>

NoReport == [control |-> "none"]
Rows == 1..Len(scores)
Positives(y) == {i \in Rows : y[i] = 1}
Negatives(y) == {i \in Rows : y[i] = 0}

------------------------------------------------------------------------------
(* The sum of a sequence.                                                   *)
Sum(s) ==
    LET upTo[n \in 0..Len(s)] == IF n = 0 THEN 0 ELSE upTo[n - 1] + s[n]
    IN  upTo[Len(s)]
SumOfSquares(s) == Sum([i \in 1..Len(s) |-> s[i] * s[i]])

(* independent_roc_auc(): the sum of the ranks of the positives, tied       *)
(* scores sharing the average of their ranks.                               *)
TwiceRank(i) ==
    2 * Cardinality({j \in Rows : scores[j] < scores[i]}) + Cardinality({j \in Rows : scores[j] = scores[i]}) + 1
FirstRank(i) == 2 * Cardinality({j \in Rows : scores[j] < scores[i]}) + 2   \* a slip: ties take the least rank
AverageRank(i) == TwiceRank(i)
RocAuc(y) ==
    LET n == Cardinality(Positives(y))
    IN  Sum([i \in Rows |-> IF y[i] = 1 THEN AverageRank(i) ELSE 0]) - n * (n + 1)

NPos == Cardinality(Positives(labels))
NNeg == Cardinality(Negatives(labels))
Null == Tail(aucs)

(* n(n-1) times the sample variance; a sample of one has none.              *)
Spread(s) == Len(s) * SumOfSquares(s) - Sum(s) * Sum(s)

(* centering_test(): |mean - 1/2| within Sigma standard errors of the mean; *)
(* a null distribution without spread counts as centered.                   *)
Centered(s) ==
    LET offset == 2 * Sum(s) - Len(s) * 2 * NPos * NNeg
    IN  Spread(s) = 0 \/ offset * offset * (Len(s) - 1) <= 4 * Sigma * Sigma * Spread(s)

(* amplitude_test(): the spread against the closed form of                  *)
(* theoretical_null_auc_se(), (n_pos + n_neg) / (12 n_pos n_neg).           *)
WithinAmplitude(s) ==
    LET observed == 3 * Spread(s)
        theory == Len(s) * (Len(s) - 1) * NPos * NNeg * (NPos + NNeg)
    IN  observed <= Ratio * Ratio * theory /\ observed * Ratio * Ratio >= theory /\ theory > 0

(* The empirical p-value counts the model itself, and ties against it.      *)
AtOrAbove(real, null) == Cardinality({i \in DOMAIN null : null[i] >= real})
Above(real, null) == Cardinality({i \in DOMAIN null : null[i] > real}) - 1  \* a slip: k / n instead of (k + 1) / (n + 1)
NAtOrAbove(real, null) == AtOrAbove(real, null)
PValueOk(real, null) == 100 * (NAtOrAbove(real, null) + 1) <= AlphaPercent * (Len(null) + 1)

(* detect_duplicate_permutations(): two shuffles that are the same.         *)
Duplicates == {i \in DOMAIN shuffles : \E j \in 1..(i - 1) : shuffles[j] = shuffles[i]}

------------------------------------------------------------------------------
TwoClasses(y) == Positives(y) # {} /\ Negatives(y) # {}

ControlInit ==
    /\ scores \in Scores
    /\ labels \in [Rows -> {0, 1}]
    /\ control = "none" /\ shuffles = <<>> /\ aucs = <<>>
    /\ report = NoReport

(* Frozen labels of one class are refused.                                  *)
RefuseOneClass ==
    /\ control = "none" /\ report = NoReport /\ ~TwoClasses(labels)
    /\ report' = [control |-> "refused"]
    /\ UNCHANGED <<scores, labels, control, shuffles, aucs>>

BeginScoreLabel ==
    /\ control = "none" /\ report = NoReport /\ TwoClasses(labels)
    /\ control' = "score_label"
    /\ aucs' = <<RocAuc(labels)>>
    /\ shuffles' = <<>>
    /\ UNCHANGED <<scores, labels, report>>

(* A shuffle moves the labels, never their number.                          *)
Shuffled == {y \in [Rows -> {0, 1}] : Cardinality(Positives(y)) = NPos}

PermuteScoreLabel ==
    /\ control = "score_label" /\ Len(shuffles) < NPermutations
    /\ \E y \in Shuffled :
          /\ shuffles' = Append(shuffles, y)
          /\ aucs' = Append(aucs, RocAuc(y))
    /\ UNCHANGED <<scores, labels, control, report>>

JudgeScoreLabel ==
    /\ control = "score_label" /\ Len(shuffles) = NPermutations
    /\ report' = [control |-> control, passed |-> /\ Duplicates = {}
                                                  /\ PValueOk(Head(aucs), Null)
                                                  /\ Centered(Null)
                                                  /\ WithinAmplitude(Null)]
    /\ control' = "none"
    /\ UNCHANGED <<scores, labels, shuffles, aucs>>

(* Control 2 reads the AUC of the registered model from its record.  The    *)
(* same training labels fit the same model again.                           *)
BeginPipelineRetrain ==
    /\ control = "none" /\ report.control = "score_label"
    /\ control' = "pipeline_retrain"
    /\ aucs' = <<RocAuc(labels)>>
    /\ shuffles' = <<>>
    /\ UNCHANGED <<scores, labels, report>>

Refit(y) ==
    IF \E i \in DOMAIN shuffles : shuffles[i] = y
    THEN {aucs[i + 1] : i \in {j \in DOMAIN shuffles : shuffles[j] = y}}
    ELSE RefitAucs

PermuteTraining ==
    /\ control = "pipeline_retrain" /\ Len(shuffles) < NPermutations
    /\ \E y \in Shuffled : \E auc \in Refit(y) :
          /\ shuffles' = Append(shuffles, y)
          /\ aucs' = Append(aucs, auc)
    /\ UNCHANGED <<scores, labels, control, report>>

JudgePipelineRetrain ==
    /\ control = "pipeline_retrain" /\ Len(shuffles) = NPermutations
    /\ report' = [control |-> control, passed |-> /\ Duplicates = {}
                                                  /\ PValueOk(Head(aucs), Null)
                                                  /\ Centered(Null)]
    /\ control' = "none"
    /\ UNCHANGED <<scores, labels, shuffles, aucs>>

ControlNext ==
    \/ RefuseOneClass \/ BeginScoreLabel \/ PermuteScoreLabel \/ JudgeScoreLabel
    \/ BeginPipelineRetrain \/ PermuteTraining \/ JudgePipelineRetrain

------------------------------------------------------------------------------
(* discrimination.py: the rank-sum estimate is the Mann-Whitney one.  For   *)
(* the model and for every shuffle it counts the pairs of a positive and a  *)
(* negative that the scores order, and half of those they tie.              *)
Compared(i, j) == IF scores[i] > scores[j] THEN 2 ELSE IF scores[i] = scores[j] THEN 1 ELSE 0
Concordance(y) ==
    Sum([i \in Rows |->
            Sum([j \in Rows |-> IF i \in Positives(y) /\ j \in Negatives(y) THEN Compared(i, j) ELSE 0])])
RankSumIsConcordance ==
    control = "score_label" =>
        /\ aucs[1] = Concordance(labels)
        /\ \A i \in DOMAIN shuffles : aucs[i + 1] = Concordance(shuffles[i])

(* negative_controls.py: an exact permutation test.  If the labels mean     *)
(* nothing, each of the label vectors could as well have been the real one; *)
(* whatever was drawn, at most a share of alpha of them would have been     *)
(* found significant, and a control that passes is one of that share.       *)
Others(i) == SubSeq(aucs, 1, i - 1) \o SubSeq(aucs, i + 1, Len(aucs))
Significant == {i \in DOMAIN aucs : PValueOk(aucs[i], Others(i))}
PassIsRare ==
    control = "none" /\ report.control \in {"score_label", "pipeline_retrain"} =>
        /\ 100 * Cardinality(Significant) <= AlphaPercent * Len(aucs)
        /\ report.passed => 1 \in Significant
==============================================================================
