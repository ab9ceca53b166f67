SPECIFICATION Spec
CONSTANTS
    MaxVersion = 2
    Flaws <- MCFlaws
INVARIANTS
    MetricsOfTheModel
    CandidateIsFit
    PassedOnFrozenPredictions
