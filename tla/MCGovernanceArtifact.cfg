SPECIFICATION Spec
CONSTANTS
    MaxVersion = 2
    Flaws <- MCFlaws
INVARIANT
    ArtifactHashMatches
