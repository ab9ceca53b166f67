SPECIFICATION Spec
CONSTANTS
    Runs <- MCRuns
    Suite <- MCRuns
    Tables = {"contracts", "payments"}
    MaxCode = 2
    Valid <- MCValid
    MaxBuilds = 2
INVARIANT TrustedBuildIsComplete
