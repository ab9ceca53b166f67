SPECIFICATION StoreSpec
CONSTANTS
    Runs <- MCRuns
    SuiteOrder <- MCSuiteOrder
    Tables = {"contracts", "payments"}
    MaxCode = 3
    Valid <- MCValid
INVARIANT NoPartialArtifacts
