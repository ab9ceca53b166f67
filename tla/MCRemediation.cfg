SPECIFICATION Spec
CONSTANTS
    MaxFits = 1
    MaxCommands = 1
    MaxRecords = 1
    Scores = {1}
    Audits <- MCAudits
    Infinite = 100
    ActionThreshold = 10
    Tolerance = 1
    MaxFlipRate = 5
INVARIANT KeptFeaturesAreSound
CHECK_DEADLOCK FALSE
