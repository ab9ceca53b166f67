SPECIFICATION Spec
CONSTANTS
    RawSources <- MCRawSources
    RawRegistries <- MCRawRegistries
    RawKind <- MCRawKind
    RawMaxRetries = 2
    RawLastDay = 6
    RawPeriodDays = 3
    RawWindowDays = 2
    RawMaxVersion = 2
    OriginCustomers = 2
    OriginMaxApplications = 2
    OriginPeriodEnd = 20
    OriginArrivals = {0, 13}
    OriginOffsets = {0, 16}
    OriginLoans <- MCOriginLoans
    OriginDelays <- MCOriginDelays
    OriginMaxTerm = 4
    OriginRateNum = 1
    OriginRateDen = 8
    OriginMonthDays <- MCOriginMonthDays
    SuiteCustomers = 2
    SuiteMonths = 2
    SuiteTerm = 2
    SuiteMaxSeeds = 2
    SuiteConfigs <- MCScenarios
    AnalysisMaxBuilds = 2
    AnalysisMaxSweeps = 2
    AnalysisMaxRuns = 2
    FeatureColumns <- MCFeatureColumns
    FeatureTier <- MCFeatureTier
    FeatureRedundancies <- MCFeatureGroups
    FeatureExact = 100
    FeatureActionThreshold = 10
    FeatureMinFeatures = 1
    FeatureUnstablePercent = 20
    FeatureTopK = 2
    FeatureContributions <- MCFeatureContributions
    ControlScores <- MCControlScores
    ControlNPermutations = 3
    ControlAlphaPercent = 50
    ControlSigma = 3
    ControlRatio = 3
    ControlRefitAucs = {3, 4, 6}
    RemediationMaxFits = 2
    RemediationMaxCommands = 2
    RemediationMaxRecords = 1
    RemediationScores = {1, 3}
    RemediationTolerance = 1
    RemediationAudits <- MCReducedAudits
    RemediationMaxFlipRate = 20
    RemediationInfinite = 100
    RemediationActionThreshold = 10
    MonitoringMaxBuilds = 2
    MonitoringMaxEdits = 2
    MonitoringMaxRuns = 1
    CalibrationFeatures = {"f1", "f2"}
    CalibrationMaxLevel = 2
    CalibrationNResamples = 2
    CalibrationNBatches = 1
    CalibrationSizes = {20, 500}
    CalibrationMinSample = 30
    CalibrationReviewPercent = 50
    CalibrationMaterialPercent = 100
    StreamBatches = 4
    StreamWindow = 2
    Streams <- MCStreams
    StreamPlanted = {2}
    ReleaseMaxEdits = 2
    ReleasePasses <- MCReleasePasses
    CleanupEphemeral = {"e1", "e2", "e3"}
    CleanupSources = {"s"}
    CleanupOrder <- MCCleanupOrder
    CleanupBatchSize = 2
    CleanupMaxCommits = 1
    SplitVersions <- MCDatasetVersions
    SplitPositive = {1, 3, 5}
    SplitParts <- MCSplitParts
    SplitBatchRows = 1
    SplitNBatches = 2
    SplitMaxFetches = 1
    IntakeIds = {1, 2}
    IntakeStatuses = {"known", "unknown", "missing", "text"}
    IntakeAmounts = {"usual", "infinite"}
    IntakeMaxRows = 3
INVARIANTS
    RawDataIsWhatIsRecorded
    GeneratedRunsAreJudgedRight
    SchedulesAreSound
    ScenariosAreCounterfactual
    AnalysisIsTraceable
    NothingLostByReduction
    ControlsAreExact
    FamilyWiseRateIsBounded
    IncidentsAreSound
    ModelDataIsSound
    RegisteredWasAudited
    
    ChecklistConverges
    CleanupIsThePlan
PROPERTIES
    LifecycleAppendOnly
    CommandEnds
CHECK_DEADLOCK FALSE
