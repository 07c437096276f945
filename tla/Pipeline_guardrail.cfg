\* The most permissive ceiling that still excludes CRITICAL: every remedy could act.
SPECIFICATION Spec
CONSTANTS
    None = None
    NaN = NaN
    OffList = OffList
    Source <- MCSource
    ConfidenceThreshold = 80
    AutoApproveMaxRisk = 3
    Cooldown = 2
    Risk <- MCDefaultRisk
    Signals <- MCSignals
    Replies <- MCReplies
    RuleSets <- MCRuleSets
    Readings <- MCReadings
    Failed = Failed
INVARIANTS
    TypeOK
    CrossingIsNeverPassedOver
    RecoveredIsNotReported
    DatabaseFaultGoesToAHuman
    OnlyWhatWasSaid
CHECK_DEADLOCK FALSE
