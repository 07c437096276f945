\* Four deployments, through restarts, shutdowns, kills and ports that raise.
SPECIFICATION FairSpec
CONSTANTS
    None = None
    NaN = NaN
    OffList = OffList
    Source <- MCSource
    ConfidenceThreshold = 80
    AutoApproveMaxRisk = 1
    Cooldown = 2
    Risk <- MCDefaultRisk
    Deployments <- MCDeployments
    Interval = 1
    MaxIncidents = 4
    MaxTime = 3
    MaxLives = 2
INVARIANTS
    TypeOK
    ReadyMeansCycled
    SpacedWithinCycle
    MetricsAgree
    DryRunHarmless
    ChangesAreClosed
PROPERTIES
    LoopKeepsCycling
CHECK_DEADLOCK FALSE
