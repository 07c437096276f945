\* A port raises: the task dies and the gauge stays at 1.
SPECIFICATION FairSpec
CONSTANTS
    None = None
    NaN = NaN
    OffList = OffList
    Source <- MCSource
    ConfidenceThreshold = 80
    AutoApproveMaxRisk = 1
    Cooldown = 2
    Risk <- MCDefaultRisk
    Deployments <- MCOneFaultRaising
    Interval = 1
    MaxIncidents = 2
    MaxTime = 2
    MaxLives = 1
INVARIANT ReadyMeansLooping
CHECK_DEADLOCK FALSE
