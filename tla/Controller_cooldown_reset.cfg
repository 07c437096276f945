\* The same fault in two cycles: the gate that remembers the first action is gone.
SPECIFICATION Spec
CONSTANTS
    None = None
    NaN = NaN
    OffList = OffList
    Source <- MCSource
    ConfidenceThreshold = 80
    AutoApproveMaxRisk = 1
    Cooldown = 3
    Risk <- MCDefaultRisk
    Deployments <- MCOneFault
    Interval = 1
    MaxIncidents = 2
    MaxTime = 4
    MaxLives = 1
INVARIANT SpacedAcrossCycles
CHECK_DEADLOCK FALSE
