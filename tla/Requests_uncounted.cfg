\* An error that anomaly-ai's handler raises passes by its metrics.
SPECIFICATION Spec
CONSTANTS
    None = None
    Services = {"events-api", "catalog-api", "anomaly-ai", "edge-gateway"}
    Limits <- MCLimits
    MaxLimit = 2
    DefaultLimit = 1
    MaxOld = 0
    MaxCalls = 2
    MaxOutages = 1
    MaxKills = 0
INVARIANT EveryAnswerIsCounted
CHECK_DEADLOCK FALSE
