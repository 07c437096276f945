\* Two calls of any kind, rows from before, one outage, one death of the process.
SPECIFICATION FairSpec
CONSTANTS
    None = None
    Services = {"events-api", "catalog-api", "anomaly-ai", "edge-gateway"}
    Limits <- MCLimits
    MaxLimit = 2
    DefaultLimit = 1
    MaxOld = 2
    MaxCalls = 2
    MaxOutages = 1
    MaxKills = 1
INVARIANTS
    TypeOK
    AnswerTellsTheTruth
    ReadsAreCurrent
    CountersAgree
PROPERTY EveryCallIsAnswered
CHECK_DEADLOCK FALSE
