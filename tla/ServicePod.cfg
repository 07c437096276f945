SPECIFICATION FairSpec
CONSTANTS
    Services = {"events-api", "catalog-api", "anomaly-ai"}
    FailsAfter <- MCFailsAfter
    MaxOutages = 2
INVARIANTS
    TypeOK
    NeverBlind
    TrafficStopsInTime
    KilledOnlyIfHung
PROPERTIES
    OutageNeverRestarts
    LateDatabaseIsNoTrouble
