\* Real execution, every port that can raise may raise.
SPECIFICATION FairSpec
CONSTANTS
    None = None
    Source <- MCSource
    Signals <- MCSignals
    Diagnoses <- MCDiagnoses
    Verdicts <- MCVerdicts
    MaxLost = 1
    DryRun = FALSE
    FaultyPorts <- MCAllFaults
    MaxBatch = 2
    MaxIncidents = 2
INVARIANTS
    TypeOK
    AlertTellsWhy
    OnlyApprovedMutations
    ChangedAtMostOnce
    AuditComplete
PROPERTIES
    RunOnceEnds
    ImplementsLifecycle
