\* Real execution, no port raises: the loop's promises.
SPECIFICATION FairSpec
CONSTANTS
    None = None
    Source <- MCSource
    Signals <- MCSignals
    Diagnoses <- MCDiagnoses
    Verdicts <- MCVerdicts
    MaxLost = 1
    DryRun = FALSE
    FaultyPorts <- MCNoFaults
    MaxBatch = 2
    MaxIncidents = 2
INVARIANTS
    FailSafe
    NoSilentMutation
    UncertainActionIsEscalated
PROPERTIES
    HistoryNeverLost
    EverySignalIsClosed
