\* The verifier raises after the action was executed.
SPECIFICATION FairSpec
CONSTANTS
    None = None
    Source <- MCSource
    Signals <- MCOneSignal
    Diagnoses <- MCDiagnoses
    Verdicts <- MCVerdicts
    MaxLost = 0
    DryRun = FALSE
    FaultyPorts <- MCVerifierFaults
    MaxBatch = 1
    MaxIncidents = 1
INVARIANT NoSilentMutation
