\* A permissive policy (ceiling HIGH) whose risk map leaves actions out, and a
\* clock that is only ever set back.
SPECIFICATION Spec
CONSTANTS
    None = None
    Source <- MCSource
    ConfidenceThreshold = 80
    AutoApproveMaxRisk = 3
    Cooldown = 2
    Risk <- MCPartialRisk
    Incoming <- MCIncoming
    ClockSteps <- MCBackward
    MaxTime = 3
    MaxLog = 3
INVARIANTS
    TypeOK
    CooldownSeparation
    MinimumSpacing
    DeniedForACause
    ApprovedWithinPolicy
CHECK_DEADLOCK FALSE
