\* The shipped policy; a JSON answer whose confidence is NaN.
SPECIFICATION Spec
CONSTANTS
    None = None
    NaN = NaN
    OffList = OffList
    Source <- MCSource
    ConfidenceThreshold = 80
    AutoApproveMaxRisk = 1
    Cooldown = 2
    Risk <- MCDefaultRisk
    Signals <- MCSignals
    Replies <- MCReplies
    RuleSets <- NoRuleSets
    Readings <- MCReadings
    Failed = Failed
INVARIANT NotANumberNeverActs
CHECK_DEADLOCK FALSE
