------------------------------ MODULE PolicyRules ------------------------------
(***************************************************************************)
(* The decision ladder of RiskBasedPolicyGate.evaluate                     *)
(* (adapters/policy/gate.py) as a pure function of the incident, the       *)
(* gate's cooldown memory and the wall clock, together with the            *)
(* declarative policy it reads (PolicyConfig).                             *)
(***************************************************************************)
EXTENDS RemediationModels

CONSTANTS
    ConfidenceThreshold,   \* PolicyConfig.confidence_threshold, in percent
    AutoApproveMaxRisk,    \* PolicyConfig.auto_approve_max_risk
    Cooldown,              \* PolicyConfig.cooldown, in ticks of the model's clock
    Risk                   \* PolicyConfig.risk: a map from some actions to levels

\* RiskLevel, an IntEnum.
RiskLevel == 0..4
CRITICAL == 4

ASSUME PolicyAssumption ==
    /\ ConfidenceThreshold \in 0..100
    /\ AutoApproveMaxRisk \in RiskLevel
    /\ Cooldown \in Nat
    /\ DOMAIN Risk \subseteq ActionType
    /\ \A a \in DOMAIN Risk : Risk[a] \in RiskLevel

\* Mutant of RiskOf: an action the map does not name is harmless.
RiskOfUnknownIsNone(action) == IF action \in DOMAIN Risk THEN Risk[action] ELSE 0

\* PolicyConfig.risk_of: an action the map does not name is maximally risky.
RiskOf(action) == IF action \in DOMAIN Risk THEN Risk[action] ELSE CRITICAL

\* The cooldown memory's keys, (target, action).
Key == Target \X ActionType
KeyOf(d, signal) == <<TargetOf(d, signal), d.proposed_action>>

\* Mutant of InCooldown: the comparison is off by one.
InCooldownOffByOne(last, now) == last # None /\ now - last + 1 < Cooldown

\* `last is not None and now - last < cooldown`, for the key's last approval.
InCooldown(last, now) == last # None /\ now - last < Cooldown

\* Mutant of Verdict: the arguments are swapped.
VerdictSwapped(decision, reason) == [decision |-> reason, reason |-> decision]

Verdict(decision, reason) == [decision |-> decision, reason |-> reason]

\* RiskBasedPolicyGate.evaluate: the first rule that applies decides. `last`
\* is the memory's entry for the diagnosis's key; a missing diagnosis and an
\* action outside the allowlist reach only the first two rules.
Evaluate(d, last, now) ==
    IF d = None
        THEN Verdict("denied", "no_diagnosis")
    ELSE IF d.proposed_action \notin ActionType
        THEN Verdict("denied", "off_allowlist")
    ELSE IF d.proposed_action = "escalate"
        THEN Verdict("requires_approval", "deferred")
    ELSE IF d.proposed_action = "no_op"
        THEN Verdict("approved", "no_op")
    ELSE IF InCooldown(last, now)
        THEN Verdict("denied", "cooldown")
    ELSE IF d.confidence < ConfidenceThreshold
        THEN Verdict("requires_approval", "confidence")
    ELSE IF RiskOf(d.proposed_action) > AutoApproveMaxRisk
        THEN Verdict("requires_approval", "risk")
    ELSE Verdict("approved", "approved")

\* Only the last rung of the ladder writes the cooldown memory.
Records(v) == v.reason = "approved"

\* Mutants of Remember: nothing is recorded; a denial re-arms the cooldown.
RememberNothing(memory, key, v, now) == memory
RememberDenials(memory, key, v, now) ==
    IF Records(v) \/ v.reason = "cooldown"
        THEN [memory EXCEPT ![key] = now] ELSE memory

Remember(memory, key, v, now) ==
    IF Records(v) THEN [memory EXCEPT ![key] = now] ELSE memory

=============================================================================
