------------------------------ MODULE Diagnosers ------------------------------
(***************************************************************************)
(* The two diagnosers. MockDiagnoser (adapters/diagnosers/mock.py) is a    *)
(* table from fault hints and severity to a proposal. LLMDiagnoser         *)
(* (adapters/diagnosers/llm.py) parses a model's free text; what matters   *)
(* of a text is whether it is a JSON object, the action and confidence     *)
(* that object gives, and the allowlist tokens that occur in the text.     *)
(*                                                                         *)
(* A text on which the parser or the client raises is not modelled here:   *)
(* it is the engine's "diagnoser" fault.                                   *)
(***************************************************************************)
EXTENDS RemediationModels, PythonFloats, FiniteSets

CONSTANT
    OffList    \* an action, or no action at all, that is not on the allowlist

ASSUME OffListAssumption == OffList \notin ActionType

\* A confidence before clamping, in percent: in range, beyond either end, NaN
\* (which json.loads accepts).
RawConfidence == -1..101 \union {NaN}

\* Mutant of Clamp: only the upper end is looked at.
ClampUpperOnly(x) == PyMin(100, x)

\* max(0.0, min(1.0, x))
Clamp(x) == PyMax(0, PyMin(100, x))

-----------------------------------------------------------------------------
(* MockDiagnoser *)

\* How much the severity moves the confidence, in percent.
Bump == [critical |-> 10, warning |-> 0, info |-> -20]

ConfidenceFor(severity, base) == Clamp(base + Bump[severity])

Propose(signal, action, base) ==
    [proposed_action |-> action,
     confidence      |-> ConfidenceFor(signal.severity, base),
     target          |-> signal.source]

\* An informational signal without a database or pod fault in its text.
Benign(signal) ==
    signal.severity = "info" /\ signal.hints \intersect {"database", "pod_error"} = {}

\* Mutant of MockDiagnose: the pod pattern is looked at first.
MockDiagnosePodFirst(signal) ==
    IF Benign(signal)                       THEN Propose(signal, "no_op", 80)
    ELSE IF "pod_error" \in signal.hints    THEN Propose(signal, "restart_pod", 80)
    ELSE IF "database" \in signal.hints     THEN Propose(signal, "escalate", 85)
    ELSE IF "saturation" \in signal.hints   THEN Propose(signal, "scale_up", 75)
    ELSE Propose(signal, "escalate", 50)

\* MockDiagnoser.diagnose: the first pattern that applies.
MockDiagnose(signal) ==
    IF Benign(signal)                       THEN Propose(signal, "no_op", 80)
    ELSE IF "database" \in signal.hints     THEN Propose(signal, "escalate", 85)
    ELSE IF "saturation" \in signal.hints   THEN Propose(signal, "scale_up", 75)
    ELSE IF "pod_error" \in signal.hints    THEN Propose(signal, "restart_pod", 80)
    ELSE Propose(signal, "escalate", 50)

-----------------------------------------------------------------------------
(* LLMDiagnoser *)

\* `json` tells whether the text is a JSON object; if it is not, it gives
\* neither an action nor a confidence. An unusable confidence reads as 0, so it
\* is not a case of its own. The action a JSON object gives is a token of its
\* text, so it is among those mentioned.
Reply ==
    {r \in [json       : BOOLEAN,
            action     : ActionType \union {OffList},
            confidence : RawConfidence,
            mentioned  : SUBSET ActionType] :
        /\ ~r.json => r.action = OffList /\ r.confidence = 0
        /\ r.action # OffList => r.action \in r.mentioned}

\* Mutant of Named: the first token found is taken.
NamedFirst(r) ==
    IF r.action \in ActionType THEN r.action
    ELSE IF r.mentioned # {} THEN CHOOSE a \in r.mentioned : TRUE
    ELSE OffList

\* The action the parser settles on: the one the JSON object gives if that is
\* on the allowlist, else the one token the text mentions.
Named(r) ==
    IF r.action \in ActionType THEN r.action
    ELSE IF Cardinality(r.mentioned) = 1 THEN CHOOSE a \in r.mentioned : TRUE
    ELSE OffList

\* _parse
LLMDiagnose(r, signal) ==
    [proposed_action |-> IF Named(r) = OffList THEN "escalate" ELSE Named(r),
     confidence      |-> IF Named(r) = OffList THEN 30 ELSE Clamp(r.confidence),
     target          |-> signal.source]

=============================================================================
