----------------------------- MODULE MCPolicyGate -----------------------------
(***************************************************************************)
(* Model checking PolicyGate: two services, proposals on both sides of the *)
(* confidence threshold and of the risk ceiling, an action that is not on  *)
(* the allowlist, an incident without a diagnosis, and the same target     *)
(* given by name and by falling back to the signal's source.               *)
(***************************************************************************)
EXTENDS PolicyGate

MCSource == {"events-api", "catalog-api"}

\* _DEFAULT_RISK
MCDefaultRisk ==
    [a \in ActionType |->
        CASE a = "restart_pod" -> 1
          [] a = "scale_up" -> 2
          [] a = "scale_down" -> 3
          [] OTHER -> 0]

\* An override that forgets two of the remedies.
MCPartialRisk == [a \in {"no_op", "restart_pod"} |-> IF a = "no_op" THEN 0 ELSE 1]

MCSignal == [source |-> "events-api", severity |-> "critical", hints |-> {"pod_error"}]

Proposal(action, confidence, target) ==
    [diagnosis |-> [proposed_action |-> action, confidence |-> confidence,
                    target |-> target],
     signal |-> MCSignal]

\* What a diagnoser may hand to the gate.
MCIncoming ==
    {Proposal("restart_pod", 90, "events-api"),
     Proposal("restart_pod", 80, NoTarget),
     Proposal("restart_pod", 79, "events-api"),
     Proposal("restart_pod", 90, "catalog-api"),
     Proposal("scale_up", 85, "events-api"),
     Proposal("scale_down", 100, "events-api"),
     Proposal("drop_table", 100, "events-api"),
     Proposal("escalate", 85, "events-api"),
     Proposal("no_op", 60, "events-api"),
     [diagnosis |-> None, signal |-> MCSignal]}

\* A clock that is set back.
MCBackward == {-1}

=============================================================================
