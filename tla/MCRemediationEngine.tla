-------------------------- MODULE MCRemediationEngine --------------------------
(***************************************************************************)
(* Model checking RemediationEngine: two signals, every kind of proposal   *)
(* (nothing to do, hand over, a remedy with an explicit target, one that   *)
(* falls back to the signal's source) and every kind of verdict.           *)
(***************************************************************************)
EXTENDS EngineImplementsLifecycle

MCSource == {"events-api", "catalog-api"}

MCSignals ==
    {[source |-> "events-api", severity |-> "critical", hints |-> {"pod_error"}],
     [source |-> "catalog-api", severity |-> "warning", hints |-> {"saturation"}]}

MCOneSignal == {[source |-> "events-api", severity |-> "critical", hints |-> {}]}

Proposes(action, target) ==
    [proposed_action |-> action, confidence |-> 90, target |-> target]

MCDiagnoses ==
    {Proposes("no_op", "events-api"), Proposes("escalate", "events-api"),
     Proposes("restart_pod", NoTarget), Proposes("scale_up", "catalog-api")}

MCVerdicts ==
    {[decision |-> "denied", reason |-> "cooldown"],
     [decision |-> "requires_approval", reason |-> "confidence"],
     [decision |-> "approved", reason |-> "approved"]}

MCNoFaults == {}
MCAllFaults == RaisingPort
MCVerifierFaults == {"verifier"}
MCDiagnoserFaults == {"diagnoser"}

=============================================================================
