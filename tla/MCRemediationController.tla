------------------------ MODULE MCRemediationController ------------------------
(***************************************************************************)
(* Model checking RemediationController with the self-check signal it      *)
(* ships with and with detectors that report real faults.                  *)
(***************************************************************************)
EXTENDS RemediationController

MCSource == {"self-check", "events-api"}

MCDefaultRisk ==
    [a \in ActionType |->
        CASE a = "restart_pod" -> 1
          [] a = "scale_up" -> 2
          [] a = "scale_down" -> 3
          [] OTHER -> 0]

MCFault(severity, hints) ==
    [source |-> "events-api", severity |-> severity, hints |-> hints]

MCPodFault == MCFault("critical", {"pod_error"})

\* _demo_signals(): severity info, and a text that matches no pattern.
MCHeartbeat == [source |-> "self-check", severity |-> "info", hints |-> {}]

MCDeployed(signals, dry_run, verifications, faulty, cluster_fails) ==
    [signals |-> signals, dry_run |-> dry_run, verifications |-> verifications,
     faulty |-> faulty, cluster_fails |-> cluster_fails]

MCRecovers == {[recovered |-> TRUE]}
MCPorts == {"diagnoser", "verifier", "replayer", "escalator"}

\* Real execution of one fault, with nothing failing, and with ports that raise.
MCOneFault == {MCDeployed(<<MCPodFault>>, FALSE, MCRecovers, {}, FALSE)}
MCOneFaultRaising == {MCDeployed(<<MCPodFault>>, FALSE, MCRecovers, MCPorts, FALSE)}

\* As shipped: the self-check, in dry-run. Two rules of one service that cross
\* their thresholds in the same cycle, with real execution that may fail. The
\* same two, in dry-run or not, with ports that raise; one is handed over.
MCDeployments ==
    {MCDeployed(<<MCHeartbeat>>, TRUE, MCRecovers, {}, FALSE),
     MCDeployed(<<MCPodFault, MCFault("warning", {"pod_error"})>>, FALSE, Verification, {}, TRUE)}
    \union {MCDeployed(<<MCPodFault, MCFault("critical", {"database"})>>, dry_run,
                        Verification, MCPorts, TRUE) : dry_run \in BOOLEAN}

=============================================================================
