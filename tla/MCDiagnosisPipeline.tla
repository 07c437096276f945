-------------------------- MODULE MCDiagnosisPipeline --------------------------
(***************************************************************************)
(* Model checking DiagnosisPipeline: every signal of one service, and      *)
(* replies around the threshold and at both ends of the confidence range   *)
(* that mention at most two of the allowlist's tokens; two rules, readings *)
(* on both sides of each boundary of a severity, and NaN.                  *)
(***************************************************************************)
EXTENDS DiagnosisPipeline

MCSource == {"events-api"}

MCDefaultRisk ==
    [a \in ActionType |->
        CASE a = "restart_pod" -> 1
          [] a = "scale_up" -> 2
          [] a = "scale_down" -> 3
          [] OTHER -> 0]

MCSignals == Signal

MCReplies ==
    {r \in [json       : BOOLEAN,
            action     : ActionType \union {OffList},
            confidence : {-1, 0, 79, 80, 100, 101, NaN},
            mentioned  : {m \in SUBSET ActionType : Cardinality(m) <= 2}] : r \in Reply}

\* The second rule stands for the neighbours of the first in the list.
MCRule(thresholds, hints) ==
    [source : Source, threshold : thresholds, hints : hints]

MCRuleSets ==
    {<<r, s>> : r \in MCRule({0, 2}, {{}, {"database"}, {"pod_error"}, {"saturation"}}),
                s \in MCRule({2}, {{"pod_error", "database"}})}

MCReadings == {0, 2, 3, 6, NaN}

NoRuleSets == {}

=============================================================================
