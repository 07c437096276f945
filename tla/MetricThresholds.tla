---------------------------- MODULE MetricThresholds ----------------------------
(***************************************************************************)
(* Both ends of the loop that look at numbers: PrometheusDetector          *)
(* (adapters/detectors/prometheus.py) turns metrics into signals, and      *)
(* ThresholdVerifier (adapters/verifiers/prometheus.py) looks at a         *)
(* signal's metric again after the action.                                 *)
(*                                                                         *)
(* A rule is the threshold of one metric of one service; its query is the  *)
(* environment's, and the metric's name is reduced to the fault hints in   *)
(* it. Readings are whole numbers of some unit, or NaN - what Prometheus   *)
(* answers for a ratio of two rates that are both zero.                    *)
(***************************************************************************)
EXTENDS RemediationModels, PythonFloats

CONSTANT Failed   \* the query raised instead of returning a reading

Reading == Int \union {NaN}

Rule == [source : Source, threshold : Int, hints : SUBSET Hint]

\* _severity: by the ratio of value and threshold.
SeverityOf(value, threshold) ==
    IF threshold <= 0                 THEN "warning"
    ELSE IF value >= 3 * threshold    THEN "critical"
    ELSE IF value >= threshold        THEN "warning"
    ELSE "info"

\* What of a signal the loop and its two ends look at.
SignalOf(rule, value) ==
    [source   |-> rule.source,
     severity |-> SeverityOf(value, rule.threshold),
     hints    |-> rule.hints]

\* The metric has crossed its rule's threshold; a failed query says nothing.
Crossed(rule, answer) == answer # Failed /\ Less(rule.threshold, answer)

\* Mutant of Alarming: a query that fails ends the scan.
AlarmingUntilFailure(rules, answers) ==
    {i \in DOMAIN rules : /\ Crossed(rules[i], answers[i])
                          /\ \A j \in 1..i : answers[j] # Failed}

\* The rules that give a signal.
Alarming(rules, answers) == {i \in DOMAIN rules : Crossed(rules[i], answers[i])}

\* PrometheusDetector.detect, up to the order of the signals, which is that of
\* the rules. A signal carries the threshold it has crossed.
Detected(rules, answers) ==
    {[signal    |-> SignalOf(rules[i], answers[i]),
      threshold |-> rules[i].threshold] : i \in Alarming(rules, answers)}

\* Mutant of Recovered: recovered unless it is above the threshold.
RecoveredUnlessAbove(threshold, after) == ~Less(threshold, after)

\* ThresholdVerifier.verify: the metric is back at its threshold, or below.
Recovered(threshold, after) == AtMost(after, threshold)

=============================================================================
