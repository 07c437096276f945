--------------------------- MODULE DiagnosisPipeline ---------------------------
(***************************************************************************)
(* One incident from the metric that raises it to the metric that closes   *)
(* it: a detector reports signals - the Prometheus one from thresholds, or *)
(* the static one whatever it was given; a diagnoser proposes - the        *)
(* rule-based one, or the LLM one with whatever text the model returns; a  *)
(* policy gate whose cooldown memory is empty decides; and after a remedy  *)
(* the verifier looks at the metric again.                                 *)
(* The engine asks the gate about remedies only, and the verifier after an *)
(* approved action that was executed only (core/engine.py:111-150).        *)
(***************************************************************************)
EXTENDS Diagnosers, PolicyRules, MetricThresholds

CONSTANTS
    Signals,   \* the signals the static detector is given
    Replies,   \* the texts the model may return
    RuleSets,  \* the lists of rules the Prometheus detector may be given
    Readings   \* the readings a metric may have

ASSUME PipelineAssumption ==
    /\ Signals \subseteq Signal
    /\ Replies \subseteq Reply
    /\ RuleSets \subseteq Seq(Rule)
    /\ Readings \subseteq Reading
    /\ Failed \notin Reading
    /\ None \notin Reading

VARIABLES
    stage,        \* what was produced last
    rules,        \* the rules of the detector; none for the static one
    answers,      \* what the detector's queries came back with
    batch,        \* the signals it returned, each with its threshold
    signal,       \* the signal in process, or None
    threshold,    \* the threshold it crossed; None for a static one
    reply,        \* the model's text; None when the mock is wired
    diagnosis,    \* the proposal, or None
    verdict,      \* the gate's verdict, or None
    after,        \* the reading the verifier got, or None
    verification  \* its conclusion, or None

vars == <<stage, rules, answers, batch, signal, threshold, reply, diagnosis,
          verdict, after, verification>>

Init ==
    /\ stage = "metrics"
    /\ rules \in RuleSets \union {<< >>}
    /\ answers = << >>
    /\ batch = {}
    /\ signal = None /\ threshold = None
    /\ reply = None
    /\ diagnosis = None
    /\ verdict = None
    /\ after = None /\ verification = None

\* The Prometheus detector runs its queries, one for each rule.
Detect ==
    /\ stage = "metrics"
    /\ rules # << >>
    /\ answers' \in [DOMAIN rules -> Readings \union {Failed}]
    /\ batch' = Detected(rules, answers')
    /\ stage' = "batch"
    /\ UNCHANGED <<rules, signal, threshold, reply, diagnosis, verdict, after, verification>>

\* The static detector returns what it was given.
DetectStatic ==
    /\ stage = "metrics"
    /\ rules = << >>
    /\ \E s \in Signals : batch' = {[signal |-> s, threshold |-> None]}
    /\ stage' = "batch"
    /\ UNCHANGED <<rules, answers, signal, threshold, reply, diagnosis, verdict, after,
                   verification>>

\* A signal of the batch becomes an incident; each is processed by itself.
Begin ==
    /\ stage = "batch"
    /\ \E alarm \in batch :
          /\ signal' = alarm.signal
          /\ threshold' = alarm.threshold
    /\ stage' = "signal"
    /\ UNCHANGED <<rules, answers, batch, reply, diagnosis, verdict, after, verification>>

\* The wired diagnoser proposes.
Diagnose ==
    /\ stage = "signal"
    /\ reply' \in Replies \union {None}
    /\ diagnosis' = IF reply' = None THEN MockDiagnose(signal)
                                     ELSE LLMDiagnose(reply', signal)
    /\ stage' = "diagnosis"
    /\ UNCHANGED <<rules, answers, batch, signal, threshold, verdict, after, verification>>

\* A remedy goes to the gate.
Gate ==
    /\ stage = "diagnosis"
    /\ diagnosis.proposed_action \in Remedy
    /\ verdict' = Evaluate(diagnosis, None, 0)
    /\ stage' = "verdict"
    /\ UNCHANGED <<rules, answers, batch, signal, threshold, reply, diagnosis, after,
                   verification>>

\* The remedy is carried out, the metric becomes what it becomes, and the
\* verifier reads it. The reading of a signal without a threshold is not a metric.
Verify ==
    /\ stage = "verdict"
    /\ verdict.decision = "approved"
    /\ threshold # None
    /\ after' \in Readings
    /\ verification' = [recovered |-> Recovered(threshold, after')]
    /\ stage' = "verification"
    /\ UNCHANGED <<rules, answers, batch, signal, threshold, reply, diagnosis, verdict>>

Next == Detect \/ DetectStatic \/ Begin \/ Diagnose \/ Gate \/ Verify

Spec == Init /\ [][Next]_vars

-----------------------------------------------------------------------------
(* Properties. *)

TypeOK ==
    /\ stage \in {"metrics", "batch", "signal", "diagnosis", "verdict", "verification"}
    /\ rules \in RuleSets \union {<< >>}
    /\ \A i \in DOMAIN answers : answers[i] \in Reading \union {Failed}
    /\ batch \subseteq [signal : Signal, threshold : Int \union {None}]
    /\ signal \in Signal \union {None}
    /\ threshold \in Int \union {None}
    /\ reply \in Reply \union {None}
    /\ diagnosis \in Diagnosis \union {None}
    /\ verdict \in PolicyVerdict \union {None}
    /\ after \in Reading \union {None}
    /\ verification \in Verification \union {None}

\* The remedy will be carried out without a human.
Acts == verdict # None /\ verdict.decision = "approved"

\* "Restarting a pod cannot fix a dead database; the safe move is a human"
\* (mock.py:15-17): no signal that speaks of a database is acted on, whatever
\* its severity and whatever else its text matches.
DatabaseFaultGoesToAHuman ==
    diagnosis # None /\ reply = None /\ "database" \in signal.hints =>
        diagnosis.proposed_action = "escalate" /\ ~Acts

\* "A failed scrape is not a remediation signal; skip it" (prometheus.py:75)
\* hides no other metric: whichever queries fail and whatever order the rules
\* are in, each metric that has crossed its threshold is reported, and graded so
\* (prometheus.py:59-67) that the rule table's no_op for signals below WARNING
\* (mock.py:63-66) never passes it over.
CrossingIsNeverPassedOver ==
    \A i \in DOMAIN answers :
        answers[i] \in Reading \ {NaN} /\ rules[i].threshold < answers[i] =>
            \E alarm \in batch :
                /\ alarm.threshold = rules[i].threshold
                /\ alarm.signal.hints = rules[i].hints
                /\ MockDiagnose(alarm.signal).proposed_action # "no_op"

\* Detector and verifier draw the same line from its two sides (prometheus.py:78
\* and verifiers/prometheus.py:40): what counts as recovered would not be
\* reported again, what does not would be, and a reading that is not a number,
\* as when the traffic is gone with the pods, is never taken for a recovery.
RecoveredIsNotReported ==
    verification # None =>
        /\ verification.recovered => after # NaN
        /\ after # NaN =>
              (verification.recovered <=>
                  Detected(<<[source |-> signal.source, threshold |-> threshold,
                              hints |-> signal.hints]>>, <<after>>) = {})

\* The parser and the gate make no more of a model's answer than it says
\* (llm.py:73-110): a proposal other than a hand-off is the action it declares or
\* the only word of the allowlist in its text, never a guess between two, and it
\* is acted on only if the answer is a JSON object whose confidence, where it is
\* a number, reaches the threshold itself. That the only word of the text also
\* stands in for a declared action off the allowlist is what the code does
\* (llm.py:91-94), although llm.py:70-71 speaks of a fallback to ESCALATE.
OnlyWhatWasSaid ==
    reply # None /\ diagnosis # None =>
        /\ \/ diagnosis.proposed_action \in {"escalate", reply.action}
           \/ reply.mentioned = {diagnosis.proposed_action}
        /\ Acts /\ ConfidenceThreshold > 0 =>
              /\ reply.json
              /\ reply.confidence # NaN => reply.confidence >= ConfidenceThreshold

\* "trusting nothing" (llm.py:67): an answer whose confidence is not a number
\* is not acted on without a human.
NotANumberNeverActs ==
    reply # None => (reply.confidence = NaN => ~Acts)

=============================================================================
