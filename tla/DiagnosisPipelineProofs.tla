------------------------ MODULE DiagnosisPipelineProofs ------------------------
(***************************************************************************)
(* Theorems about the way of an incident from metric to metric, for every  *)
(* set of signals, replies, rules and readings, and every policy.          *)
(***************************************************************************)
EXTENDS DiagnosisPipeline, FiniteSetTheorems, TLAPS

-----------------------------------------------------------------------------
(* The operators the pipeline is built from. *)

\* A clamped confidence is a percentage, it is no more than a number it is made
\* from, unless that was negative, and NaN comes out at the upper end
\* (llm.py:103-104, mock.py:46).
LEMMA ClampBounds ==
    ASSUME NEW x \in Int \union {NaN}
    PROVE  /\ Clamp(x) \in 0..100
           /\ x # NaN /\ Clamp(x) > 0 => Clamp(x) <= x
  BY NaNAssumption DEF Clamp, PyMax, PyMin, Less

\* A rule's proposal is a diagnosis with the rule's action (mock.py:46-82).
LEMMA ProposeTypes ==
    ASSUME NEW s \in Signal, NEW action \in ActionType, NEW base \in 0..100
    PROVE  /\ Propose(s, action, base) \in Diagnosis
           /\ Propose(s, action, base).proposed_action = action
<1>1. s.source \in Target /\ s.severity \in Severity
  BY DEF Signal, Target
<1>2. base + Bump[s.severity] \in Int
  BY <1>1 DEF Bump, Severity
<1>3. ConfidenceFor(s.severity, base) \in 0..100
  BY <1>2, ClampBounds DEF ConfidenceFor
<1> QED
  BY <1>1, <1>3 DEF Propose, Diagnosis

\* What MockDiagnoser proposes is always a proposal, a database is never acted
\* on, and only an informational signal is passed over (mock.py:27-82).
LEMMA MockTypes ==
    ASSUME NEW s \in Signal
    PROVE  /\ MockDiagnose(s) \in Diagnosis
           /\ "database" \in s.hints => MockDiagnose(s).proposed_action = "escalate"
           /\ MockDiagnose(s).proposed_action = "no_op" => s.severity = "info"
<1>1. \A action \in ActionType, base \in {50, 75, 80, 85} :
          /\ Propose(s, action, base) \in Diagnosis
          /\ Propose(s, action, base).proposed_action = action
  BY ProposeTypes
<1>2. {"no_op", "escalate", "scale_up", "restart_pod"} \subseteq ActionType
  BY DEF ActionType
<1>3. "database" \in s.hints => ~Benign(s)
  BY DEF Benign
<1>4. Benign(s) => s.severity = "info"
  BY DEF Benign
<1> QED
  BY <1>1, <1>2, <1>3, <1>4 DEF MockDiagnose

\* The parser counts the allowlisted words of a text, and there are finitely many.
LEMMA AllowlistFinite == IsFiniteSet(ActionType)
<1>1. IsFiniteSet({})
  BY FS_EmptySet
<1>2. \A S, x : IsFiniteSet(S) => IsFiniteSet(S \union {x})
  BY FS_AddElement
<1>3. IsFiniteSet((((({} \union {"no_op"}) \union {"restart_pod"}) \union {"scale_up"})
                    \union {"scale_down"}) \union {"escalate"})
  BY <1>1, <1>2, Zenon
<1> QED
  BY <1>3 DEF ActionType

\* What the parser settles on is on the allowlist or nothing: the declared action
\* if it is allowed, else the one word the text singles out (llm.py:81-94).
LEMMA NamedTypes ==
    ASSUME NEW r \in Reply
    PROVE  /\ Named(r) \in ActionType \union {OffList}
           /\ Named(r) # OffList => Named(r) = r.action \/ r.mentioned = {Named(r)}
<1>1. r.mentioned \subseteq ActionType
  BY DEF Reply
<1>2. ASSUME Cardinality(r.mentioned) = 1
      PROVE  /\ (CHOOSE a \in r.mentioned : TRUE) \in ActionType
             /\ r.mentioned = {CHOOSE a \in r.mentioned : TRUE}
  <2>1. IsFiniteSet(ActionType)
    BY AllowlistFinite
  <2>2. IsFiniteSet(r.mentioned)
    BY <1>1, <2>1, FS_Subset
  <2>3. \E a : r.mentioned = {a}
    BY <1>2, <2>2, FS_Singleton
  <2> QED
    BY <1>1, <2>3
<1> QED
  BY <1>2, OffListAssumption DEF Named

\* Whatever the model answers, what is made of it is a diagnosis (llm.py:65-115).
LEMMA LLMTypes ==
    ASSUME NEW r \in Reply, NEW s \in Signal
    PROVE  LLMDiagnose(r, s) \in Diagnosis
<1>1. s.source \in Target /\ r.confidence \in Int \union {NaN}
  BY DEF Signal, Target, Reply, RawConfidence
<1>2. Clamp(r.confidence) \in 0..100
  BY <1>1, ClampBounds
<1>3. (IF Named(r) = OffList THEN "escalate" ELSE Named(r)) \in ActionType
  BY NamedTypes DEF ActionType
<1> QED
  BY <1>1, <1>2, <1>3 DEF LLMDiagnose, Diagnosis

\* The gate, asked about a remedy with nothing in its memory, approves what is
\* confident and not too risky, and nothing else (gate.py:84-147).
LEMMA GateOnRemedy ==
    ASSUME NEW d \in Diagnosis, d.proposed_action \in Remedy
    PROVE  /\ Evaluate(d, None, 0) \in PolicyVerdict
           /\ Evaluate(d, None, 0).decision = "approved" =>
                  d.confidence >= ConfidenceThreshold
<1>1. /\ d # None /\ d.proposed_action \in ActionType
      /\ d.proposed_action # "escalate" /\ d.proposed_action # "no_op"
  BY NoneAssumption DEF Remedy
<1>2. ~InCooldown(None, 0)
  BY DEF InCooldown
<1>3. \A decision \in Decision, reason \in Reason :
          /\ Verdict(decision, reason) \in PolicyVerdict
          /\ Verdict(decision, reason).decision = decision
  BY DEF Verdict, PolicyVerdict
<1>4. d.confidence \in Int /\ ConfidenceThreshold \in Int
  BY PolicyAssumption DEF Diagnosis
<1>5. Evaluate(d, None, 0) =
        IF d.confidence < ConfidenceThreshold
            THEN Verdict("requires_approval", "confidence")
        ELSE IF RiskOf(d.proposed_action) > AutoApproveMaxRisk
            THEN Verdict("requires_approval", "risk")
        ELSE Verdict("approved", "approved")
  BY <1>1, <1>2 DEF Evaluate
<1>6. /\ {"requires_approval", "approved"} \subseteq Decision
      /\ {"confidence", "risk", "approved"} \subseteq Reason
  BY DEF Decision, Reason
<1>7. CASE d.confidence < ConfidenceThreshold
  <2>1. Evaluate(d, None, 0) = Verdict("requires_approval", "confidence")
    BY <1>5, <1>7
  <2> QED
    BY <1>3, <1>6, <2>1
<1>8. CASE ~(d.confidence < ConfidenceThreshold)
  <2>1. Evaluate(d, None, 0) \in {Verdict("requires_approval", "risk"),
                                  Verdict("approved", "approved")}
    BY <1>5, <1>8
  <2> QED
    BY <1>3, <1>4, <1>6, <1>8, <2>1
<1> QED
  BY <1>7, <1>8

\* A signal of the Prometheus detector is graded at least a warning
\* (prometheus.py:59-67).
LEMMA CrossedIsGraded ==
    ASSUME NEW rule \in Rule, NEW value \in Reading,
           Crossed(rule, value)
    PROVE  /\ SignalOf(rule, value) \in Signal
           /\ SignalOf(rule, value).severity # "info"
           /\ SignalOf(rule, value).hints = rule.hints
<1>1. /\ rule.threshold \in Int /\ value \in Int /\ rule.threshold < value
  BY DEF Crossed, Less, Reading, Rule
<1>2. SeverityOf(value, rule.threshold) \in {"warning", "critical"}
  BY <1>1 DEF SeverityOf
<1> QED
  BY <1>2 DEF SignalOf, Signal, Severity, Rule

\* What the detector makes of any answers is a set of signals with their thresholds
\* (prometheus.py:59-89).
LEMMA DetectedTypes ==
    ASSUME NEW rs \in Seq(Rule), NEW as \in [DOMAIN rs -> Readings \union {Failed}]
    PROVE  Detected(rs, as) \subseteq [signal : Signal, threshold : Int \union {None}]
<1>1. ASSUME NEW i \in Alarming(rs, as)
      PROVE  /\ SignalOf(rs[i], as[i]) \in Signal
             /\ rs[i].threshold \in Int
  <2>1. i \in DOMAIN rs /\ Crossed(rs[i], as[i])
    BY DEF Alarming
  <2>2. rs[i] \in Rule
    BY <2>1
  <2>3. as[i] \in Reading
    BY <2>1, PipelineAssumption DEF Crossed
  <2> QED
    BY <2>1, <2>2, <2>3, CrossedIsGraded DEF Rule
<1> SUFFICES ASSUME NEW alarm \in Detected(rs, as)
             PROVE  alarm \in [signal : Signal, threshold : Int \union {None}]
  OBVIOUS
<1>2. PICK i \in Alarming(rs, as) :
          alarm = [signal |-> SignalOf(rs[i], as[i]), threshold |-> rs[i].threshold]
  BY DEF Detected
<1> QED
  BY <1>1, <1>2

-----------------------------------------------------------------------------
(* The invariant. *)

\* Where each thing in hand comes from: the batch from the answers, the proposal
\* from the signal and the reply, the verdict from the proposal, the conclusion
\* from the threshold and what the metric became.
Derived ==
    /\ stage = "metrics" => answers = << >>
    /\ answers # << >> => /\ answers \in [DOMAIN rules -> Readings \union {Failed}]
                          /\ batch = Detected(rules, answers)
    /\ stage \notin {"metrics", "batch"} => signal \in Signal
    /\ IF stage \in {"metrics", "batch", "signal"} THEN diagnosis = None
       ELSE diagnosis = IF reply = None THEN MockDiagnose(signal)
                                        ELSE LLMDiagnose(reply, signal)
    /\ IF stage \in {"verdict", "verification"}
          THEN /\ diagnosis.proposed_action \in Remedy
               /\ verdict = Evaluate(diagnosis, None, 0)
       ELSE verdict = None
    /\ IF stage = "verification"
          THEN /\ threshold \in Int /\ after \in Reading
               /\ verification = [recovered |-> Recovered(threshold, after)]
       ELSE verification = None

PipelineInv == TypeOK /\ Derived

\* The wired rules are a sequence of rules, or none for the static detector.
LEMMA RulesTyped ==
    ASSUME TypeOK
    PROVE  rules \in Seq(Rule)
<1>1. rules \in RuleSets \union {<< >>}
  BY Zenon DEF TypeOK
<1>2. << >> \in Seq(Rule)
  OBVIOUS
<1> QED
  BY <1>1, <1>2, PipelineAssumption, Zenon

\* Before the detector has run there is nothing to derive.
LEMMA InitDerived == Init => PipelineInv
<1> SUFFICES ASSUME Init
             PROVE  PipelineInv
  OBVIOUS
<1>1. stage = "metrics" /\ answers = << >>
  BY Zenon DEF Init
<1>2. \A i \in DOMAIN answers : answers[i] \in Reading \union {Failed}
  BY <1>1
<1>3. TypeOK
  BY <1>2 DEF Init, TypeOK
<1>4. Derived
  BY <1>1 DEF Init, Derived
<1> QED
  BY <1>3, <1>4 DEF PipelineInv

\* Each stage reads what the one before it left, and leaves that as it is.
LEMMA StepDerives ==
    ASSUME PipelineInv, [Next]_vars
    PROVE  PipelineInv'
<1> USE DEF PipelineInv
<1>1. CASE Detect
  <2>1. /\ stage = "metrics" /\ stage' = "batch"
        /\ answers' \in [DOMAIN rules -> Readings \union {Failed}]
        /\ batch' = Detected(rules, answers')
        /\ UNCHANGED <<rules, signal, threshold, reply, diagnosis, verdict, after,
                       verification>>
    BY <1>1 DEF Detect
  <2>2. batch' \subseteq [signal : Signal, threshold : Int \union {None}]
    BY <2>1, RulesTyped, DetectedTypes
  <2>3. \A i \in DOMAIN answers' : answers'[i] \in Reading \union {Failed}
    BY <2>1, PipelineAssumption
  <2>4. TypeOK'
    BY <2>1, <2>2, <2>3 DEF TypeOK
  <2>5. Derived'
    BY <2>1 DEF Derived
  <2> QED
    BY <2>4, <2>5
<1>2. CASE DetectStatic
  <2>1. /\ stage = "metrics" /\ stage' = "batch"
        /\ \E s \in Signal : batch' = {[signal |-> s, threshold |-> None]}
        /\ UNCHANGED <<rules, answers, signal, threshold, reply, diagnosis, verdict,
                       after, verification>>
    BY <1>2, PipelineAssumption DEF DetectStatic
  <2>2. TypeOK'
    BY <2>1 DEF TypeOK
  <2>3. Derived'
    BY <2>1 DEF Derived
  <2> QED
    BY <2>2, <2>3
<1>3. CASE Begin
  <2>1. /\ stage = "batch" /\ stage' = "signal"
        /\ \E alarm \in batch : /\ signal' = alarm.signal
                                /\ threshold' = alarm.threshold
        /\ UNCHANGED <<rules, answers, batch, reply, diagnosis, verdict, after,
                       verification>>
    BY <1>3 DEF Begin
  <2>2. signal' \in Signal /\ threshold' \in Int \union {None}
    BY <2>1 DEF TypeOK
  <2>3. TypeOK'
    BY <2>1, <2>2 DEF TypeOK
  <2>4. Derived'
    BY <2>1, <2>2 DEF Derived
  <2> QED
    BY <2>3, <2>4
<1>4. CASE Diagnose
  <2>1. /\ stage = "signal" /\ stage' = "diagnosis"
        /\ reply' \in Reply \union {None}
        /\ diagnosis' = IF reply' = None THEN MockDiagnose(signal)
                                         ELSE LLMDiagnose(reply', signal)
        /\ UNCHANGED <<rules, answers, batch, signal, threshold, verdict, after,
                       verification>>
    BY <1>4, PipelineAssumption DEF Diagnose
  <2>2. signal \in Signal
    BY <2>1 DEF Derived
  <2>3. diagnosis' \in Diagnosis
    BY <2>1, <2>2, MockTypes, LLMTypes
  <2>4. TypeOK'
    BY <2>1, <2>3 DEF TypeOK
  <2>5. Derived'
    BY <2>1 DEF Derived
  <2> QED
    BY <2>4, <2>5
<1>5. CASE Gate
  <2>1. /\ stage = "diagnosis" /\ stage' = "verdict"
        /\ diagnosis.proposed_action \in Remedy
        /\ verdict' = Evaluate(diagnosis, None, 0)
        /\ UNCHANGED <<rules, answers, batch, signal, threshold, reply, diagnosis,
                       after, verification>>
    BY <1>5 DEF Gate
  <2>2. diagnosis \in Diagnosis
    BY <2>1, MockTypes, LLMTypes DEF TypeOK, Derived
  <2>3. verdict' \in PolicyVerdict
    BY <2>1, <2>2, GateOnRemedy
  <2>4. TypeOK'
    BY <2>1, <2>3 DEF TypeOK
  <2>5. Derived'
    BY <2>1 DEF Derived
  <2> QED
    BY <2>4, <2>5
<1>6. CASE Verify
  <2>1. /\ stage = "verdict" /\ stage' = "verification"
        /\ threshold # None
        /\ after' \in Reading
        /\ verification' = [recovered |-> Recovered(threshold, after')]
        /\ UNCHANGED <<rules, answers, batch, signal, threshold, reply, diagnosis,
                       verdict>>
    BY <1>6, PipelineAssumption DEF Verify
  <2>2. threshold \in Int
    BY <2>1 DEF TypeOK
  <2>3. Recovered(threshold, after') \in BOOLEAN
    BY DEF Recovered, AtMost
  <2>4. TypeOK'
    BY <2>1, <2>3 DEF TypeOK, Verification
  <2>5. Derived'
    BY <2>1, <2>2 DEF Derived
  <2> QED
    BY <2>4, <2>5
<1>7. CASE UNCHANGED vars
  <2>1. TypeOK'
    BY <1>7 DEF vars, TypeOK
  <2>2. Derived'
    BY <1>7 DEF vars, Derived
  <2> QED
    BY <2>1, <2>2
<1> QED
  BY <1>1, <1>2, <1>3, <1>4, <1>5, <1>6, <1>7 DEF Next

\* Every stage hands on what the next one expects.
THEOREM PipelineInvHolds == Spec => []PipelineInv
<1> QED
  BY InitDerived, StepDerives, PTL DEF Spec

\* The types of the loop's stages, whatever a model answers.
THEOREM TypesHold == Spec => []TypeOK
<1>1. PipelineInv => TypeOK
  BY DEF PipelineInv
<1> QED
  BY <1>1, PipelineInvHolds, PTL

-----------------------------------------------------------------------------
(* What follows from it. *)

\* A database fault goes to a human, whatever the severity and the rest of the
\* signal's text (mock.py:63-82).
THEOREM DatabaseToAHuman == Spec => []DatabaseFaultGoesToAHuman
<1>1. PipelineInv => DatabaseFaultGoesToAHuman
  <2> SUFFICES ASSUME PipelineInv, diagnosis # None, reply = None,
                      "database" \in signal.hints
               PROVE  diagnosis.proposed_action = "escalate" /\ ~Acts
    BY DEF DatabaseFaultGoesToAHuman
  <2>1. signal \in Signal /\ diagnosis = MockDiagnose(signal)
    BY DEF PipelineInv, Derived
  <2>2. diagnosis.proposed_action = "escalate"
    BY <2>1, MockTypes
  <2>3. verdict = None
    BY <2>2 DEF PipelineInv, Derived, Remedy
  <2> QED
    BY <2>2, <2>3 DEF Acts
<1> QED
  BY <1>1, PipelineInvHolds, PTL

\* Each metric above its threshold is in the batch, graded so that it is not
\* passed over, whichever other queries failed (prometheus.py:59-89).
THEOREM CrossingsAreReported == Spec => []CrossingIsNeverPassedOver
<1>1. PipelineInv => CrossingIsNeverPassedOver
  <2> SUFFICES ASSUME PipelineInv,
                      NEW i \in DOMAIN answers,
                      answers[i] \in Reading \ {NaN},
                      rules[i].threshold < answers[i]
               PROVE  \E alarm \in batch :
                        /\ alarm.threshold = rules[i].threshold
                        /\ alarm.signal.hints = rules[i].hints
                        /\ MockDiagnose(alarm.signal).proposed_action # "no_op"
    BY DEF CrossingIsNeverPassedOver
  <2>1. answers # << >>
    OBVIOUS
  <2>2. batch = Detected(rules, answers) /\ i \in DOMAIN rules
    BY <2>1 DEF PipelineInv, Derived
  <2>3. rules[i] \in Rule
    BY <2>2, RulesTyped DEF PipelineInv
  <2>4. Crossed(rules[i], answers[i])
    BY <2>3, NaNAssumption, PipelineAssumption DEF Crossed, Less, Rule
  <2> DEFINE alarm == [signal    |-> SignalOf(rules[i], answers[i]),
                       threshold |-> rules[i].threshold]
  <2>5. alarm \in batch
    BY <2>2, <2>4 DEF Detected, Alarming
  <2>6. /\ SignalOf(rules[i], answers[i]) \in Signal
        /\ SignalOf(rules[i], answers[i]).severity # "info"
        /\ SignalOf(rules[i], answers[i]).hints = rules[i].hints
    BY <2>3, <2>4, CrossedIsGraded
  <2>7. MockDiagnose(SignalOf(rules[i], answers[i])).proposed_action # "no_op"
    BY <2>6, MockTypes
  <2> QED
    BY <2>5, <2>6, <2>7
<1> QED
  BY <1>1, PipelineInvHolds, PTL

\* What the verifier calls recovered the detector would not report again, and the
\* other way round (prometheus.py:78, verifiers/prometheus.py:40).
THEOREM RecoveredMeansQuiet == Spec => []RecoveredIsNotReported
<1>1. PipelineInv => RecoveredIsNotReported
  <2> SUFFICES ASSUME PipelineInv, verification # None
               PROVE  RecoveredIsNotReported
    BY DEF RecoveredIsNotReported
  <2> DEFINE rule == [source |-> signal.source, threshold |-> threshold,
                      hints |-> signal.hints]
  <2>1. /\ threshold \in Int /\ after \in Reading
        /\ verification = [recovered |-> Recovered(threshold, after)]
    BY DEF PipelineInv, Derived
  <2>2. verification.recovered <=> after # NaN /\ after <= threshold
    BY <2>1, NaNAssumption DEF Recovered, AtMost
  <2>3. Detected(<<rule>>, <<after>>) = {} <=> ~Crossed(rule, after)
    <3>1. /\ DOMAIN <<rule>> = {1} /\ <<rule>>[1] = rule /\ <<after>>[1] = after
      OBVIOUS
    <3>2. Alarming(<<rule>>, <<after>>) = {i \in {1} : Crossed(rule, after)}
      BY <3>1 DEF Alarming
    <3> HIDE DEF rule
    <3> QED
      BY <3>2 DEF Detected
  <2>4. Crossed(rule, after) <=> after # NaN /\ threshold < after
    BY <2>1, NaNAssumption, PipelineAssumption DEF Crossed, Less
  <2>5. after # NaN => (after <= threshold <=> ~(threshold < after))
    BY <2>1 DEF Reading
  <2> QED
    BY <2>2, <2>3, <2>4, <2>5 DEF RecoveredIsNotReported
<1> QED
  BY <1>1, PipelineInvHolds, PTL

\* What is proposed and acted on is what the model said: the action it declares or
\* the only one it mentions, in JSON, with a confidence that reaches the threshold
\* if it is a number (llm.py:73-110).
THEOREM NothingReadIn == Spec => []OnlyWhatWasSaid
<1>1. PipelineInv => OnlyWhatWasSaid
  <2> SUFFICES ASSUME PipelineInv, reply # None, diagnosis # None
               PROVE  OnlyWhatWasSaid
    BY DEF OnlyWhatWasSaid
  <2>1. /\ reply \in Reply /\ signal \in Signal
        /\ diagnosis = LLMDiagnose(reply, signal)
    BY DEF PipelineInv, TypeOK, Derived
  <2>2. /\ diagnosis.proposed_action =
              IF Named(reply) = OffList THEN "escalate" ELSE Named(reply)
        /\ diagnosis.confidence =
              IF Named(reply) = OffList THEN 30 ELSE Clamp(reply.confidence)
    BY <2>1 DEF LLMDiagnose
  <2>3. \/ diagnosis.proposed_action \in {"escalate", reply.action}
        \/ reply.mentioned = {diagnosis.proposed_action}
    BY <2>1, <2>2, NamedTypes
  <2>4. ASSUME Acts, ConfidenceThreshold > 0
        PROVE  /\ reply.json
               /\ reply.confidence # NaN => reply.confidence >= ConfidenceThreshold
    <3>1. /\ diagnosis.proposed_action \in Remedy
          /\ Evaluate(diagnosis, None, 0).decision = "approved"
      BY <2>4 DEF PipelineInv, TypeOK, Derived, Acts
    <3>2. diagnosis.confidence >= ConfidenceThreshold
      BY <2>1, <3>1, LLMTypes, GateOnRemedy
    <3>3. diagnosis.confidence = Clamp(reply.confidence)
      BY <2>2, <3>1 DEF Remedy
    <3>4. reply.confidence \in Int \union {NaN} /\ ConfidenceThreshold \in Int
      BY <2>1, PolicyAssumption DEF Reply, RawConfidence
    <3>5. reply.confidence # NaN => reply.confidence >= ConfidenceThreshold
      BY <2>4, <3>2, <3>3, <3>4, ClampBounds
    <3>6. ~reply.json => reply.confidence = 0 /\ 0 # NaN
      BY <2>1, NaNAssumption DEF Reply
    <3> QED
      BY <2>4, <3>4, <3>5, <3>6
  <2> QED
    BY <2>3, <2>4 DEF OnlyWhatWasSaid
<1> QED
  BY <1>1, PipelineInvHolds, PTL

=============================================================================
