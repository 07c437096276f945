-------------------------- MODULE EngineRecordProofs --------------------------
(***************************************************************************)
(* What the record of an incident says, for every set of signals, every    *)
(* answer of the ports and every choice of ports that may raise: how it    *)
(* ended, why a human was told, what was changed for it, and that none of  *)
(* it is ever lost. The proofs rest on one invariant, RecordInv, which     *)
(* says how far the incident in process has come at each stage.            *)
(***************************************************************************)
EXTENDS RemediationEngineProofs, SequenceTheorems

-----------------------------------------------------------------------------
(* The invariant. *)

\* An actuator's result is one of three things.
OneOf(r) ==
    \/ r.executed /\ ~r.dry_run /\ ~r.error
    \/ ~r.executed /\ r.dry_run /\ ~r.error /\ DryRun
    \/ ~r.executed /\ ~r.dry_run /\ r.error

\* A stage was only reached because the one before it went well.
Orderly(inc) ==
    /\ inc.verdict # None =>
          inc.diagnosis # None /\ inc.diagnosis.proposed_action \in Remedy
    /\ inc.action_result # None =>
          /\ inc.verdict # None /\ inc.verdict.decision = "approved"
          /\ inc.action_result.action = inc.diagnosis.proposed_action
          /\ inc.action_result.target = TargetOf(inc.diagnosis, inc.signal)
          /\ OneOf(inc.action_result)
    /\ inc.verification # None => inc.action_result # None /\ inc.action_result.executed
    /\ inc.replay_result # None => inc.verification # None /\ inc.verification.recovered

\* How far the incident in process has come when a port is called.
Reached(inc, stage) ==
    /\ stage = "diagnose" => inc.diagnosis = None
    /\ stage # "diagnose" => inc.diagnosis # None
    /\ stage = "gate" => inc.diagnosis.proposed_action \in Remedy /\ inc.verdict = None
    /\ stage = "act" => /\ inc.verdict # None /\ inc.verdict.decision = "approved"
                        /\ inc.action_result = None
    /\ stage = "verify" => /\ inc.action_result # None /\ inc.action_result.executed
                           /\ inc.verification = None
    /\ stage = "replay" => /\ inc.verification # None /\ inc.verification.recovered
                           /\ inc.replay_result = None

\* The three ways to end without a human.
WentWell(inc) ==
    \/ inc.verdict = None /\ inc.diagnosis.proposed_action = "no_op" /\ inc.outcome = "no_action"
    \/ inc.action_result # None /\ inc.action_result.dry_run /\ inc.outcome = "no_action"
    \/ inc.replay_result # None /\ Complete(inc.replay_result) /\ inc.outcome = "resolved"

\* The outcome is the one the stages call for.
Ended(inc) ==
    /\ inc.diagnosis # None
    /\ (inc.outcome = "escalated") = (CauseOf(inc) # None)
    /\ CauseOf(inc) = None => WentWell(inc)

AlertFor(inc) == [service |-> inc.signal.source, reason |-> CauseOf(inc)]

\* A human was told once, of the cause, or not at all.
ToldOf(inc) ==
    alerts[inc.id] = IF CauseOf(inc) = None THEN << >> ELSE <<AlertFor(inc)>>

\* The post-mortem tells the incident's history, and the history ends with it.
Written(inc) ==
    /\ inc.postmortem.timeline = Append(StagesOf(inc), "outcome")
    /\ inc.audit_trail = Append(inc.postmortem.timeline, "postmortem")
    /\ inc.postmortem.escalated = (inc.outcome = "escalated")
    /\ inc.postmortem.data_recovery = RecoveryOf(inc.replay_result)

\* What was executed for an incident was done to the cluster.
Effective(inc) ==
    inc.action_result # None /\ inc.action_result.executed => cluster[inc.id] # << >>

\* The record of an incident accounts for a change made for it.
Accounts(inc) == inc.action_result # None /\ ~inc.action_result.dry_run

InProcessInv ==
    incident # None =>
        /\ Orderly(incident)
        /\ Reached(incident, pc)
        /\ Effective(incident)
        /\ pc # "finish" => /\ incident.audit_trail = StagesOf(incident)
                            /\ alerts[incident.id] = << >>
        /\ pc = "escalate" => why = CauseOf(incident)
        /\ pc = "finish" => /\ incident.audit_trail = Append(StagesOf(incident), "outcome")
                            /\ Ended(incident)
                            /\ ToldOf(incident)

SavedInv ==
    \A id \in Ids : Saved(id) =>
        /\ store[id].id = id
        /\ Orderly(store[id])
        /\ Effective(store[id])
        /\ Ended(store[id])
        /\ ToldOf(store[id])
        /\ Written(store[id])

\* Alerts and changes are on record; a change may only miss its record where a
\* port after the actuator raised.
AlertsKnown == \A id \in Ids : Alerted(id) => id <= created

ChangesOnRecord ==
    \A id \in Ids : cluster[id] # << >> =>
        /\ RecordOf(id) # None => Accounts(RecordOf(id))
        /\ FaultyPorts \subseteq {"diagnoser"} => RecordOf(id) # None

RecordInv == InProcessInv /\ SavedInv /\ AlertsKnown /\ ChangesOnRecord

-----------------------------------------------------------------------------
(* What the enrichers do to the invariant's vocabulary. *)

\* The trace a stage leaves in StagesOf.
Trace(field, stage) == IF field = None THEN << >> ELSE <<stage>>

\* The trace of a stage is a sequence of at most one stage.
LEMMA TraceType ==
    ASSUME NEW field, NEW stage \in Stage
    PROVE  Trace(field, stage) \in Seq(Stage)
BY DEF Trace

\* The stages of an incident up to each of the five.
LEMMA StagesUnfolded ==
    ASSUME NEW inc
    PROVE  StagesOf(inc) =
              (((Trace(inc.diagnosis, "diagnose") \o Trace(inc.verdict, "policy"))
                  \o Trace(inc.action_result, "act")) \o Trace(inc.verification, "verify"))
                  \o Trace(inc.replay_result, "replay")
BY DEF StagesOf, Trace

\* Appending a stage is concatenating its trace.
LEMMA StageAppended ==
    ASSUME NEW s \in Seq(Stage), NEW stage \in Stage
    PROVE  s \o <<stage>> = Append(s, stage) /\ s \o << >> = s /\ << >> \o s = s
BY AppendIsConcat, ConcatEmptySeq

\* with_diagnosis: the first stage is on record, and nothing else
\* (models.py:270-280).
LEMMA DiagnosisRecorded ==
    ASSUME NEW inc \in Incident, Orderly(inc), inc.diagnosis = None,
           NEW d \in Diagnosis, NEW new, new = WithDiagnosis(inc, d)
    PROVE  /\ new.id = inc.id /\ new.signal = inc.signal
           /\ new.verdict = inc.verdict /\ new.action_result = inc.action_result
           /\ new.verification = inc.verification /\ new.replay_result = inc.replay_result
           /\ new.outcome = inc.outcome
           /\ new.diagnosis = d
           /\ new.audit_trail = Append(inc.audit_trail, "diagnose")
           /\ new.verdict = None /\ new.diagnosis # None
           /\ StagesOf(new) = Append(StagesOf(inc), "diagnose")
           /\ CauseOf(new) = IF d.proposed_action = "escalate" THEN "deferred" ELSE None
           /\ Orderly(new)
<1>1. /\ inc.verdict = None /\ inc.action_result = None
      /\ inc.verification = None /\ inc.replay_result = None
  BY DEF Orderly
<1>2. /\ new.id = inc.id /\ new.signal = inc.signal
      /\ new.verdict = inc.verdict /\ new.action_result = inc.action_result
      /\ new.verification = inc.verification /\ new.replay_result = inc.replay_result
      /\ new.outcome = inc.outcome
      /\ new.audit_trail = Append(inc.audit_trail, "diagnose")
      /\ new.diagnosis = d /\ d # None
      /\ new.verdict = None /\ new.action_result = None
      /\ new.verification = None /\ new.replay_result = None
  BY <1>1, NoneAssumption DEF WithDiagnosis, Audit, Incident
<1>3. StagesOf(new) = Append(StagesOf(inc), "diagnose")
  <2>1. "diagnose" \in Stage /\ << >> \in Seq(Stage) /\ <<"diagnose">> \in Seq(Stage)
    BY DEF Stage
  <2>2. /\ StagesOf(inc) = (((<< >> \o << >>) \o << >>) \o << >>) \o << >>
        /\ StagesOf(new) = (((<<"diagnose">> \o << >>) \o << >>) \o << >>) \o << >>
    BY <1>1, <1>2, StagesUnfolded DEF Trace
  <2>3. StagesOf(inc) = << >> /\ StagesOf(new) = <<"diagnose">>
    BY <2>1, <2>2, StageAppended
  <2> QED
    BY <2>1, <2>3, StageAppended
<1>4. CauseOf(new) = IF d.proposed_action = "escalate" THEN "deferred" ELSE None
  BY <1>2 DEF CauseOf
<1>5. Orderly(new)
  BY <1>2 DEF Orderly
<1> QED
  BY <1>2, <1>3, <1>4, <1>5

\* with_verdict (models.py:282-287)
LEMMA VerdictRecorded ==
    ASSUME NEW inc \in Incident, Orderly(inc), inc.verdict = None,
           inc.diagnosis # None, inc.diagnosis.proposed_action \in Remedy,
           NEW v \in PolicyVerdict, NEW new, new = WithVerdict(inc, v)
    PROVE  /\ new.id = inc.id /\ new.signal = inc.signal
           /\ new.diagnosis = inc.diagnosis /\ new.action_result = inc.action_result
           /\ new.verification = inc.verification /\ new.replay_result = inc.replay_result
           /\ new.outcome = inc.outcome
           /\ new.verdict = v
           /\ new.audit_trail = Append(inc.audit_trail, "policy")
           /\ new.action_result = None /\ new.verdict # None
           /\ StagesOf(new) = Append(StagesOf(inc), "policy")
           /\ v.decision = "denied" => CauseOf(new) = "denied"
           /\ v.decision = "requires_approval" => CauseOf(new) = "approval"
           /\ v.decision = "approved" => CauseOf(new) = None
           /\ Orderly(new)
<1>1. inc.action_result = None /\ inc.verification = None /\ inc.replay_result = None
  BY DEF Orderly
<1>2. /\ new.id = inc.id /\ new.signal = inc.signal
      /\ new.diagnosis = inc.diagnosis /\ new.action_result = inc.action_result
      /\ new.verification = inc.verification /\ new.replay_result = inc.replay_result
      /\ new.outcome = inc.outcome
      /\ new.audit_trail = Append(inc.audit_trail, "policy")
      /\ new.diagnosis = inc.diagnosis
      /\ new.verdict = v /\ v # None
      /\ new.action_result = None
      /\ new.verification = None /\ new.replay_result = None
  BY <1>1, NoneAssumption DEF WithVerdict, Audit, Incident
<1>3. StagesOf(new) = Append(StagesOf(inc), "policy")
  <2>1. /\ "policy" \in Stage /\ <<"diagnose">> \in Seq(Stage)
        /\ Append(<<"diagnose">>, "policy") \in Seq(Stage)
    BY DEF Stage
  <2>2. /\ StagesOf(inc) = (((<<"diagnose">> \o << >>) \o << >>) \o << >>) \o << >>
        /\ StagesOf(new) = (((<<"diagnose">> \o <<"policy">>) \o << >>) \o << >>) \o << >>
    BY <1>1, <1>2, StagesUnfolded DEF Trace
  <2> QED
    BY <2>1, <2>2, StageAppended
<1>4. /\ v.decision = "denied" => CauseOf(new) = "denied"
      /\ v.decision = "requires_approval" => CauseOf(new) = "approval"
      /\ v.decision = "approved" => CauseOf(new) = None
  BY <1>2 DEF CauseOf, PolicyVerdict, Decision
<1>5. Orderly(new)
  BY <1>2 DEF Orderly
<1> QED
  BY <1>2, <1>3, <1>4, <1>5

\* with_action_result (models.py:289-296)
LEMMA ActionRecorded ==
    ASSUME NEW inc \in Incident, Orderly(inc), inc.action_result = None,
           inc.diagnosis # None, inc.verdict # None, inc.verdict.decision = "approved",
           NEW r \in ActionResult, OneOf(r),
           r.action = inc.diagnosis.proposed_action,
           r.target = TargetOf(inc.diagnosis, inc.signal),
           NEW new, new = WithActionResult(inc, r)
    PROVE  /\ new.id = inc.id /\ new.signal = inc.signal
           /\ new.diagnosis = inc.diagnosis /\ new.verdict = inc.verdict
           /\ new.verification = inc.verification /\ new.replay_result = inc.replay_result
           /\ new.outcome = inc.outcome
           /\ new.action_result = r
           /\ new.audit_trail = Append(inc.audit_trail, "act")
           /\ new.verification = None /\ new.action_result # None
           /\ StagesOf(new) = Append(StagesOf(inc), "act")
           /\ CauseOf(new) = IF r.error THEN "action_failed" ELSE None
           /\ Orderly(new)
<1>1. inc.verification = None /\ inc.replay_result = None
  BY DEF Orderly
<1>2. /\ new.id = inc.id /\ new.signal = inc.signal
      /\ new.diagnosis = inc.diagnosis /\ new.verdict = inc.verdict
      /\ new.verification = inc.verification /\ new.replay_result = inc.replay_result
      /\ new.outcome = inc.outcome
      /\ new.audit_trail = Append(inc.audit_trail, "act")
      /\ new.diagnosis = inc.diagnosis /\ new.verdict = inc.verdict
      /\ new.signal = inc.signal
      /\ new.action_result = r /\ r # None
      /\ new.verification = None /\ new.replay_result = None
  BY <1>1, NoneAssumption DEF WithActionResult, Audit, Incident
<1>3. StagesOf(new) = Append(StagesOf(inc), "act")
  <2> DEFINE before == Trace(inc.diagnosis, "diagnose") \o Trace(inc.verdict, "policy")
  <2>1. before \in Seq(Stage)
    BY TraceType DEF Stage
  <2>2. "act" \in Stage /\ Append(before, "act") \in Seq(Stage)
    BY <2>1 DEF Stage
  <2>3. /\ StagesOf(inc) = ((before \o << >>) \o << >>) \o << >>
        /\ StagesOf(new) = ((before \o <<"act">>) \o << >>) \o << >>
    BY <1>1, <1>2, StagesUnfolded DEF Trace
  <2> HIDE DEF before
  <2> QED
    BY <2>1, <2>2, <2>3, StageAppended
<1>4. CauseOf(new) = IF r.error THEN "action_failed" ELSE None
  BY <1>2 DEF CauseOf
<1>5. Orderly(new)
  BY <1>2 DEF Orderly
<1> QED
  BY <1>2, <1>3, <1>4, <1>5

\* with_verification (models.py:298-305)
LEMMA VerificationRecorded ==
    ASSUME NEW inc \in Incident, Orderly(inc), inc.verification = None,
           inc.diagnosis # None, inc.action_result # None, inc.action_result.executed,
           NEW v \in Verification, NEW new, new = WithVerification(inc, v)
    PROVE  /\ new.id = inc.id /\ new.signal = inc.signal
           /\ new.diagnosis = inc.diagnosis /\ new.verdict = inc.verdict
           /\ new.action_result = inc.action_result /\ new.replay_result = inc.replay_result
           /\ new.outcome = inc.outcome
           /\ new.verification = v
           /\ new.audit_trail = Append(inc.audit_trail, "verify")
           /\ new.replay_result = None /\ new.verification # None
           /\ StagesOf(new) = Append(StagesOf(inc), "verify")
           /\ CauseOf(new) = IF v.recovered THEN None ELSE "not_recovered"
           /\ Orderly(new)
<1>1. inc.replay_result = None
  BY DEF Orderly
<1>2. /\ new.id = inc.id /\ new.signal = inc.signal
      /\ new.diagnosis = inc.diagnosis /\ new.verdict = inc.verdict
      /\ new.action_result = inc.action_result /\ new.replay_result = inc.replay_result
      /\ new.outcome = inc.outcome
      /\ new.audit_trail = Append(inc.audit_trail, "verify")
      /\ new.verification = v /\ v # None
      /\ new.replay_result = None
  BY <1>1, NoneAssumption DEF WithVerification, Audit, Incident
<1>3. StagesOf(new) = Append(StagesOf(inc), "verify")
  <2> DEFINE before == (Trace(inc.diagnosis, "diagnose") \o Trace(inc.verdict, "policy"))
                         \o Trace(inc.action_result, "act")
  <2>1. before \in Seq(Stage)
    BY TraceType DEF Stage
  <2>2. "verify" \in Stage /\ Append(before, "verify") \in Seq(Stage)
    BY <2>1 DEF Stage
  <2>3. /\ StagesOf(inc) = (before \o << >>) \o << >>
        /\ StagesOf(new) = (before \o <<"verify">>) \o << >>
    BY <1>1, <1>2, StagesUnfolded DEF Trace
  <2> HIDE DEF before
  <2> QED
    BY <2>1, <2>2, <2>3, StageAppended
<1>4. CauseOf(new) = IF v.recovered THEN None ELSE "not_recovered"
  BY <1>2 DEF CauseOf
<1>5. Orderly(new)
  BY <1>2 DEF Orderly
<1> QED
  BY <1>2, <1>3, <1>4, <1>5

\* with_replay_result (models.py:307-313)
LEMMA ReplayRecorded ==
    ASSUME NEW inc \in Incident, Orderly(inc), inc.replay_result = None,
           inc.diagnosis # None, inc.verification # None, inc.verification.recovered,
           NEW r \in ReplayResult, NEW new, new = WithReplayResult(inc, r)
    PROVE  /\ new.id = inc.id /\ new.signal = inc.signal
           /\ new.diagnosis = inc.diagnosis /\ new.verdict = inc.verdict
           /\ new.action_result = inc.action_result /\ new.verification = inc.verification
           /\ new.outcome = inc.outcome
           /\ new.replay_result = r
           /\ new.audit_trail = Append(inc.audit_trail, "replay")
           /\ new.replay_result # None
           /\ StagesOf(new) = Append(StagesOf(inc), "replay")
           /\ CauseOf(new) = IF Complete(r) THEN None ELSE "partial_recovery"
           /\ Orderly(new)
<1>1. /\ new.id = inc.id /\ new.signal = inc.signal
      /\ new.diagnosis = inc.diagnosis /\ new.verdict = inc.verdict
      /\ new.action_result = inc.action_result /\ new.verification = inc.verification
      /\ new.outcome = inc.outcome
      /\ new.audit_trail = Append(inc.audit_trail, "replay")
      /\ new.replay_result = r /\ r # None
  BY NoneAssumption DEF WithReplayResult, Audit, Incident
<1>2. StagesOf(new) = Append(StagesOf(inc), "replay")
  <2> DEFINE before == ((Trace(inc.diagnosis, "diagnose") \o Trace(inc.verdict, "policy"))
                         \o Trace(inc.action_result, "act"))
                         \o Trace(inc.verification, "verify")
  <2>1. before \in Seq(Stage) /\ "replay" \in Stage
    BY TraceType DEF Stage
  <2>2. /\ StagesOf(inc) = before \o << >>
        /\ StagesOf(new) = before \o <<"replay">>
    BY <1>1, StagesUnfolded DEF Trace
  <2> HIDE DEF before
  <2> QED
    BY <2>1, <2>2, StageAppended
<1>3. CauseOf(new) = IF Complete(r) THEN None ELSE "partial_recovery"
  BY <1>1 DEF CauseOf
<1>4. Orderly(new)
  BY <1>1 DEF Orderly
<1> QED
  BY <1>1, <1>2, <1>3, <1>4

\* What is read off the stages is read off their fields only.
LEMMA SameStages ==
    ASSUME NEW inc, NEW new,
           new.diagnosis = inc.diagnosis, new.verdict = inc.verdict,
           new.action_result = inc.action_result, new.verification = inc.verification,
           new.replay_result = inc.replay_result, new.signal = inc.signal
    PROVE  /\ StagesOf(new) = StagesOf(inc)
           /\ CauseOf(new) = CauseOf(inc)
           /\ Orderly(new) <=> Orderly(inc)
<1>1. StagesOf(new) = StagesOf(inc)
  BY StagesUnfolded
<1>2. CauseOf(new) = CauseOf(inc)
  BY DEF CauseOf
<1>3. Orderly(new) <=> Orderly(inc)
  BY DEF Orderly
<1> QED
  BY <1>1, <1>2, <1>3

\* with_outcome (models.py:323-325)
LEMMA OutcomeRecorded ==
    ASSUME NEW inc \in Incident, NEW outcome \in Outcome,
           NEW new, new = WithOutcome(inc, outcome)
    PROVE  /\ new.id = inc.id /\ new.signal = inc.signal
           /\ new.diagnosis = inc.diagnosis /\ new.verdict = inc.verdict
           /\ new.action_result = inc.action_result /\ new.verification = inc.verification
           /\ new.replay_result = inc.replay_result
           /\ new.outcome = outcome
           /\ new.audit_trail = Append(inc.audit_trail, "outcome")
           /\ StagesOf(new) = StagesOf(inc)
           /\ CauseOf(new) = CauseOf(inc)
           /\ Orderly(new) <=> Orderly(inc)
<1>1. /\ new.id = inc.id /\ new.signal = inc.signal
      /\ new.diagnosis = inc.diagnosis /\ new.verdict = inc.verdict
      /\ new.action_result = inc.action_result /\ new.verification = inc.verification
      /\ new.replay_result = inc.replay_result
      /\ new.outcome = outcome
      /\ new.audit_trail = Append(inc.audit_trail, "outcome")
  BY DEF WithOutcome, Audit, Incident
<1> QED
  BY <1>1, SameStages

\* with_postmortem (models.py:315-321): the draft is what the record says.
LEMMA PostmortemRecorded ==
    ASSUME NEW inc \in Incident, NEW new, new = WithPostmortem(inc, Draft(inc))
    PROVE  /\ new.id = inc.id /\ new.signal = inc.signal
           /\ new.diagnosis = inc.diagnosis /\ new.verdict = inc.verdict
           /\ new.action_result = inc.action_result
           /\ new.verification = inc.verification
           /\ new.replay_result = inc.replay_result
           /\ new.outcome = inc.outcome
           /\ new.postmortem.escalated = (inc.outcome = "escalated")
           /\ new.postmortem.timeline = inc.audit_trail
           /\ new.postmortem.data_recovery = RecoveryOf(inc.replay_result)
           /\ new.audit_trail = Append(inc.audit_trail, "postmortem")
           /\ StagesOf(new) = StagesOf(inc)
           /\ CauseOf(new) = CauseOf(inc)
           /\ Orderly(new) <=> Orderly(inc)
<1>1. /\ new.id = inc.id /\ new.signal = inc.signal
      /\ new.diagnosis = inc.diagnosis /\ new.verdict = inc.verdict
      /\ new.action_result = inc.action_result
      /\ new.verification = inc.verification
      /\ new.replay_result = inc.replay_result
      /\ new.outcome = inc.outcome
      /\ new.postmortem = Draft(inc)
      /\ new.audit_trail = Append(inc.audit_trail, "postmortem")
  BY DEF WithPostmortem, Audit, Incident
<1> QED
  BY <1>1, SameStages DEF Draft

-----------------------------------------------------------------------------
(* Every step keeps the invariant. *)

\* While an incident is in process it is the last one created.
LEMMA IncidentInHand ==
    ASSUME TypeInv, MutationInv, pc \notin {"idle", "next"}
    PROVE  /\ incident # None /\ incident \in Incident
           /\ incident.id = created /\ created \in Ids
           /\ store[created] = None
<1>1. /\ incident # None /\ incident \in Incident
      /\ incident.id = created /\ store[created] = None /\ created >= 1
  BY DEF MutationInv, FreshId, TypeInv, TypeOK
<1>2. created \in Nat /\ Len(pending) \in Nat /\ created + Len(pending) <= MaxIncidents
  BY EngineAssumption DEF TypeInv, TypeOK
<1>3. created \in Ids
  BY <1>1, <1>2, EngineAssumption DEF Ids
<1> QED
  BY <1>1, <1>3

\* A stage before the escalator and _finish ends in one of three ways; whichever
\* it is, the enriched incident `new` carries the invariant on, provided the
\* stage has left on it what the next port relies on.
LEMMA StageEnds ==
    ASSUME TypeInv, TypeInv', MutationInv, RecordInv,
           pc \in {"diagnose", "gate", "act", "verify", "replay"},
           UNCHANGED <<created, store, alerts>>,
           \A id \in Ids : id # created => cluster'[id] = cluster[id],
           NEW new \in Incident,
           new.id = incident.id, new.signal = incident.signal,
           new.diagnosis # None, Orderly(new),
           new.audit_trail = StagesOf(new),
           cluster'[created] # << >> => Accounts(new),
           new.action_result # None /\ new.action_result.executed
              => cluster'[created] # << >>,
           \/ \E outcome \in {"resolved", "no_action"} :
                 /\ Close(new, outcome)
                 /\ CauseOf(new) = None
                 /\ WentWell([new EXCEPT !.outcome = outcome])
           \/ HandOff(new, CauseOf(new)) /\ CauseOf(new) # None
           \/ \E stage \in {"gate", "act", "verify", "replay"} :
                 Proceed(new, stage) /\ Reached(new, stage)
    PROVE  RecordInv'
<1>1. /\ incident # None /\ incident.id = created /\ store[created] = None
      /\ created \in Ids
      /\ alerts[created] = << >> /\ pc # "finish"
  BY IncidentInHand DEF RecordInv, InProcessInv
<1>2. /\ incident' # None /\ incident'.id = created
      /\ incident'.signal = new.signal
      /\ incident'.diagnosis = new.diagnosis /\ incident'.verdict = new.verdict
      /\ incident'.action_result = new.action_result
      /\ incident'.verification = new.verification
      /\ incident'.replay_result = new.replay_result
  <2>1. incident' # None
    BY DEF Close, HandOff, Proceed, TypeInv, TypeOK
  <2>2. incident' = new \/ \E outcome \in Outcome : incident' = WithOutcome(new, outcome)
    BY DEF Close, HandOff, Proceed, Outcome
  <2> QED
    BY <1>1, <2>1, <2>2, OutcomeRecorded
<1>3. /\ StagesOf(incident') = StagesOf(new)
      /\ CauseOf(incident') = CauseOf(new)
      /\ Orderly(incident')
  BY <1>2, SameStages
<1>4. InProcessInv'
  <2>1. Effective(incident)'
    BY <1>2, <1>1 DEF Effective
  <2>2. CASE \E outcome \in {"resolved", "no_action"} :
               /\ Close(new, outcome)
               /\ CauseOf(new) = None
               /\ WentWell([new EXCEPT !.outcome = outcome])
    <3>1. PICK outcome \in {"resolved", "no_action"} :
             /\ Close(new, outcome)
             /\ CauseOf(new) = None
             /\ WentWell([new EXCEPT !.outcome = outcome])
      BY <2>2
    <3>2. /\ incident' = WithOutcome(new, outcome) /\ pc' = "finish"
          /\ incident'.outcome = outcome
          /\ incident'.audit_trail = Append(StagesOf(new), "outcome")
      BY <3>1, OutcomeRecorded DEF Close, Outcome
    <3>3. WentWell(incident')
      BY <1>2, <3>1, <3>2 DEF WentWell, Incident
    <3>4. Ended(incident')
      BY <1>2, <1>3, <3>1, <3>2, <3>3 DEF Ended
    <3>5. ToldOf(incident)'
      BY <1>1, <1>2, <1>3, <3>1 DEF ToldOf
    <3>6. Reached(incident', pc')
      BY <1>2, <3>2 DEF Reached
    <3> QED
      BY <1>2, <1>3, <2>1, <3>2, <3>4, <3>5, <3>6 DEF InProcessInv
  <2>3. CASE HandOff(new, CauseOf(new)) /\ CauseOf(new) # None
    <3>1. incident' = new /\ pc' = "escalate" /\ why' = CauseOf(new)
      BY <2>3 DEF HandOff
    <3>2. alerts'[incident'.id] = << >>
      BY <1>1, <1>2
    <3>3. Reached(incident', pc')
      BY <3>1 DEF Reached
    <3> QED
      BY <1>3, <2>1, <3>1, <3>2, <3>3 DEF InProcessInv
  <2>4. CASE \E stage \in {"gate", "act", "verify", "replay"} :
               Proceed(new, stage) /\ Reached(new, stage)
    <3>1. incident' = new /\ pc' \in {"gate", "act", "verify", "replay"}
          /\ Reached(new, pc')
      BY <2>4 DEF Proceed
    <3>2. alerts'[incident'.id] = << >>
      BY <1>1, <1>2
    <3> QED
      BY <1>3, <2>1, <3>1, <3>2 DEF InProcessInv
  <2> QED
    BY <2>2, <2>3, <2>4
<1>5. SavedInv' /\ AlertsKnown'
  <2>1. \A id \in Ids : Saved(id) => cluster'[id] = cluster[id]
    BY <1>1 DEF Saved
  <2> QED
    BY <2>1 DEF RecordInv, SavedInv, AlertsKnown, Alerted, Saved, Effective, ToldOf, AlertFor
<1>6. ChangesOnRecord'
  <2>1. \A id \in Ids : id # created =>
           RecordOf(id) = store[id] /\ RecordOf(id)' = store[id]
    BY <1>1, <1>2 DEF RecordOf, InProcess
  <2>2. RecordOf(created)' = incident'
    BY <1>1, <1>2 DEF RecordOf, InProcess
  <2>3. cluster'[created] # << >> => Accounts(incident')
    BY <1>2 DEF Accounts
  <2>4. ASSUME NEW id \in Ids, cluster'[id] # << >>
        PROVE  /\ RecordOf(id)' # None => Accounts(RecordOf(id)')
               /\ FaultyPorts \subseteq {"diagnoser"} => RecordOf(id)' # None
    <3>1. CASE id = created
      BY <1>2, <2>2, <2>3, <2>4, <3>1
    <3>2. CASE id # created
      BY <2>1, <2>4, <3>2 DEF RecordInv, ChangesOnRecord
    <3> QED
      BY <3>1, <3>2
  <2> QED
    BY <2>4 DEF ChangesOnRecord, Accounts, Ids
<1> QED
  BY <1>4, <1>5, <1>6 DEF RecordInv

\* What an executed, reported or refused action says of the cluster
\* (kubernetes.py:60-100).
LEMMA ExecutionsTell ==
    ASSUME NEW inc \in Incident, inc.diagnosis # None,
           inc.diagnosis.proposed_action \in Remedy,
           NEW attempt \in Executions(inc, DryRun)
    PROVE  /\ OneOf(attempt.result)
           /\ attempt.result.action = inc.diagnosis.proposed_action
           /\ attempt.result.target = TargetOf(inc.diagnosis, inc.signal)
           /\ attempt.result.executed => attempt.effects = <<OperationOf(inc)>>
           /\ attempt.result.dry_run => attempt.effects = << >>
<1>1. DryRun \in BOOLEAN
  BY EngineAssumption
<1>2. CASE DryRun
  <2>1. attempt = Attempt(Result(inc, FALSE, TRUE, FALSE), << >>)
    BY <1>2 DEF Executions
  <2> QED
    BY <1>2, <2>1 DEF Attempt, Result, OneOf
<1>3. CASE ~DryRun
  <2>1. \/ attempt = Attempt(Result(inc, TRUE, FALSE, FALSE), <<OperationOf(inc)>>)
        \/ \E effects \in {<< >>, <<OperationOf(inc)>>} :
              attempt = Attempt(Result(inc, FALSE, FALSE, TRUE), effects)
    BY <1>3 DEF Executions
  <2> QED
    BY <2>1 DEF Attempt, Result, OneOf
<1> QED
  BY <1>2, <1>3

\* Nothing was changed for the incident in process before the actuator is called.
LEMMA NothingYet ==
    ASSUME TypeInv, MutationInv, pc \in {"diagnose", "gate", "act"}
    PROVE  cluster[created] = << >>
BY IncidentInHand DEF MutationInv, ActedLate

\* The changes made for the incident in process are accounted for by its record.
LEMMA Accounted ==
    ASSUME TypeInv, MutationInv, RecordInv, pc \notin {"idle", "next"}
    PROVE  cluster[created] # << >> => Accounts(incident)
BY IncidentInHand DEF RecordInv, ChangesOnRecord, RecordOf, InProcess

\* Stage 2 (engine.py:111-122)
LEMMA DiagnoseStep ==
    ASSUME TypeInv, TypeInv', MutationInv, RecordInv,
           NEW d \in Diagnoses, Diagnose(d)
    PROVE  RecordInv'
<1>1. pc = "diagnose" /\ d \in Diagnosis
  BY EngineAssumption DEF Diagnose
<1>2. /\ incident # None /\ incident \in Incident /\ incident.id = created
      /\ Orderly(incident) /\ incident.diagnosis = None
      /\ incident.audit_trail = StagesOf(incident)
  BY <1>1, IncidentInHand DEF RecordInv, InProcessInv, Reached
<1> DEFINE new == WithDiagnosis(incident, d)
<1>3. new \in Incident
  BY <1>1, <1>2, WithDiagnosisType
<1>4. /\ new.id = incident.id /\ new.signal = incident.signal
      /\ new.diagnosis = d /\ new.diagnosis # None
      /\ new.verdict = None /\ Orderly(new)
      /\ new.audit_trail = StagesOf(new)
      /\ CauseOf(new) = IF d.proposed_action = "escalate" THEN "deferred" ELSE None
  BY <1>1, <1>2, DiagnosisRecorded
<1>5. \/ d.proposed_action = "no_op"    /\ Close(new, "no_action")
      \/ d.proposed_action = "escalate" /\ HandOff(new, "deferred")
      \/ d.proposed_action \in Remedy   /\ Proceed(new, "gate")
  BY DEF Diagnose
<1>6. /\ UNCHANGED <<created, store, alerts>> /\ cluster' = cluster
      /\ cluster[created] = << >>
  BY <1>1, NothingYet DEF Diagnose
<1> HIDE DEF new
<1>7. new.action_result = None
  BY <1>4 DEF Orderly
<1>8. CASE d.proposed_action = "no_op" /\ Close(new, "no_action")
  <2>1. WentWell([new EXCEPT !.outcome = "no_action"])
    BY <1>3, <1>4, <1>8 DEF WentWell, Incident
  <2> QED
    BY <1>1, <1>2, <1>3, <1>4, <1>6, <1>7, <1>8, <2>1, StageEnds
<1>9. CASE d.proposed_action = "escalate" /\ HandOff(new, "deferred")
  <2>1. CauseOf(new) # None
    BY <1>4, <1>9, EngineAssumption DEF EscalationReason
  <2> QED
    BY <1>1, <1>2, <1>3, <1>4, <1>6, <1>7, <1>9, <2>1, StageEnds
<1>10. CASE d.proposed_action \in Remedy /\ Proceed(new, "gate")
  <2>1. Reached(new, "gate")
    BY <1>4, <1>10 DEF Reached
  <2> QED
    BY <1>1, <1>2, <1>3, <1>4, <1>6, <1>7, <1>10, <2>1, StageEnds
<1> QED
  BY <1>5, <1>8, <1>9, <1>10

\* Stage 3 (engine.py:124-131)
LEMMA GateStep ==
    ASSUME TypeInv, TypeInv', MutationInv, RecordInv,
           NEW v \in Verdicts, Gate(v)
    PROVE  RecordInv'
<1>1. pc = "gate" /\ v \in PolicyVerdict
  BY EngineAssumption DEF Gate
<1>2. /\ incident # None /\ incident \in Incident /\ incident.id = created
      /\ Orderly(incident) /\ incident.diagnosis # None
      /\ incident.diagnosis.proposed_action \in Remedy /\ incident.verdict = None
      /\ incident.audit_trail = StagesOf(incident)
  BY <1>1, IncidentInHand DEF RecordInv, InProcessInv, Reached
<1> DEFINE new == WithVerdict(incident, v)
<1>3. new \in Incident
  BY <1>1, <1>2, WithVerdictType
<1>4. /\ new.id = incident.id /\ new.signal = incident.signal
      /\ new.diagnosis # None /\ new.verdict = v /\ new.verdict # None
      /\ new.action_result = None /\ Orderly(new)
      /\ new.audit_trail = StagesOf(new)
      /\ v.decision = "denied" => CauseOf(new) = "denied"
      /\ v.decision = "requires_approval" => CauseOf(new) = "approval"
      /\ v.decision = "approved" => CauseOf(new) = None
  BY <1>1, <1>2, VerdictRecorded
<1>5. \/ v.decision = "denied"            /\ HandOff(new, "denied")
      \/ v.decision = "requires_approval" /\ HandOff(new, "approval")
      \/ v.decision = "approved"          /\ Proceed(new, "act")
  BY DEF Gate
<1>6. /\ UNCHANGED <<created, store, alerts>> /\ cluster' = cluster
      /\ cluster[created] = << >>
  BY <1>1, NothingYet DEF Gate
<1> HIDE DEF new
<1>7. CASE v.decision \in {"denied", "requires_approval"}
  <2>1. CauseOf(new) # None /\ HandOff(new, CauseOf(new))
    BY <1>4, <1>5, <1>7, EngineAssumption DEF EscalationReason
  <2> QED
    BY <1>1, <1>2, <1>3, <1>4, <1>6, <2>1, StageEnds
<1>8. CASE v.decision = "approved" /\ Proceed(new, "act")
  <2>1. Reached(new, "act")
    BY <1>4, <1>8 DEF Reached
  <2> QED
    BY <1>1, <1>2, <1>3, <1>4, <1>6, <1>8, <2>1, StageEnds
<1> QED
  BY <1>5, <1>7, <1>8

\* Stage 4 (engine.py:133-147)
LEMMA ActStep ==
    ASSUME TypeInv, TypeInv', MutationInv, RecordInv, pc = "act",
           NEW attempt \in Executions(incident, DryRun), Act(attempt)
    PROVE  RecordInv'
<1>1. /\ incident # None /\ incident \in Incident /\ incident.id = created
      /\ Orderly(incident) /\ incident.diagnosis # None
      /\ incident.verdict # None /\ incident.verdict.decision = "approved"
      /\ incident.action_result = None
      /\ incident.audit_trail = StagesOf(incident)
  BY IncidentInHand DEF RecordInv, InProcessInv, Reached
<1>2. incident.diagnosis.proposed_action \in Remedy
  BY <1>1 DEF Orderly
<1> DEFINE r == attempt.result
           new == WithActionResult(incident, r)
<1>3. /\ r \in ActionResult /\ OneOf(r)
      /\ r.action = incident.diagnosis.proposed_action
      /\ r.target = TargetOf(incident.diagnosis, incident.signal)
  BY <1>1, <1>2, ExecutionsType, ExecutionsTell, EngineAssumption
<1>4. /\ r.executed => attempt.effects # << >>
      /\ r.dry_run => attempt.effects = << >>
      /\ << >> \o attempt.effects = attempt.effects
  <2>1. attempt.effects \in Seq(Operation)
    BY <1>1, ExecutionsType, EngineAssumption
  <2>2. << >> \o attempt.effects = attempt.effects
    BY <2>1
  <2>3. /\ r.executed => attempt.effects = <<OperationOf(incident)>>
        /\ r.dry_run => attempt.effects = << >>
    BY <1>1, <1>2, ExecutionsTell
  <2>4. <<OperationOf(incident)>> # << >>
    OBVIOUS
  <2> QED
    BY <2>2, <2>3, <2>4, Zenon
<1> HIDE DEF r
<1>5. new \in Incident
  BY <1>1, <1>3, WithActionResultType
<1>6. /\ new.id = incident.id /\ new.signal = incident.signal
      /\ new.diagnosis = incident.diagnosis
      /\ new.action_result = r /\ new.action_result # None
      /\ new.verification = None /\ Orderly(new)
      /\ new.audit_trail = StagesOf(new)
      /\ CauseOf(new) = IF r.error THEN "action_failed" ELSE None
  <2> HIDE DEF new
  <2>1. new = WithActionResult(incident, r)
    BY DEF new
  <2> QED
    BY <1>1, <1>3, <2>1, ActionRecorded
<1>7. \/ r.error                /\ HandOff(new, "action_failed")
      \/ ~r.error /\ r.dry_run  /\ Close(new, "no_action")
      \/ ~r.error /\ ~r.dry_run /\ Proceed(new, "verify")
  BY DEF Act, r
<1> HIDE DEF new
<1>8. UNCHANGED <<created, store, alerts>>
  BY DEF Act
<1>9. /\ cluster'[created] = attempt.effects
      /\ \A id \in Ids : id # created => cluster'[id] = cluster[id]
  <2>1. cluster \in [Ids -> Seq(Operation)] /\ created \in Ids
    BY IncidentInHand DEF TypeInv, TypeOK
  <2>2. cluster' = [cluster EXCEPT ![created] = @ \o attempt.effects]
    BY <1>1 DEF Act
  <2>3. cluster'[created] = << >> \o attempt.effects
    BY <2>1, <2>2, NothingYet
  <2> QED
    BY <1>4, <2>1, <2>2, <2>3
<1>10. /\ cluster'[created] # << >> => Accounts(new)
       /\ new.action_result.executed => cluster'[created] # << >>
  BY <1>4, <1>6, <1>9, Zenon DEF Accounts
<1>11. CASE r.error /\ HandOff(new, "action_failed")
  <2>1. CauseOf(new) # None
    BY <1>6, <1>11, EngineAssumption DEF EscalationReason
  <2> QED
    BY <1>1, <1>5, <1>6, <1>8, <1>9, <1>10, <1>11, <2>1, StageEnds
<1>12. CASE ~r.error /\ r.dry_run /\ Close(new, "no_action")
  <2>1. WentWell([new EXCEPT !.outcome = "no_action"])
    BY <1>5, <1>6, <1>12 DEF WentWell, Incident
  <2> QED
    BY <1>1, <1>5, <1>6, <1>8, <1>9, <1>10, <1>12, <2>1, StageEnds
<1>13. CASE ~r.error /\ ~r.dry_run /\ Proceed(new, "verify")
  <2>1. Reached(new, "verify")
    BY <1>1, <1>3, <1>6, <1>13 DEF Reached, OneOf
  <2> QED
    BY <1>1, <1>5, <1>6, <1>8, <1>9, <1>10, <1>13, <2>1, StageEnds
<1> QED
  BY <1>7, <1>11, <1>12, <1>13

\* Stage 5 (engine.py:149-155)
LEMMA VerifyStep ==
    ASSUME TypeInv, TypeInv', MutationInv, RecordInv,
           NEW v \in Verification, Verify(v)
    PROVE  RecordInv'
<1>1. /\ pc = "verify"
      /\ incident # None /\ incident \in Incident /\ incident.id = created
      /\ Orderly(incident) /\ incident.diagnosis # None
      /\ incident.action_result # None /\ incident.action_result.executed
      /\ incident.verification = None
      /\ incident.audit_trail = StagesOf(incident)
      /\ cluster[incident.id] # << >>
  BY IncidentInHand DEF Verify, RecordInv, InProcessInv, Reached, Effective
<1> DEFINE new == WithVerification(incident, v)
<1>2. new \in Incident
  BY <1>1, WithVerificationType
<1>3. /\ new.id = incident.id /\ new.signal = incident.signal
      /\ new.diagnosis = incident.diagnosis
      /\ new.action_result = incident.action_result
      /\ new.verification = v /\ new.verification # None
      /\ new.replay_result = None /\ Orderly(new)
      /\ new.audit_trail = StagesOf(new)
      /\ CauseOf(new) = IF v.recovered THEN None ELSE "not_recovered"
  BY <1>1, VerificationRecorded
<1>4. \/ v.recovered  /\ Proceed(new, "replay")
      \/ ~v.recovered /\ HandOff(new, "not_recovered")
  BY DEF Verify
<1> HIDE DEF new
<1>5. /\ UNCHANGED <<created, store, alerts>> /\ cluster' = cluster
      /\ cluster[created] # << >> /\ Accounts(new)
  BY <1>1, <1>3, Accounted DEF Verify, Accounts
<1>6. CASE v.recovered /\ Proceed(new, "replay")
  <2>1. Reached(new, "replay")
    BY <1>1, <1>3, <1>6 DEF Reached
  <2> QED
    BY <1>1, <1>2, <1>3, <1>5, <1>6, <2>1, StageEnds
<1>7. CASE ~v.recovered /\ HandOff(new, "not_recovered")
  <2>1. CauseOf(new) # None
    BY <1>3, <1>7, EngineAssumption DEF EscalationReason
  <2> QED
    BY <1>1, <1>2, <1>3, <1>5, <1>7, <2>1, StageEnds
<1> QED
  BY <1>4, <1>6, <1>7

\* Stage 6 (engine.py:157-170)
LEMMA ReplayStep ==
    ASSUME TypeInv, TypeInv', MutationInv, RecordInv,
           NEW r \in Replays, Replay(r)
    PROVE  RecordInv'
<1>1. /\ pc = "replay" /\ r \in ReplayResult
      /\ incident # None /\ incident \in Incident /\ incident.id = created
      /\ Orderly(incident) /\ incident.diagnosis # None
      /\ incident.verification # None /\ incident.verification.recovered
      /\ incident.replay_result = None
      /\ incident.audit_trail = StagesOf(incident)
      /\ incident.action_result # None /\ incident.action_result.executed
      /\ cluster[incident.id] # << >>
  BY IncidentInHand, ReplaysType
     DEF Replay, RecordInv, InProcessInv, Reached, Effective, Orderly
<1> DEFINE new == WithReplayResult(incident, r)
<1>2. new \in Incident
  BY <1>1, WithReplayResultType
<1>3. /\ new.id = incident.id /\ new.signal = incident.signal
      /\ new.diagnosis = incident.diagnosis
      /\ new.action_result = incident.action_result
      /\ new.replay_result = r /\ new.replay_result # None /\ Orderly(new)
      /\ new.audit_trail = StagesOf(new)
      /\ CauseOf(new) = IF Complete(r) THEN None ELSE "partial_recovery"
  BY <1>1, ReplayRecorded
<1>4. \/ Complete(r)  /\ Close(new, "resolved")
      \/ ~Complete(r) /\ HandOff(new, "partial_recovery")
  BY DEF Replay
<1> HIDE DEF new
<1>5. /\ UNCHANGED <<created, store, alerts>> /\ cluster' = cluster
      /\ cluster[created] # << >> /\ Accounts(new)
  BY <1>1, <1>3, Accounted DEF Replay, Accounts
<1>6. CASE Complete(r) /\ Close(new, "resolved")
  <2>1. WentWell([new EXCEPT !.outcome = "resolved"])
    BY <1>2, <1>3, <1>6 DEF WentWell, Incident
  <2> QED
    BY <1>1, <1>2, <1>3, <1>5, <1>6, <2>1, StageEnds
<1>7. CASE ~Complete(r) /\ HandOff(new, "partial_recovery")
  <2>1. CauseOf(new) # None
    BY <1>3, <1>7, EngineAssumption DEF EscalationReason
  <2> QED
    BY <1>1, <1>2, <1>3, <1>5, <1>7, <2>1, StageEnds
<1> QED
  BY <1>4, <1>6, <1>7

\* What is on record of the saved incidents is not disturbed by an alert for the
\* one in process.
LEMMA SavedUndisturbed ==
    ASSUME TypeInv, MutationInv, RecordInv, pc \notin {"idle", "next"},
           alerts' \in {alerts, Deliver},
           UNCHANGED <<created, store, cluster>>
    PROVE  SavedInv' /\ AlertsKnown'
<1>1. incident.id = created /\ created \in Nat
  BY IncidentInHand DEF TypeInv, TypeOK
<1>2. \A id \in Ids : Saved(id) => id # created
  BY IncidentInHand DEF Saved
<1>3. \A id \in Ids : id # created => alerts'[id] = alerts[id]
  BY <1>1 DEF Deliver, TypeInv, TypeOK
<1>4. SavedInv'
  BY <1>2, <1>3 DEF RecordInv, SavedInv, Saved, Effective, ToldOf, AlertFor
<1>5. AlertsKnown'
  BY <1>1, <1>3 DEF RecordInv, AlertsKnown, Alerted, Ids
<1> QED
  BY <1>4, <1>5

\* _do_escalate (engine.py:176-179)
LEMMA EscalateStep ==
    ASSUME TypeInv, TypeInv', MutationInv, RecordInv, Escalate
    PROVE  RecordInv'
<1>1. /\ pc = "escalate"
      /\ incident # None /\ incident \in Incident /\ incident.id = created
      /\ Orderly(incident) /\ incident.diagnosis # None /\ Effective(incident)
      /\ incident.audit_trail = StagesOf(incident)
      /\ alerts[created] = << >> /\ created \in Ids
      /\ why = CauseOf(incident) /\ why # None
  BY IncidentInHand DEF Escalate, RecordInv, InProcessInv, Reached, TypeInv, TypeOK
<1>2. /\ incident' = WithOutcome(incident, "escalated") /\ incident' # None
      /\ pc' = "finish" /\ alerts' = Deliver
      /\ UNCHANGED <<created, store, cluster>>
  BY DEF Escalate, TypeInv, TypeOK
<1>3. /\ incident'.id = created /\ incident'.signal = incident.signal
      /\ incident'.diagnosis = incident.diagnosis
      /\ incident'.action_result = incident.action_result
      /\ incident'.outcome = "escalated"
      /\ incident'.audit_trail = Append(StagesOf(incident'), "outcome")
      /\ CauseOf(incident') = CauseOf(incident)
      /\ Orderly(incident')
  BY <1>1, <1>2, OutcomeRecorded DEF Outcome
<1>4. InProcessInv'
  <2>1. Ended(incident') /\ Reached(incident', pc')
    BY <1>1, <1>2, <1>3 DEF Ended, Reached
  <2>2. Effective(incident)'
    BY <1>1, <1>2, <1>3 DEF Effective
  <2>3. ToldOf(incident)'
    <3>1. alerts'[created] = Append(<< >>, AlertNow)
      BY <1>1, <1>2 DEF Deliver, TypeInv, TypeOK
    <3>2. Append(<< >>, AlertNow) = <<AlertNow>>
      OBVIOUS
    <3>3. AlertFor(incident') = AlertNow
      BY <1>1, <1>3 DEF AlertFor, AlertNow
    <3>4. alerts'[incident'.id] = <<AlertFor(incident')>>
      BY <1>3, <3>1, <3>2, <3>3, Zenon
    <3> QED
      BY <1>1, <1>3, <3>4 DEF ToldOf, AlertFor
  <2> QED
    BY <1>2, <1>3, <2>1, <2>2, <2>3 DEF InProcessInv
<1>5. SavedInv' /\ AlertsKnown'
  BY <1>1, <1>2, SavedUndisturbed
<1>6. ChangesOnRecord'
  BY <1>1, <1>2, <1>3 DEF RecordInv, ChangesOnRecord, RecordOf, InProcess, Accounts
<1> QED
  BY <1>4, <1>5, <1>6 DEF RecordInv

\* _finish (engine.py:181-191): what was in process is what is saved.
LEMMA FinishStep ==
    ASSUME TypeInv, TypeInv', MutationInv, RecordInv, Finish
    PROVE  RecordInv'
<1>1. /\ pc = "finish" /\ incident # None /\ incident \in Incident
      /\ incident.id = created /\ created \in Ids
      /\ Orderly(incident) /\ Effective(incident)
      /\ incident.audit_trail = Append(StagesOf(incident), "outcome")
      /\ Ended(incident) /\ ToldOf(incident)
  BY IncidentInHand DEF Finish, RecordInv, InProcessInv
<1> DEFINE new == WithPostmortem(incident, Draft(incident))
<1>2. new \in Incident /\ new # None
  BY <1>1, WithPostmortemType, NoneAssumption
<1>3. /\ new.id = created /\ new.signal = incident.signal
      /\ new.diagnosis = incident.diagnosis /\ new.verdict = incident.verdict
      /\ new.action_result = incident.action_result
      /\ new.replay_result = incident.replay_result
      /\ new.outcome = incident.outcome
      /\ CauseOf(new) = CauseOf(incident) /\ Orderly(new)
      /\ Written(new)
  BY <1>1, PostmortemRecorded DEF Written
<1>4. store' = [store EXCEPT ![created] = new] /\ incident' = None
  BY <1>3 DEF Finish
<1> HIDE DEF new
<1>5. \A id \in Ids : store'[id] = IF id = created THEN new ELSE store[id]
  BY <1>1, <1>4 DEF TypeInv, TypeOK
<1>6. UNCHANGED <<created, alerts, cluster>>
  BY DEF Finish
<1>7. InProcessInv' /\ AlertsKnown'
  BY <1>4, <1>6 DEF RecordInv, InProcessInv, AlertsKnown, Alerted
<1>8. SavedInv'
  <2>1. Effective(new) /\ Ended(new) /\ ToldOf(new)
    BY <1>1, <1>3 DEF Effective, Ended, WentWell, ToldOf, AlertFor
  <2>2. \A id \in Ids : store'[id] # None =>
           /\ store'[id].id = id /\ Orderly(store'[id]) /\ Ended(store'[id])
           /\ Written(store'[id]) /\ Effective(store'[id]) /\ ToldOf(store'[id])
    BY <1>3, <1>5, <2>1 DEF RecordInv, SavedInv, Saved
  <2> QED
    BY <1>6, <2>2 DEF SavedInv, Saved, Effective, ToldOf
<1>9. ChangesOnRecord'
  <2>1. cluster[created] # << >> => Accounts(new)
    BY <1>1, <1>3, Accounted DEF Accounts
  <2>2. \A id \in Ids : id # created => RecordOf(id) = store[id]
    BY <1>1 DEF RecordOf, InProcess
  <2>3. \A id \in Ids : RecordOf(id)' = IF id = created THEN new ELSE store[id]
    BY <1>4, <1>5 DEF RecordOf, InProcess
  <2> QED
    BY <1>2, <1>6, <2>1, <2>2, <2>3 DEF RecordInv, ChangesOnRecord, Accounts
<1> QED
  BY <1>7, <1>8, <1>9 DEF RecordInv

\* A port raises: what is on record stays, and the incident in process is gone.
LEMMA RaiseStep ==
    ASSUME TypeInv, TypeInv', MutationInv, RecordInv, Raise
    PROVE  RecordInv'
<1>1. /\ pc \in {"diagnose", "verify", "replay", "escalate"}
      /\ FaultyPorts \subseteq {"diagnoser"} => pc = "diagnose"
      /\ incident' = None
      /\ alerts' \in {alerts, Deliver}
      /\ UNCHANGED <<created, store, cluster>>
  BY DEF Raise, PortAt
<1>2. SavedInv' /\ AlertsKnown'
  BY <1>1, SavedUndisturbed
<1>3. InProcessInv'
  BY <1>1 DEF InProcessInv
<1>4. ChangesOnRecord'
  <2>1. incident # None /\ incident.id = created /\ store[created] = None
    BY <1>1, IncidentInHand
  <2>2. \A id \in Ids : RecordOf(id)' = store[id]
    BY <1>1 DEF RecordOf, InProcess
  <2>3. \A id \in Ids : id # created => RecordOf(id) = store[id]
    BY <2>1 DEF RecordOf, InProcess
  <2>4. FaultyPorts \subseteq {"diagnoser"} => cluster[created] = << >>
    BY <1>1, NothingYet
  <2> QED
    BY <1>1, <2>1, <2>2, <2>3, <2>4 DEF RecordInv, ChangesOnRecord, Accounts
<1> QED
  BY <1>2, <1>3, <1>4 DEF RecordInv

\* _new_incident (engine.py:107-109)
LEMMA BeginStep ==
    ASSUME TypeInv, TypeInv', MutationInv, RecordInv, Begin
    PROVE  RecordInv'
<1>1. /\ incident = None /\ created \in Nat /\ pc' = "diagnose"
      /\ created' = created + 1
      /\ incident' = NewIncident(created + 1, Head(pending))
      /\ UNCHANGED <<store, alerts, cluster>>
  BY DEF Begin, TypeInv, TypeOK
<1>2. /\ incident'.id = created + 1
      /\ incident'.diagnosis = None /\ incident'.verdict = None
      /\ incident'.action_result = None /\ incident'.verification = None
      /\ incident'.replay_result = None
      /\ incident'.audit_trail = << >>
  BY <1>1 DEF NewIncident
<1>3. StagesOf(incident') = << >>
  <2>1. << >> \in Seq(Stage) /\ "act" \in Stage
    BY DEF Stage
  <2>2. StagesOf(incident') = (((<< >> \o << >>) \o << >>) \o << >>) \o << >>
    BY <1>2, StagesUnfolded DEF Trace
  <2> QED
    BY <2>1, <2>2, StageAppended
<1>4. InProcessInv'
  <2>1. created + 1 \in Ids
    <3>1. created + Len(pending) <= MaxIncidents /\ Len(pending) \in Nat /\ Len(pending) # 0
      BY EngineAssumption DEF Begin, TypeInv, TypeOK
    <3> QED
      BY <1>1, <3>1, EngineAssumption DEF Ids
  <2>2. alerts'[incident'.id] = << >>
    BY <1>1, <1>2, <2>1 DEF RecordInv, AlertsKnown, Alerted
  <2>3. Orderly(incident') /\ Reached(incident', pc')
    BY <1>1, <1>2 DEF Orderly, Reached
  <2>4. Effective(incident)'
    BY <1>2 DEF Effective
  <2> QED
    BY <1>1, <1>2, <1>3, <2>2, <2>3, <2>4 DEF InProcessInv
<1>5. SavedInv' /\ AlertsKnown'
  BY <1>1 DEF RecordInv, SavedInv, AlertsKnown, Alerted, Saved, Effective, ToldOf, AlertFor, Ids
<1>6. ChangesOnRecord'
  <2>1. \A id \in Ids : cluster[id] # << >> => id # created + 1
    BY <1>1 DEF MutationInv, ActedLate, Ids
  <2>2. \A id \in Ids : cluster[id] # << >> => RecordOf(id)' = RecordOf(id)
    BY <1>1, <1>2, <2>1 DEF RecordOf, InProcess
  <2> QED
    BY <1>1, <2>2 DEF RecordInv, ChangesOnRecord, Accounts
<1> QED
  BY <1>4, <1>5, <1>6 DEF RecordInv

\* Nothing the invariant speaks of changes between two incidents.
LEMMA IdleStep ==
    ASSUME RecordInv, incident = None,
           UNCHANGED <<incident, created, store, alerts, cluster>>
    PROVE  RecordInv'
BY DEF RecordInv, InProcessInv, SavedInv, AlertsKnown, Alerted, ChangesOnRecord, Saved,
       Effective, ToldOf, AlertFor, RecordOf, InProcess, Accounts

\* How far the incident in process has come, what the saved ones say of
\* themselves, of the alerts and of the cluster, holds in every state.
THEOREM RecordInvHolds == Spec => []RecordInv
<1>1. Init => RecordInv
  BY DEF Init, RecordInv, InProcessInv, SavedInv, AlertsKnown, Alerted, ChangesOnRecord, Saved
<1>2. TypeInv /\ TypeInv' /\ MutationInv /\ RecordInv /\ [Next]_vars => RecordInv'
  <2> SUFFICES ASSUME TypeInv, TypeInv', MutationInv, RecordInv, [Next]_vars
               PROVE  RecordInv'
    OBVIOUS
  <2>1. ASSUME NEW batch \in Batches, Detect(batch)
        PROVE  RecordInv'
    BY <2>1, IdleStep DEF Detect, TypeInv, TypeOK
  <2>2. CASE Begin
    BY <2>2, BeginStep
  <2>3. ASSUME NEW d \in Diagnoses, Diagnose(d)
        PROVE  RecordInv'
    BY <2>3, DiagnoseStep
  <2>4. ASSUME NEW v \in Verdicts, Gate(v)
        PROVE  RecordInv'
    BY <2>4, GateStep
  <2>5. ASSUME pc = "act", NEW attempt \in Executions(incident, DryRun), Act(attempt)
        PROVE  RecordInv'
    BY <2>5, ActStep
  <2>6. ASSUME NEW v \in Verification, Verify(v)
        PROVE  RecordInv'
    BY <2>6, VerifyStep
  <2>7. ASSUME NEW r \in Replays, Replay(r)
        PROVE  RecordInv'
    BY <2>7, ReplayStep
  <2>8. CASE Escalate
    BY <2>8, EscalateStep
  <2>9. CASE Finish
    BY <2>9, FinishStep
  <2>10. CASE Return
    BY <2>10, IdleStep DEF Return, TypeInv, TypeOK
  <2>11. CASE Raise
    BY <2>11, RaiseStep
  <2>12. CASE UNCHANGED vars
    <3> USE <2>12 DEF vars
    <3>1. InProcessInv'
      BY DEF RecordInv, InProcessInv, Effective, ToldOf, AlertFor
    <3>2. SavedInv' /\ AlertsKnown'
      BY DEF RecordInv, SavedInv, AlertsKnown, Alerted, Saved, Effective, ToldOf, AlertFor
    <3>3. ChangesOnRecord'
      BY DEF RecordInv, ChangesOnRecord, RecordOf, InProcess, Accounts
    <3> QED
      BY <3>1, <3>2, <3>3 DEF RecordInv
  <2> QED
    BY <2>1, <2>2, <2>3, <2>4, <2>5, <2>6, <2>7, <2>8, <2>9, <2>10, <2>11, <2>12
       DEF Next, Process
<1> QED
  BY <1>1, <1>2, TypeInvHolds, MutationInvHolds, PTL DEF Spec

-----------------------------------------------------------------------------
(* The engine's promises. *)

\* A saved incident was told to a human, or ended well the whole way, or there was
\* nothing to do for it (engine.py:15-20).
THEOREM FailsSafe == Spec => []FailSafe
<1>1. RecordInv => FailSafe
  <2> SUFFICES ASSUME RecordInv, NEW id \in Ids, Saved(id), ~Alerted(id)
               PROVE  LET inc == store[id]
                      IN \/ inc.diagnosis.proposed_action = "no_op" /\ inc.outcome = "no_action"
                         \/ /\ DryRun
                            /\ inc.outcome = "no_action"
                            /\ inc.verdict.decision = "approved"
                            /\ inc.action_result.dry_run
                         \/ /\ inc.outcome = "resolved"
                            /\ inc.verdict.decision = "approved"
                            /\ inc.action_result.executed
                            /\ inc.verification.recovered
                            /\ Complete(inc.replay_result)
    BY DEF FailSafe
  <2>1. /\ store[id].id = id /\ Orderly(store[id])
        /\ Ended(store[id]) /\ ToldOf(store[id])
    BY DEF RecordInv, SavedInv
  <2>2. CauseOf(store[id]) = None
    BY <2>1 DEF ToldOf, Alerted
  <2>3. WentWell(store[id])
    BY <2>1, <2>2 DEF Ended
  <2> QED
    BY <2>1, <2>3 DEF WentWell, Orderly, OneOf
<1> QED
  BY <1>1, RecordInvHolds, PTL

\* An incident is marked escalated, and its post-mortem says so, exactly when a
\* human was told, once, for the reason its stages give (engine.py:176-191).
THEOREM AlertsTellWhy == Spec => []AlertTellsWhy
<1>1. RecordInv => AlertTellsWhy
  BY DEF RecordInv, SavedInv, Ended, ToldOf, AlertFor, Written, AlertTellsWhy
<1> QED
  BY <1>1, RecordInvHolds, PTL

\* While no port after the actuator raises, every change of the cluster is on
\* record with the very action and target, and the approval (engine.py:22-25).
THEOREM ChangesLeaveATrail ==
    ASSUME FaultyPorts \subseteq {"diagnoser"}
    PROVE  Spec => []NoSilentMutation
<1>1. RecordInv /\ OnlyApprovedMutations => NoSilentMutation
  <2> SUFFICES ASSUME RecordInv, OnlyApprovedMutations,
                      NEW id \in Ids, NEW op \in Range(cluster[id])
               PROVE  LET rec == RecordOf(id)
                      IN /\ rec # None
                         /\ rec.verdict # None /\ rec.verdict.decision = "approved"
                         /\ rec.action_result # None
                         /\ rec.action_result.action = op.action
                         /\ rec.action_result.target = op.target
    BY DEF NoSilentMutation
  <2>1. cluster[id] # << >>
    BY DEF Range
  <2>2. RecordOf(id) # None /\ Accounts(RecordOf(id))
    BY <2>1 DEF RecordInv, ChangesOnRecord
  <2>3. Orderly(RecordOf(id))
    BY <2>2 DEF RecordInv, InProcessInv, SavedInv, RecordOf, InProcess, Saved
  <2>4. /\ RecordOf(id).verdict # None /\ RecordOf(id).verdict.decision = "approved"
        /\ RecordOf(id).diagnosis.proposed_action = op.action
        /\ op.target = TargetOf(RecordOf(id).diagnosis, RecordOf(id).signal)
    BY <2>2 DEF OnlyApprovedMutations
  <2> QED
    BY <2>2, <2>3, <2>4 DEF Accounts, Orderly
<1> QED
  BY <1>1, RecordInvHolds, ApprovedOnly, PTL

\* A change that its record calls not executed was told to a human
\* (engine.py:139-141).
THEOREM UncertaintyEscalated == Spec => []UncertainActionIsEscalated
<1>1. TypeInv /\ MutationInv /\ RecordInv => UncertainActionIsEscalated
  <2> SUFFICES ASSUME TypeInv, MutationInv, RecordInv,
                      NEW id \in Ids, Saved(id), cluster[id] # << >>,
                      ~store[id].action_result.executed
               PROVE  [service |-> store[id].signal.source,
                       reason  |-> "action_failed"] \in Range(alerts[id])
    BY DEF UncertainActionIsEscalated
  <2> DEFINE inc == store[id]
  <2>2. /\ inc.id = id /\ Orderly(inc) /\ ToldOf(inc)
    BY DEF RecordInv, SavedInv
  <2>3. RecordOf(id) = inc
    <3>1. incident # None => store[incident.id] = None
      BY DEF MutationInv, FreshId
    <3> QED
      BY <3>1 DEF RecordOf, InProcess, Saved
  <2>4. Accounts(inc)
    BY <2>3 DEF RecordInv, ChangesOnRecord, Saved
  <2>5. inc.action_result.error /\ ~inc.action_result.executed /\ inc.action_result # None
    BY <2>2, <2>4 DEF Orderly, OneOf, Accounts
  <2>6. inc.verification = None /\ inc.replay_result = None
    BY <2>2, <2>5 DEF Orderly
  <2>7. CauseOf(inc) = "action_failed"
    BY <2>5, <2>6 DEF CauseOf
  <2>8. AlertFor(inc) \in Range(alerts[id])
    <3>1. CauseOf(inc) # None
      BY <2>7, EngineAssumption DEF EscalationReason
    <3>2. alerts[id] = <<AlertFor(inc)>>
      BY <2>2, <3>1 DEF ToldOf
    <3> QED
      BY <3>2 DEF Range
  <2> QED
    BY <2>2, <2>7, <2>8 DEF AlertFor
<1> QED
  BY <1>1, TypeInvHolds, MutationInvHolds, RecordInvHolds, PTL

\* The saved timeline and the post-mortem tell the stages the incident really went
\* through, in order, and the data recovery it ended with (writer.py:22-76).
THEOREM AuditsComplete == Spec => []AuditComplete
<1>1. RecordInv => AuditComplete
  <2> SUFFICES ASSUME RecordInv, NEW id \in Ids, Saved(id)
               PROVE  LET inc == store[id]
                      IN /\ inc.postmortem.timeline = Append(StagesOf(inc), "outcome")
                         /\ inc.audit_trail = Append(inc.postmortem.timeline, "postmortem")
                         /\ (inc.postmortem.data_recovery = "complete")
                                = (inc.outcome = "resolved")
                         /\ inc.postmortem.data_recovery = "partial" => Alerted(id)
    BY DEF AuditComplete
  <2> DEFINE inc == store[id]
  <2>1. /\ inc.id = id /\ Orderly(inc) /\ Ended(inc) /\ ToldOf(inc) /\ Written(inc)
    BY DEF RecordInv, SavedInv
  <2> HIDE DEF inc
  <2>2. inc.postmortem.data_recovery = "complete"
           <=> inc.replay_result # None /\ Complete(inc.replay_result)
    BY <2>1 DEF Written, RecoveryOf
  <2>3. ASSUME inc.replay_result # None, Complete(inc.replay_result)
        PROVE  inc.outcome = "resolved"
    <3>1. CauseOf(inc) = None
      BY <2>3 DEF CauseOf
    <3>2. /\ inc.verdict # None /\ inc.action_result # None
          /\ ~inc.action_result.dry_run
      BY <2>1, <2>3 DEF Orderly, OneOf
    <3> QED
      BY <2>1, <3>1, <3>2 DEF Ended, WentWell
  <2>4. ASSUME inc.outcome = "resolved"
        PROVE  inc.replay_result # None /\ Complete(inc.replay_result)
    BY <2>1, <2>4 DEF Ended, WentWell
  <2>5. ASSUME inc.postmortem.data_recovery = "partial"
        PROVE  Alerted(id)
    <3>1. inc.replay_result # None /\ ~Complete(inc.replay_result)
      BY <2>1, <2>5 DEF Written, RecoveryOf
    <3>2. CauseOf(inc) = "partial_recovery" /\ CauseOf(inc) # None
      BY <3>1, EngineAssumption DEF CauseOf, EscalationReason
    <3> QED
      BY <2>1, <3>2 DEF ToldOf, Alerted
  <2>6. /\ inc.postmortem.timeline = Append(StagesOf(inc), "outcome")
        /\ inc.audit_trail = Append(inc.postmortem.timeline, "postmortem")
    BY <2>1 DEF Written
  <2> QED
    BY <2>2, <2>3, <2>4, <2>5, <2>6 DEF inc
<1> QED
  BY <1>1, RecordInvHolds, PTL

-----------------------------------------------------------------------------
(* No step loses history. *)

\* What HistoryNeverLost asks of one step of the incident in process, entry by
\* entry of the timeline.
Enriches(inc, new) ==
    /\ new.id = inc.id /\ new.signal = inc.signal
    /\ Len(inc.audit_trail) <= Len(new.audit_trail)
    /\ \A i \in 1..Len(inc.audit_trail) : inc.audit_trail[i] = new.audit_trail[i]
    /\ inc.diagnosis # None => new.diagnosis = inc.diagnosis
    /\ inc.verdict # None => new.verdict = inc.verdict
    /\ inc.action_result # None => new.action_result = inc.action_result
    /\ inc.verification # None => new.verification = inc.verification
    /\ inc.replay_result # None => new.replay_result = inc.replay_result

\* A sequence that agrees entry by entry with a longer one is a prefix of it.
LEMMA PrefixEntryByEntry ==
    ASSUME NEW s \in Seq(Stage), NEW t \in Seq(Stage), Len(s) <= Len(t),
           \A i \in 1..Len(s) : s[i] = t[i]
    PROVE  IsPrefixOf(s, t)
<1>1. Len(s) \in Nat /\ Len(t) \in Nat /\ \A i \in 1..Len(s) : t[i] \in Stage
  OBVIOUS
<1>2. /\ SubSeq(t, 1, Len(s)) \in Seq(Stage)
      /\ Len(SubSeq(t, 1, Len(s))) = Len(s)
      /\ \A i \in 1..Len(s) : SubSeq(t, 1, Len(s))[i] = t[i]
  BY <1>1, SubSeqProperties
<1>3. SubSeq(t, 1, Len(s)) = s
  BY <1>2, SeqEqual
<1> QED
  BY <1>3 DEF IsPrefixOf

\* Appending keeps the entries that are there.
LEMMA AppendKeeps ==
    ASSUME NEW s \in Seq(Stage), NEW stage \in Stage
    PROVE  /\ Append(s, stage) \in Seq(Stage)
           /\ Len(s) <= Len(Append(s, stage))
           /\ \A i \in 1..Len(s) : s[i] = Append(s, stage)[i]
OBVIOUS

\* Enriching twice is enriching.
LEMMA EnrichesTransitive ==
    ASSUME NEW a \in Incident, NEW b \in Incident, NEW c \in Incident,
           Enriches(a, b), Enriches(b, c)
    PROVE  Enriches(a, c)
<1>1. Len(a.audit_trail) \in Nat /\ Len(b.audit_trail) \in Nat
      /\ Len(c.audit_trail) \in Nat
  BY DEF Incident
<1> QED
  BY <1>1 DEF Enriches

\* An incident and the copy with an outcome (models.py:323-325).
LEMMA OutcomeEnriches ==
    ASSUME NEW inc \in Incident, NEW outcome \in Outcome
    PROVE  Enriches(inc, WithOutcome(inc, outcome))
<1> DEFINE new == WithOutcome(inc, outcome)
<1>1. inc.audit_trail \in Seq(Stage) /\ "outcome" \in Stage
  BY DEF Incident, Stage
<1>2. new.audit_trail = Append(inc.audit_trail, "outcome")
      /\ new.id = inc.id /\ new.signal = inc.signal
      /\ new.diagnosis = inc.diagnosis /\ new.verdict = inc.verdict
      /\ new.action_result = inc.action_result
      /\ new.verification = inc.verification
      /\ new.replay_result = inc.replay_result
  BY OutcomeRecorded
<1> HIDE DEF new
<1>3. Enriches(inc, new)
  BY <1>1, <1>2, AppendKeeps DEF Enriches
<1> QED
  BY <1>3 DEF new

\* A stage ends with the enriched incident, or its copy with an outcome.
LEMMA StageEnriches ==
    ASSUME NEW inc \in Incident, NEW new \in Incident, Enriches(inc, new),
           \/ \E outcome \in Outcome : Close(new, outcome)
           \/ \E reason : HandOff(new, reason)
           \/ \E stage : Proceed(new, stage)
    PROVE  Enriches(inc, incident')
<1>1. incident' = new \/ \E outcome \in Outcome : incident' = WithOutcome(new, outcome)
  BY DEF Close, HandOff, Proceed
<1>2. ASSUME NEW outcome \in Outcome, incident' = WithOutcome(new, outcome)
      PROVE  Enriches(inc, incident')
  BY <1>2, OutcomeEnriches, WithOutcomeType, EnrichesTransitive
<1> QED
  BY <1>1, <1>2

\* Each stage enriches the incident in process (engine.py:111-179).
LEMMA ProcessEnriches ==
    ASSUME TypeInv, MutationInv, RecordInv, Process, ~Finish
    PROVE  Enriches(incident, incident')
<1>1. pc \notin {"idle", "next"}
  BY DEF Process, Diagnose, Gate, Verify, Replay, Escalate
<1>2. incident \in Incident /\ Orderly(incident) /\ Reached(incident, pc)
      /\ incident.audit_trail \in Seq(Stage)
  BY <1>1, IncidentInHand DEF RecordInv, InProcessInv, Incident
<1>3. {"diagnose", "policy", "act", "verify", "replay"} \subseteq Stage
      /\ {"no_action", "resolved", "escalated"} \subseteq Outcome
  BY DEF Stage, Outcome
<1>4. ASSUME NEW d \in Diagnoses, Diagnose(d)
      PROVE  Enriches(incident, incident')
  <2> DEFINE new == WithDiagnosis(incident, d)
  <2>1. d \in Diagnosis /\ incident.diagnosis = None
    BY <1>2, <1>4, EngineAssumption DEF Diagnose, Reached
  <2>2. new \in Incident
    BY <1>2, <2>1, WithDiagnosisType
  <2>3. /\ new.id = incident.id /\ new.signal = incident.signal
        /\ new.verdict = incident.verdict /\ new.action_result = incident.action_result
        /\ new.verification = incident.verification
        /\ new.replay_result = incident.replay_result
        /\ new.audit_trail = Append(incident.audit_trail, "diagnose")
    BY <1>2, <2>1, DiagnosisRecorded
  <2>4. Close(new, "no_action") \/ HandOff(new, "deferred") \/ Proceed(new, "gate")
    BY <1>4 DEF Diagnose
  <2> HIDE DEF new
  <2>5. Enriches(incident, new)
    BY <1>2, <1>3, <2>1, <2>3, AppendKeeps DEF Enriches
  <2> QED
    BY <1>2, <1>3, <2>2, <2>4, <2>5, StageEnriches
<1>5. ASSUME NEW v \in Verdicts, Gate(v)
      PROVE  Enriches(incident, incident')
  <2> DEFINE new == WithVerdict(incident, v)
  <2>1. /\ v \in PolicyVerdict /\ incident.verdict = None /\ incident.diagnosis # None
        /\ incident.diagnosis.proposed_action \in Remedy
    BY <1>2, <1>5, EngineAssumption DEF Gate, Reached
  <2>2. new \in Incident
    BY <1>2, <2>1, WithVerdictType
  <2>3. /\ new.id = incident.id /\ new.signal = incident.signal
        /\ new.diagnosis = incident.diagnosis
        /\ new.action_result = incident.action_result
        /\ new.verification = incident.verification
        /\ new.replay_result = incident.replay_result
        /\ new.audit_trail = Append(incident.audit_trail, "policy")
    BY <1>2, <2>1, VerdictRecorded
  <2>4. HandOff(new, "denied") \/ HandOff(new, "approval") \/ Proceed(new, "act")
    BY <1>5 DEF Gate
  <2> HIDE DEF new
  <2>5. Enriches(incident, new)
    BY <1>2, <1>3, <2>1, <2>3, AppendKeeps DEF Enriches
  <2> QED
    BY <1>2, <1>3, <2>2, <2>4, <2>5, StageEnriches
<1>6. ASSUME pc = "act", NEW attempt \in Executions(incident, DryRun), Act(attempt)
      PROVE  Enriches(incident, incident')
  <2> DEFINE r == attempt.result
             new == WithActionResult(incident, r)
  <2>1. incident.action_result = None /\ incident.diagnosis # None
    BY <1>2, <1>6 DEF Reached
  <2>2. r \in ActionResult
    BY <1>2, <1>6, <2>1, ExecutionsType, EngineAssumption
  <2>3. new \in Incident
    BY <1>2, <2>2, WithActionResultType
  <2>4. /\ new.id = incident.id /\ new.signal = incident.signal
        /\ new.diagnosis = incident.diagnosis /\ new.verdict = incident.verdict
        /\ new.verification = incident.verification
        /\ new.replay_result = incident.replay_result
        /\ new.audit_trail = Append(incident.audit_trail, "act")
    BY <1>2 DEF WithActionResult, Audit, Incident
  <2>5. HandOff(new, "action_failed") \/ Close(new, "no_action") \/ Proceed(new, "verify")
    BY <1>6 DEF Act
  <2> HIDE DEF new
  <2>6. Enriches(incident, new)
    BY <1>2, <1>3, <2>1, <2>4, AppendKeeps DEF Enriches
  <2> QED
    BY <1>2, <1>3, <2>3, <2>5, <2>6, StageEnriches
<1>7. ASSUME NEW v \in Verification, Verify(v)
      PROVE  Enriches(incident, incident')
  <2> DEFINE new == WithVerification(incident, v)
  <2>1. incident.verification = None
    BY <1>2, <1>7 DEF Verify, Reached
  <2>2. new \in Incident
    BY <1>2, WithVerificationType
  <2>3. /\ new.id = incident.id /\ new.signal = incident.signal
        /\ new.diagnosis = incident.diagnosis /\ new.verdict = incident.verdict
        /\ new.action_result = incident.action_result
        /\ new.replay_result = incident.replay_result
        /\ new.audit_trail = Append(incident.audit_trail, "verify")
    BY <1>2 DEF WithVerification, Audit, Incident
  <2>4. Proceed(new, "replay") \/ HandOff(new, "not_recovered")
    BY <1>7 DEF Verify
  <2> HIDE DEF new
  <2>5. Enriches(incident, new)
    BY <1>2, <1>3, <2>1, <2>3, AppendKeeps DEF Enriches
  <2> QED
    BY <1>2, <1>3, <2>2, <2>4, <2>5, StageEnriches
<1>8. ASSUME NEW r \in Replays, Replay(r)
      PROVE  Enriches(incident, incident')
  <2> DEFINE new == WithReplayResult(incident, r)
  <2>1. incident.replay_result = None
    BY <1>2, <1>8 DEF Replay, Reached
  <2>2. new \in Incident
    BY <1>2, WithReplayResultType, ReplaysType
  <2>3. /\ new.id = incident.id /\ new.signal = incident.signal
        /\ new.diagnosis = incident.diagnosis /\ new.verdict = incident.verdict
        /\ new.action_result = incident.action_result
        /\ new.verification = incident.verification
        /\ new.audit_trail = Append(incident.audit_trail, "replay")
    BY <1>2 DEF WithReplayResult, Audit, Incident
  <2>4. Close(new, "resolved") \/ HandOff(new, "partial_recovery")
    BY <1>8 DEF Replay
  <2> HIDE DEF new
  <2>5. Enriches(incident, new)
    BY <1>2, <1>3, <2>1, <2>3, AppendKeeps DEF Enriches
  <2> QED
    BY <1>2, <1>3, <2>2, <2>4, <2>5, StageEnriches
<1>9. CASE Escalate
  BY <1>2, <1>3, <1>9, OutcomeEnriches DEF Escalate
<1> QED
  BY <1>4, <1>5, <1>6, <1>7, <1>8, <1>9 DEF Process

\* What a step does to the incidents that are saved, and to the one in process:
\* only _finish writes the store, and only for an id that was not saved.
LEMMA StepKeepsHistory ==
    ASSUME TypeInv, TypeInv', MutationInv, RecordInv, [Next]_vars
    PROVE  /\ \A id \in Ids : Saved(id) => store'[id] = store[id]
           /\ incident # None /\ incident' # None => Enriches(incident, incident')
<1>1. CASE UNCHANGED vars
  BY <1>1 DEF vars, Enriches, Incident, TypeInv, TypeOK
<1>2. CASE \/ \E batch \in Batches : Detect(batch)
           \/ Begin \/ Return \/ Raise
  BY <1>2 DEF Detect, Begin, Return, Raise, TypeInv, TypeOK
<1>3. CASE Finish
  <2> DEFINE new == WithPostmortem(incident, Draft(incident))
  <2>1. /\ incident \in Incident /\ incident.id = created
        /\ store[created] = None /\ incident' = None
    BY <1>3, IncidentInHand DEF Finish
  <2>2. new.id = created
    BY <2>1, PostmortemRecorded
  <2>3. store' = [store EXCEPT ![new.id] = new]
    BY <1>3 DEF Finish
  <2> HIDE DEF new
  <2>4. \A id \in Ids : id # created => store'[id] = store[id]
    BY <2>2, <2>3 DEF TypeInv, TypeOK
  <2> QED
    BY <2>1, <2>4 DEF Saved
<1>4. CASE Process /\ ~Finish
  <2>1. store' = store
    BY <1>4 DEF Process, Diagnose, Gate, Act, Verify, Replay, Escalate
  <2> QED
    BY <1>4, <2>1, ProcessEnriches
<1> QED
  BY <1>1, <1>2, <1>3, <1>4 DEF Next, Process

\* What a stage wrote stays: timelines only grow, no stage field is overwritten and
\* no saved incident changes (models.py:243-262).
THEOREM HistoryKept == Spec => HistoryNeverLost
<1> DEFINE Kept ==
       /\ \A id \in Ids : Saved(id) => store'[id] = store[id]
       /\ incident # None /\ incident' # None =>
             /\ incident'.id = incident.id
             /\ incident'.signal = incident.signal
             /\ IsPrefixOf(incident.audit_trail, incident'.audit_trail)
             /\ \A field \in {"diagnosis", "verdict", "action_result",
                               "verification", "replay_result"} :
                    incident[field] # None => incident'[field] = incident[field]
<1>1. TypeInv /\ TypeInv' /\ MutationInv /\ RecordInv /\ [Next]_vars => [Kept]_vars
  <2> SUFFICES ASSUME TypeInv, TypeInv', MutationInv, RecordInv, [Next]_vars
               PROVE  Kept
    OBVIOUS
  <2>1. \A id \in Ids : Saved(id) => store'[id] = store[id]
    BY StepKeepsHistory
  <2>2. ASSUME incident # None, incident' # None
        PROVE  /\ incident'.id = incident.id
               /\ incident'.signal = incident.signal
               /\ IsPrefixOf(incident.audit_trail, incident'.audit_trail)
               /\ \A field \in {"diagnosis", "verdict", "action_result",
                                 "verification", "replay_result"} :
                      incident[field] # None => incident'[field] = incident[field]
    <3>1. Enriches(incident, incident')
      BY <2>2, StepKeepsHistory
    <3>2. incident.audit_trail \in Seq(Stage) /\ incident'.audit_trail \in Seq(Stage)
      BY <2>2 DEF TypeInv, TypeOK, Incident
    <3>3. IsPrefixOf(incident.audit_trail, incident'.audit_trail)
      BY <3>1, <3>2, PrefixEntryByEntry DEF Enriches
    <3> QED
      BY <3>1, <3>3 DEF Enriches
  <2> QED
    BY <2>1, <2>2
<1> QED
  BY <1>1, TypeInvHolds, MutationInvHolds, RecordInvHolds, PTL DEF Spec, HistoryNeverLost

=============================================================================
