------------------------ MODULE RemediationEngineProofs ------------------------
(***************************************************************************)
(* What RemediationEngine guarantees for every set of signals, every       *)
(* diagnoser, gate, verifier and replayer within their types, and every    *)
(* choice of ports that may raise.                                         *)
(***************************************************************************)
EXTENDS RemediationEngine, TLAPS

-----------------------------------------------------------------------------
(* The enrichers keep an incident an incident (models.py:264-325). *)

\* A new incident has its signal and nothing else (models.py:249-262).
LEMMA NewIncidentType ==
    ASSUME NEW id \in Nat, NEW signal \in Signal
    PROVE  NewIncident(id, signal) \in Incident
BY DEF NewIncident, Incident, Outcome

\* The timeline stays a timeline (models.py:267-268).
LEMMA AuditType ==
    ASSUME NEW inc \in Incident, NEW stage \in Stage
    PROVE  Audit(inc, stage) \in Seq(Stage)
BY DEF Audit, Incident

\* with_diagnosis (models.py:270-280)
LEMMA WithDiagnosisType ==
    ASSUME NEW inc \in Incident, NEW d \in Diagnosis
    PROVE  WithDiagnosis(inc, d) \in Incident
<1>1. Audit(inc, "diagnose") \in Seq(Stage)
  BY AuditType DEF Stage
<1> QED
  BY <1>1 DEF WithDiagnosis, Incident

\* with_verdict (models.py:282-287)
LEMMA WithVerdictType ==
    ASSUME NEW inc \in Incident, NEW v \in PolicyVerdict
    PROVE  WithVerdict(inc, v) \in Incident
<1>1. Audit(inc, "policy") \in Seq(Stage)
  BY AuditType DEF Stage
<1> QED
  BY <1>1 DEF WithVerdict, Incident

\* with_action_result (models.py:289-296)
LEMMA WithActionResultType ==
    ASSUME NEW inc \in Incident, NEW r \in ActionResult
    PROVE  WithActionResult(inc, r) \in Incident
<1>1. Audit(inc, "act") \in Seq(Stage)
  BY AuditType DEF Stage
<1> QED
  BY <1>1 DEF WithActionResult, Incident

\* with_verification (models.py:298-305)
LEMMA WithVerificationType ==
    ASSUME NEW inc \in Incident, NEW v \in Verification
    PROVE  WithVerification(inc, v) \in Incident
<1>1. Audit(inc, "verify") \in Seq(Stage)
  BY AuditType DEF Stage
<1> QED
  BY <1>1 DEF WithVerification, Incident

\* with_replay_result (models.py:307-313)
LEMMA WithReplayResultType ==
    ASSUME NEW inc \in Incident, NEW r \in ReplayResult
    PROVE  WithReplayResult(inc, r) \in Incident
<1>1. Audit(inc, "replay") \in Seq(Stage)
  BY AuditType DEF Stage
<1> QED
  BY <1>1 DEF WithReplayResult, Incident

\* with_postmortem (models.py:315-321)
LEMMA WithPostmortemType ==
    ASSUME NEW inc \in Incident
    PROVE  WithPostmortem(inc, Draft(inc)) \in Incident
<1>1. Audit(inc, "postmortem") \in Seq(Stage)
  BY AuditType DEF Stage
<1>2. Draft(inc) \in PostMortem
  BY DEF Draft, RecoveryOf, DataRecovery, PostMortem, Incident
<1> QED
  BY <1>1, <1>2 DEF WithPostmortem, Incident

\* with_outcome (models.py:323-325)
LEMMA WithOutcomeType ==
    ASSUME NEW inc \in Incident, NEW outcome \in Outcome
    PROVE  WithOutcome(inc, outcome) \in Incident
<1>1. Audit(inc, "outcome") \in Seq(Stage)
  BY AuditType DEF Stage
<1> QED
  BY <1>1 DEF WithOutcome, Incident

-----------------------------------------------------------------------------
(* The ports' answers. *)

\* A remedy that was diagnosed is executed, reported or refused with a result
\* and effects of the declared types (kubernetes.py:60-100).
LEMMA ExecutionsType ==
    ASSUME NEW inc \in Incident, inc.diagnosis # None,
           NEW dry_run \in BOOLEAN,
           NEW attempt \in Executions(inc, dry_run)
    PROVE  /\ attempt.result \in ActionResult
           /\ attempt.effects \in {<< >>, <<OperationOf(inc)>>}
           /\ attempt.effects \in Seq(Operation)
<1>1. /\ inc.diagnosis.proposed_action \in ActionType
      /\ TargetOf(inc.diagnosis, inc.signal) \in Target
  BY DEF Incident, Diagnosis, TargetOf, Signal, Target
<1>2. OperationOf(inc) \in Operation
  BY <1>1 DEF OperationOf, Operation
<1>3. \A executed, dry, error \in BOOLEAN : Result(inc, executed, dry, error) \in ActionResult
  BY <1>1 DEF Result, ActionResult
<1>4. PICK executed \in BOOLEAN, dry \in BOOLEAN, error \in BOOLEAN,
           effects \in {<< >>, <<OperationOf(inc)>>} :
         attempt = Attempt(Result(inc, executed, dry, error), effects)
  BY DEF Executions
<1>5. << >> \in Seq(Operation) /\ <<OperationOf(inc)>> \in Seq(Operation)
  BY <1>2
<1> QED
  BY <1>3, <1>4, <1>5 DEF Attempt

\* Adding to the changes or the alerts of one incident leaves sequences of them.
LEMMA HistoryType ==
    ASSUME NEW S, NEW h \in [Ids -> Seq(S)], NEW id, NEW more \in Seq(S)
    PROVE  [h EXCEPT ![id] = @ \o more] \in [Ids -> Seq(S)]
<1>1. \A i \in Ids : h[i] \o more \in Seq(S)
  OBVIOUS
<1> QED
  BY <1>1

\* What is delivered is an alert (engine.py:178).
LEMMA DeliverType ==
    ASSUME alerts \in [Ids -> Seq(Alert)], incident \in Incident, why \in EscalationReason
    PROVE  Deliver \in [Ids -> Seq(Alert)]
<1>1. AlertNow \in Alert
  BY DEF AlertNow, Alert, Incident, Signal
<1>2. \A i \in Ids : Append(alerts[i], AlertNow) \in Seq(Alert)
  BY <1>1
<1> QED
  BY <1>2 DEF Deliver

\* The replayer's counts are natural numbers (redpanda.py:80-99).
LEMMA ReplaysType == Replays \subseteq ReplayResult
<1> SUFFICES ASSUME NEW n \in 0..MaxLost, NEW ok \in 0..n
             PROVE  Tally(n, ok) \in ReplayResult
  BY DEF Replays
<1> QED
  BY ReplayerAssumption DEF Tally, ReplayResult

\* A batch is a sequence of signals.
LEMMA BatchesType == Batches \subseteq Seq(Signal)
BY EngineAssumption DEF Batches

-----------------------------------------------------------------------------
(* Type correctness. *)

\* The actuator reads the diagnosis, so type correctness needs to know that
\* there is one by the time the gate is asked (engine.py:111-136).
Diagnosed == pc \in {"gate", "act"} => incident.diagnosis # None

TypeInv == TypeOK /\ Diagnosed

\* How a stage ends, type-wise: whichever way it does, the incident is still an
\* incident and the next port has what it needs.
LEMMA CloseType ==
    ASSUME NEW inc \in Incident, NEW outcome \in Outcome, why = None,
           Close(inc, outcome)
    PROVE  /\ pc' = "finish" /\ why' = None
           /\ incident' \in Incident /\ incident' # None
<1>1. WithOutcome(inc, outcome) \in Incident
  BY WithOutcomeType
<1> QED
  BY <1>1, NoneAssumption DEF Close

\* _do_escalate is entered with a reason (engine.py:176).
LEMMA HandOffType ==
    ASSUME NEW inc \in Incident, NEW reason \in EscalationReason,
           HandOff(inc, reason)
    PROVE  /\ pc' = "escalate" /\ why' \in EscalationReason /\ why' # None
           /\ incident' \in Incident /\ incident' # None
BY NoneAssumption, EngineAssumption DEF HandOff

\* The stages that end in Close, HandOff or Proceed change nothing else that the
\* type invariant looks at.
LEMMA StageType ==
    ASSUME TypeOK, why = None, NEW inc \in Incident,
           UNCHANGED <<pending, results, detected, created, store, alerts>>,
           cluster' \in [Ids -> Seq(Operation)],
           \/ \E outcome \in Outcome : Close(inc, outcome)
           \/ \E reason \in EscalationReason : HandOff(inc, reason)
           \/ \E stage \in {"gate", "act", "verify", "replay"} :
                 Proceed(inc, stage) /\ inc.diagnosis # None
    PROVE  TypeInv'
<1>1. /\ pc' \in {"finish", "escalate", "gate", "act", "verify", "replay"}
      /\ incident' \in Incident /\ incident' # None
      /\ why' \in EscalationReason \union {None}
      /\ (why' # None) = (pc' = "escalate")
      /\ pc' \in {"gate", "act"} => incident'.diagnosis # None
  <2>1. CASE \E outcome \in Outcome : Close(inc, outcome)
    BY <2>1, CloseType
  <2>2. CASE \E reason \in EscalationReason : HandOff(inc, reason)
    BY <2>2, HandOffType
  <2>3. CASE \E stage \in {"gate", "act", "verify", "replay"} :
               Proceed(inc, stage) /\ inc.diagnosis # None
    BY <2>3, NoneAssumption DEF Proceed
  <2> QED
    BY <2>1, <2>2, <2>3
<1> QED
  BY <1>1 DEF TypeInv, TypeOK, Diagnosed, PC

\* Every variable starts with its type.
LEMMA TypeInvInit == Init => TypeInv
BY EngineAssumption, NoneAssumption DEF Init, TypeInv, TypeOK, Diagnosed, PC, Ids

\* Every step keeps the types, whether or not this run is a dry one.
LEMMA TypeInvStep ==
    ASSUME TypeInv,
           \/ Next \/ UNCHANGED vars
           \/ \E batch \in Seq(Signal) : Detect(batch)
           \/ pc = "act" /\ \E dry_run \in BOOLEAN :
                 \E attempt \in Executions(incident, dry_run) : Act(attempt)
    PROVE  TypeInv'
<1> USE DEF TypeInv
<1>1. ASSUME NEW batch \in Seq(Signal), Detect(batch)
      PROVE  TypeInv'
  <2>1. batch \in Seq(Signal) /\ Len(batch) \in Nat
    BY <1>1
  <2> QED
    BY <1>1, <2>1, EngineAssumption DEF Detect, TypeOK, Diagnosed, PC
<1>2. CASE Begin
  <2>1. Head(pending) \in Signal /\ Tail(pending) \in Seq(Signal)
        /\ Len(Tail(pending)) = Len(pending) - 1 /\ Len(pending) \in Nat
    BY <1>2 DEF Begin, TypeOK
  <2>2. incident' \in Incident /\ incident' # None
    BY <1>2, <2>1, NewIncidentType, NoneAssumption DEF Begin, TypeOK
  <2> QED
    BY <1>2, <2>1, <2>2, EngineAssumption DEF Begin, TypeOK, Diagnosed, PC
<1>3. ASSUME NEW d \in Diagnoses, Diagnose(d)
      PROVE  TypeInv'
  <2>1. d \in Diagnosis /\ incident \in Incident /\ why = None /\ cluster' = cluster
    BY <1>3, EngineAssumption DEF Diagnose, TypeOK
  <2> DEFINE inc == WithDiagnosis(incident, d)
  <2>2. inc \in Incident
    BY <2>1, WithDiagnosisType
  <2>3. inc.diagnosis # None
    BY <2>1, NoneAssumption DEF WithDiagnosis, Incident
  <2>4. \/ Close(inc, "no_action")
        \/ HandOff(inc, "deferred")
        \/ Proceed(inc, "gate")
    BY <1>3 DEF Diagnose
  <2> HIDE DEF inc
  <2> QED
    BY <1>3, <2>1, <2>2, <2>3, <2>4, StageType
       DEF Diagnose, TypeOK, Outcome, EscalationReason
<1>4. ASSUME NEW v \in Verdicts, Gate(v)
      PROVE  TypeInv'
  <2>1. /\ v \in PolicyVerdict /\ incident \in Incident /\ why = None
        /\ incident.diagnosis # None /\ cluster' = cluster
    BY <1>4, EngineAssumption DEF Gate, TypeOK, Diagnosed
  <2> DEFINE inc == WithVerdict(incident, v)
  <2>2. inc \in Incident
    BY <2>1, WithVerdictType
  <2>3. inc.diagnosis # None
    BY <2>1 DEF WithVerdict, Incident
  <2>4. \/ HandOff(inc, "denied")
        \/ HandOff(inc, "approval")
        \/ Proceed(inc, "act")
    BY <1>4 DEF Gate
  <2> HIDE DEF inc
  <2> QED
    BY <1>4, <2>1, <2>2, <2>3, <2>4, StageType DEF Gate, TypeOK, EscalationReason
<1>5. ASSUME pc = "act", NEW dry_run \in BOOLEAN,
             NEW attempt \in Executions(incident, dry_run), Act(attempt)
      PROVE  TypeInv'
  <2>1. incident \in Incident /\ why = None /\ incident.diagnosis # None
    BY <1>5 DEF TypeOK, Diagnosed
  <2>2. attempt.result \in ActionResult /\ attempt.effects \in Seq(Operation)
    BY <1>5, <2>1, ExecutionsType, EngineAssumption
  <2> DEFINE inc == WithActionResult(incident, attempt.result)
  <2>3. inc \in Incident
    BY <2>1, <2>2, WithActionResultType
  <2>4. inc.diagnosis # None
    BY <2>1 DEF WithActionResult, Incident
  <2>5. \/ HandOff(inc, "action_failed")
        \/ Close(inc, "no_action")
        \/ Proceed(inc, "verify")
    BY <1>5 DEF Act
  <2>6. cluster' \in [Ids -> Seq(Operation)]
    BY <1>5, <2>2, HistoryType DEF Act, TypeOK
  <2> HIDE DEF inc
  <2> QED
    BY <1>5, <2>1, <2>3, <2>4, <2>5, <2>6, StageType
       DEF Act, Outcome, EscalationReason
<1>6. ASSUME NEW v \in Verification, Verify(v)
      PROVE  TypeInv'
  <2>1. incident \in Incident /\ why = None /\ cluster' = cluster
    BY <1>6 DEF Verify, TypeOK
  <2> DEFINE inc == WithVerification(incident, v)
  <2>2. inc \in Incident
    BY <2>1, WithVerificationType
  <2>3. Proceed(inc, "replay") \/ HandOff(inc, "not_recovered")
    BY <1>6 DEF Verify
  <2> HIDE DEF inc
  <2>4. CASE Proceed(inc, "replay")
    BY <1>6, <2>1, <2>2, <2>4, NoneAssumption
       DEF Verify, Proceed, TypeOK, Diagnosed, PC
  <2>5. CASE HandOff(inc, "not_recovered")
    BY <1>6, <2>1, <2>2, <2>5, StageType DEF Verify, TypeOK, EscalationReason
  <2> QED
    BY <2>3, <2>4, <2>5
<1>7. ASSUME NEW r \in Replays, Replay(r)
      PROVE  TypeInv'
  <2>1. incident \in Incident /\ why = None /\ cluster' = cluster
    BY <1>7 DEF Replay, TypeOK
  <2> DEFINE inc == WithReplayResult(incident, r)
  <2>2. inc \in Incident
    BY <2>1, WithReplayResultType, ReplaysType
  <2>3. Close(inc, "resolved") \/ HandOff(inc, "partial_recovery")
    BY <1>7 DEF Replay
  <2> HIDE DEF inc
  <2> QED
    BY <1>7, <2>1, <2>2, <2>3, StageType
       DEF Replay, TypeOK, Outcome, EscalationReason
<1>8. CASE Escalate
  <2>1. incident \in Incident /\ why \in EscalationReason
    BY <1>8 DEF Escalate, TypeOK
  <2>2. WithOutcome(incident, "escalated") \in Incident
    BY <2>1, WithOutcomeType DEF Outcome
  <2>3. alerts' \in [Ids -> Seq(Alert)]
    BY <1>8, <2>1, DeliverType DEF Escalate, TypeOK
  <2> QED
    BY <1>8, <2>2, <2>3, NoneAssumption DEF Escalate, TypeOK, Diagnosed, PC
<1>9. CASE Finish
  <2>1. incident \in Incident /\ why = None
    BY <1>9 DEF Finish, TypeOK
  <2> DEFINE inc == WithPostmortem(incident, Draft(incident))
  <2>2. inc \in Incident
    BY <2>1, WithPostmortemType
  <2>3. store' = [store EXCEPT ![inc.id] = inc] /\ results' = Append(results, inc)
    BY <1>9 DEF Finish
  <2> HIDE DEF inc
  <2>4. store' \in [Ids -> Incident \union {None}] /\ results' \in Seq(Incident)
    <3>1. store \in [Ids -> Incident \union {None}] /\ results \in Seq(Incident)
      BY DEF TypeOK
    <3>2. results' \in Seq(Incident)
      BY <2>2, <2>3, <3>1
    <3>3. store' \in [Ids -> Incident \union {None}]
      BY <2>2, <2>3, <3>1
    <3> QED
      BY <3>2, <3>3
  <2> QED
    BY <1>9, <2>1, <2>4 DEF Finish, TypeOK, Diagnosed, PC
<1>10. CASE Return
  BY <1>10 DEF Return, TypeOK, Diagnosed, PC
<1>11. CASE Raise
  <2>1. pc = "escalate" => Deliver \in [Ids -> Seq(Alert)]
    BY DeliverType DEF TypeOK
  <2>2. alerts' \in [Ids -> Seq(Alert)]
    BY <1>11, <2>1 DEF Raise, TypeOK
  <2>3. Len(pending') = 0 /\ Len(pending) \in Nat
    BY <1>11 DEF Raise, TypeOK
  <2> QED
    BY <1>11, <2>2, <2>3, EngineAssumption DEF Raise, TypeOK, Diagnosed, PC
<1>12. CASE UNCHANGED vars
  BY <1>12 DEF vars, TypeOK, Diagnosed
<1>13. CASE Process
  BY <1>3, <1>4, <1>5, <1>6, <1>7, <1>8, <1>9, <1>13, EngineAssumption DEF Process
<1>14. CASE Next
  BY <1>1, <1>2, <1>10, <1>11, <1>13, <1>14, BatchesType DEF Next
<1> QED
  BY <1>1, <1>5, <1>12, <1>14

\* The type invariant and the diagnosis it needs hold in every state.
THEOREM TypeInvHolds == Spec => []TypeInv
<1>1. TypeInv /\ [Next]_vars => TypeInv'
  BY TypeInvStep
<1> QED
  BY <1>1, TypeInvInit, PTL DEF Spec

\* Every variable of the engine keeps its type, an incident is in process
\* exactly between _new_incident and _finish, and a reason to escalate is set
\* exactly while the escalator is called, whatever ports raise
\* (engine.py:93-191).
THEOREM TypeCorrect == Spec => []TypeOK
<1>1. TypeInv => TypeOK
  BY DEF TypeInv
<1> QED
  BY <1>1, TypeInvHolds, PTL

-----------------------------------------------------------------------------
(* Nothing is changed without an approval. *)

\* The incident in process is the last one created, and its id is not in the
\* store: no saved incident is newer than the counter.
FreshId ==
    /\ incident # None =>
          created >= 1 /\ incident.id = created /\ store[created] = None
    /\ \A id \in Ids : Saved(id) => id <= created

\* The cluster was changed for incidents that exist only, and for the one in
\* process not before the actuator was called.
ActedLate ==
    \A id \in Ids : cluster[id] # << >> =>
        /\ id <= created
        /\ incident # None /\ id = created => pc \notin {"diagnose", "gate", "act"}

\* The actuator is only called with an approved incident.
ApprovedFirst ==
    pc = "act" => incident.verdict # None /\ incident.verdict.decision = "approved"

\* Either nothing was changed for an incident, or its record tells of an approval
\* and the one change is the operation that was approved.
Backs(rec, changes) ==
    \/ changes = << >>
    \/ /\ rec.verdict # None /\ rec.verdict.decision = "approved"
       /\ changes = <<OperationOf(rec)>>

EveryChangeBacked ==
    \A id \in Ids :
        /\ InProcess(id) => Backs(incident, cluster[id])
        /\ ~InProcess(id) /\ Saved(id) => Backs(store[id], cluster[id])

MutationInv ==
    FreshId /\ ActedLate /\ ApprovedFirst /\ EveryChangeBacked /\ ChangedAtMostOnce

\* The incident in process has an id the histories know.
LEMMA IdKnown ==
    ASSUME TypeInv, FreshId, incident # None
    PROVE  created \in Ids /\ incident.id = created /\ incident \in Incident
<1>1. created \in Nat /\ Len(pending) \in Nat /\ created + Len(pending) <= MaxIncidents
  BY EngineAssumption DEF TypeInv, TypeOK
<1> QED
  BY <1>1, EngineAssumption DEF TypeInv, TypeOK, FreshId, Ids

\* Before the actuator is called an incident has changed nothing, so it may be
\* enriched in any way that keeps its id.
LEMMA BeforeActing ==
    ASSUME TypeInv, TypeInv', MutationInv,
           pc \in {"diagnose", "gate"},
           incident'.id = incident.id,
           UNCHANGED <<created, store, cluster>>,
           ApprovedFirst'
    PROVE  MutationInv'
<1>1. incident # None /\ incident.id = created /\ created \in Ids
  BY IdKnown DEF MutationInv, TypeInv, TypeOK
<1>2. cluster[created] = << >>
  BY <1>1 DEF MutationInv, ActedLate
<1>3. FreshId' /\ ActedLate'
  BY <1>1, <1>2 DEF MutationInv, FreshId, ActedLate, Saved, Ids
<1>4. EveryChangeBacked'
  BY <1>1, <1>2 DEF MutationInv, EveryChangeBacked, Backs, InProcess, Saved
<1>5. ChangedAtMostOnce'
  BY DEF MutationInv, ChangedAtMostOnce, Ids
<1> QED
  BY <1>3, <1>4, <1>5 DEF MutationInv

\* From the actuator's call on, a stage keeps what the approval was for, and
\* the only change of the cluster is the approved operation.
LEMMA FromActing ==
    ASSUME TypeInv, TypeInv', MutationInv,
           pc \in {"act", "verify", "replay", "escalate"},
           pc' \in {"verify", "replay", "escalate", "finish"},
           incident'.id = incident.id,
           incident'.verdict = incident.verdict,
           incident'.diagnosis = incident.diagnosis,
           incident'.signal = incident.signal,
           UNCHANGED <<created, store>>,
           \/ cluster' = cluster
           \/ /\ pc = "act"
              /\ \E effects \in {<< >>, <<OperationOf(incident)>>} :
                    cluster' = [cluster EXCEPT ![incident.id] = @ \o effects]
    PROVE  MutationInv'
<1>1. /\ incident # None /\ incident.id = created /\ created \in Ids
      /\ incident' # None /\ incident \in Incident
  BY IdKnown DEF MutationInv, TypeInv, TypeOK
<1>2. created \in Nat /\ created >= 1 /\ cluster \in [Ids -> Seq(Operation)]
  BY <1>1 DEF MutationInv, FreshId, TypeInv, TypeOK
<1>3. FreshId' /\ ApprovedFirst'
  BY <1>1 DEF MutationInv, FreshId, ApprovedFirst, Saved, Ids
<1>4. OperationOf(incident') = OperationOf(incident)
  BY DEF OperationOf
<1>5. \A id \in Ids : id # created => cluster'[id] = cluster[id]
  BY <1>1, <1>2
<1>6. \/ cluster'[created] = cluster[created]
      \/ cluster'[created] = <<OperationOf(incident)>> /\ pc = "act"
  <2>1. CASE cluster' = cluster
    BY <2>1
  <2>2. CASE /\ pc = "act"
             /\ \E effects \in {<< >>, <<OperationOf(incident)>>} :
                   cluster' = [cluster EXCEPT ![incident.id] = @ \o effects]
    <3>1. PICK effects \in {<< >>, <<OperationOf(incident)>>} :
             cluster' = [cluster EXCEPT ![incident.id] = @ \o effects]
      BY <2>2
    <3>2. cluster[created] = << >>
      BY <1>1, <2>2 DEF MutationInv, ActedLate
    <3>3. cluster'[created] = << >> \o effects
      BY <1>1, <1>2, <3>1, <3>2
    <3>4. << >> \o effects = effects
      BY <3>1
    <3> QED
      BY <2>2, <3>1, <3>2, <3>3, <3>4
  <2> QED
    BY <2>1, <2>2
<1>7. ActedLate'
  BY <1>1, <1>2, <1>5, <1>6 DEF MutationInv, ActedLate, Ids
<1>8. Backs(incident', cluster'[created])
  <2>1. Backs(incident, cluster[created])
    BY <1>1 DEF MutationInv, EveryChangeBacked, InProcess
  <2> QED
    BY <1>4, <1>6, <2>1 DEF MutationInv, ApprovedFirst, Backs
<1>9. EveryChangeBacked'
  BY <1>1, <1>5, <1>8 DEF MutationInv, EveryChangeBacked, InProcess, Saved, Ids
<1>10. ChangedAtMostOnce'
  <2>1. Len(cluster[created]) <= 1
    BY <1>1 DEF MutationInv, ChangedAtMostOnce
  <2>2. Len(<<OperationOf(incident)>>) <= 1
    OBVIOUS
  <2>3. Len(cluster'[created]) <= 1
    BY <1>6, <2>1, <2>2, Zenon
  <2>4. \A id \in Ids : id # created => Len(cluster'[id]) <= 1
    <3> SUFFICES ASSUME NEW id \in Ids, id # created
                 PROVE  Len(cluster'[id]) <= 1
      OBVIOUS
    <3>1. Len(cluster[id]) <= 1 /\ cluster'[id] = cluster[id]
      BY <1>5 DEF MutationInv, ChangedAtMostOnce
    <3> QED
      BY <3>1, Zenon
  <2>5. \A id \in Ids : Len(cluster'[id]) <= 1
    BY <2>3, <2>4
  <2> QED
    BY <2>5, Zenon DEF ChangedAtMostOnce, Ids
<1> QED
  BY <1>3, <1>7, <1>9, <1>10 DEF MutationInv

\* Letting go of the incident in process: it was saved, or it is lost. Either
\* way what is left on record of it backs what was done for it.
LEMMA LettingGo ==
    ASSUME TypeInv, TypeInv', MutationInv,
           incident # None, incident' = None,
           UNCHANGED <<created, cluster>>,
           NEW saved \in {None} \union Incident,
           store' = [store EXCEPT ![created] = saved],
           saved # None =>
               /\ saved.verdict = incident.verdict
               /\ saved.diagnosis = incident.diagnosis
               /\ saved.signal = incident.signal
    PROVE  MutationInv'
<1>1. /\ created \in Ids /\ incident.id = created
      /\ store \in [Ids -> Incident \union {None}]
  BY IdKnown DEF MutationInv, TypeInv, TypeOK
<1>2. pc' # "act"
  BY DEF TypeInv, TypeOK
<1>3. \A id \in Ids : store'[id] = IF id = created THEN saved ELSE store[id]
  BY <1>1
<1>4. FreshId' /\ ActedLate' /\ ApprovedFirst'
  BY <1>1, <1>2, <1>3 DEF MutationInv, FreshId, ActedLate, ApprovedFirst, Saved, Ids
<1>5. EveryChangeBacked'
  <2>1. Backs(incident, cluster[created])
    BY <1>1 DEF MutationInv, EveryChangeBacked, InProcess
  <2>2. saved # None => Backs(saved, cluster[created])
    BY <2>1 DEF Backs, OperationOf
  <2>3. \A id \in Ids : id # created /\ store[id] # None => Backs(store[id], cluster[id])
    BY <1>1 DEF MutationInv, EveryChangeBacked, InProcess, Saved
  <2>4. \A id \in Ids : store'[id] # None => Backs(store'[id], cluster'[id])
    BY <1>3, <2>2, <2>3
  <2> QED
    BY <2>4 DEF EveryChangeBacked, InProcess, Saved, Ids
<1>6. ChangedAtMostOnce'
  BY DEF MutationInv, ChangedAtMostOnce, Ids
<1> QED
  BY <1>4, <1>5, <1>6 DEF MutationInv

\* Incidents get fresh ids, the cluster is changed for approved incidents only, and
\* not before the actuator is called (engine.py:107-147).
THEOREM MutationInvHolds == Spec => []MutationInv
<1>1. Init => MutationInv
  BY DEF Init, MutationInv, FreshId, ActedLate, ApprovedFirst,
         EveryChangeBacked, ChangedAtMostOnce, InProcess, Saved, Ids
<1>2. TypeInv /\ TypeInv' /\ MutationInv /\ [Next]_vars => MutationInv'
  <2> SUFFICES ASSUME TypeInv, TypeInv', MutationInv, [Next]_vars
               PROVE  MutationInv'
    OBVIOUS
  <2>1. ASSUME NEW batch \in Batches, Detect(batch)
        PROVE  MutationInv'
    BY <2>1 DEF Detect, MutationInv, FreshId, ActedLate, ApprovedFirst, Saved,
                EveryChangeBacked, ChangedAtMostOnce, InProcess, Ids
  <2>2. CASE Begin
    <3>1. /\ incident = None /\ created' = created + 1 /\ created \in Nat
          /\ created + 1 \in Ids /\ pc' = "diagnose"
          /\ cluster' = cluster /\ store' = store
      <4>1. Len(pending) >= 1
        BY <2>2 DEF Begin, TypeInv, TypeOK
      <4> QED
        BY <2>2, <4>1, EngineAssumption DEF Begin, TypeInv, TypeOK, Ids
    <3>2. incident'.id = created + 1
      BY <2>2 DEF Begin, NewIncident
    <3>3. FreshId' /\ ActedLate' /\ ApprovedFirst'
      BY <3>1, <3>2 DEF MutationInv, FreshId, ActedLate, ApprovedFirst, Saved, Ids
    <3>4. cluster[created + 1] = << >>
      BY <3>1 DEF MutationInv, ActedLate
    <3>5. EveryChangeBacked'
      BY <3>1, <3>2, <3>4
         DEF MutationInv, EveryChangeBacked, Backs, InProcess, Saved, Ids
    <3>6. ChangedAtMostOnce'
      BY <3>1 DEF MutationInv, ChangedAtMostOnce, Ids
    <3> QED
      BY <3>3, <3>5, <3>6 DEF MutationInv
  <2>3. ASSUME NEW d \in Diagnoses, Diagnose(d)
        PROVE  MutationInv'
    <3>1. incident \in Incident /\ pc' \in {"finish", "escalate", "gate"}
      BY <2>3 DEF Diagnose, Close, HandOff, Proceed, TypeInv, TypeOK
    <3>2. incident'.id = incident.id
      BY <2>3, <3>1 DEF Diagnose, Close, HandOff, Proceed, WithDiagnosis,
                        WithOutcome, Incident
    <3> QED
      BY <2>3, <3>1, <3>2, BeforeActing DEF Diagnose, ApprovedFirst
  <2>4. ASSUME NEW v \in Verdicts, Gate(v)
        PROVE  MutationInv'
    <3>1. incident \in Incident /\ v \in PolicyVerdict
      BY <2>4, EngineAssumption DEF Gate, TypeInv, TypeOK
    <3>2. incident' = WithVerdict(incident, v)
      BY <2>4 DEF Gate, HandOff, Proceed
    <3>3. incident'.id = incident.id /\ incident'.verdict = v
      BY <3>1, <3>2 DEF WithVerdict, Incident
    <3>4. ApprovedFirst'
      BY <2>4, <3>1, <3>3, NoneAssumption DEF Gate, HandOff, Proceed, ApprovedFirst
    <3> QED
      BY <2>4, <3>3, <3>4, BeforeActing DEF Gate
  <2>5. ASSUME pc = "act", NEW attempt \in Executions(incident, DryRun), Act(attempt)
        PROVE  MutationInv'
    <3>1. incident \in Incident /\ incident.diagnosis # None
      BY <2>5 DEF TypeInv, TypeOK, Diagnosed
    <3>2. attempt.effects \in {<< >>, <<OperationOf(incident)>>}
      BY <2>5, <3>1, ExecutionsType, EngineAssumption
    <3>3. pc' \in {"escalate", "finish", "verify"}
      BY <2>5 DEF Act, Close, HandOff, Proceed
    <3>4. /\ incident'.id = incident.id
          /\ incident'.verdict = incident.verdict
          /\ incident'.diagnosis = incident.diagnosis
          /\ incident'.signal = incident.signal
      BY <2>5, <3>1 DEF Act, Close, HandOff, Proceed, WithActionResult,
                        WithOutcome, Incident
    <3> QED
      BY <2>5, <3>2, <3>3, <3>4, FromActing DEF Act
  <2>6. ASSUME NEW v \in Verification, Verify(v)
        PROVE  MutationInv'
    <3>1. incident \in Incident
      BY <2>6 DEF Verify, TypeInv, TypeOK
    <3>2. /\ incident'.id = incident.id
          /\ incident'.verdict = incident.verdict
          /\ incident'.diagnosis = incident.diagnosis
          /\ incident'.signal = incident.signal
      BY <2>6, <3>1 DEF Verify, HandOff, Proceed, WithVerification, Incident
    <3> QED
      BY <2>6, <3>1, <3>2, FromActing DEF Verify, HandOff, Proceed
  <2>7. ASSUME NEW r \in Replays, Replay(r)
        PROVE  MutationInv'
    <3>1. incident \in Incident
      BY <2>7 DEF Replay, TypeInv, TypeOK
    <3>2. /\ incident'.id = incident.id
          /\ incident'.verdict = incident.verdict
          /\ incident'.diagnosis = incident.diagnosis
          /\ incident'.signal = incident.signal
      BY <2>7, <3>1 DEF Replay, Close, HandOff, WithReplayResult, WithOutcome, Incident
    <3> QED
      BY <2>7, <3>1, <3>2, FromActing DEF Replay, Close, HandOff
  <2>8. CASE Escalate
    <3>1. incident \in Incident
      BY <2>8 DEF Escalate, TypeInv, TypeOK
    <3>2. /\ incident'.id = incident.id
          /\ incident'.verdict = incident.verdict
          /\ incident'.diagnosis = incident.diagnosis
          /\ incident'.signal = incident.signal
      BY <2>8, <3>1 DEF Escalate, WithOutcome, Incident
    <3> QED
      BY <2>8, <3>1, <3>2, FromActing DEF Escalate
  <2>9. CASE Finish
    <3>1. incident \in Incident /\ incident # None
      BY <2>9, NoneAssumption DEF Finish, TypeInv, TypeOK
    <3> DEFINE saved == WithPostmortem(incident, Draft(incident))
    <3>2. saved \in Incident
      BY <3>1, WithPostmortemType
    <3>3. /\ saved.id = incident.id
          /\ saved.verdict = incident.verdict
          /\ saved.diagnosis = incident.diagnosis
          /\ saved.signal = incident.signal
      BY <3>1 DEF WithPostmortem, Incident
    <3>4. incident.id = created
      BY <3>1 DEF MutationInv, FreshId
    <3>5. store' = [store EXCEPT ![saved.id] = saved]
      BY <2>9 DEF Finish
    <3> HIDE DEF saved
    <3> QED
      BY <2>9, <3>1, <3>2, <3>3, <3>4, <3>5, LettingGo DEF Finish
  <2>10. CASE Return
    BY <2>10 DEF Return, MutationInv, FreshId, ActedLate, ApprovedFirst, Saved,
                 EveryChangeBacked, ChangedAtMostOnce, InProcess, Ids, TypeInv, TypeOK
  <2>11. CASE Raise
    <3>1. incident # None /\ incident' = None
      BY <2>11 DEF Raise, PortAt, TypeInv, TypeOK
    <3>2. store' = [store EXCEPT ![created] = None]
      <4>1. store[created] = None
        BY <3>1 DEF MutationInv, FreshId
      <4>2. store \in [Ids -> Incident \union {None}] /\ store' = store
        BY <2>11 DEF Raise, TypeInv, TypeOK
      <4> QED
        BY <4>1, <4>2
    <3> QED
      BY <2>11, <3>1, <3>2, LettingGo DEF Raise
  <2>12. CASE UNCHANGED vars
    BY <2>12 DEF vars, MutationInv, FreshId, ActedLate, ApprovedFirst, Saved,
                 EveryChangeBacked, ChangedAtMostOnce, InProcess, Ids
  <2> QED
    BY <2>1, <2>2, <2>3, <2>4, <2>5, <2>6, <2>7, <2>8, <2>9, <2>10, <2>11, <2>12
       DEF Next, Process
<1> QED
  BY <1>1, <1>2, TypeInvHolds, PTL DEF Spec

\* No change is made to the cluster without an approved verdict for that
\* action on that target, whatever the ports answer and whichever raise
\* (engine.py:124-136).
THEOREM ApprovedOnly == Spec => []OnlyApprovedMutations
<1>1. MutationInv => OnlyApprovedMutations
  <2> SUFFICES ASSUME EveryChangeBacked, NEW id \in Ids, NEW op \in Range(cluster[id]),
                      RecordOf(id) # None
               PROVE  LET rec == RecordOf(id)
                      IN /\ rec.verdict # None /\ rec.verdict.decision = "approved"
                         /\ rec.diagnosis.proposed_action = op.action
                         /\ op.target = TargetOf(rec.diagnosis, rec.signal)
    BY DEF MutationInv, OnlyApprovedMutations
  <2>1. Backs(RecordOf(id), cluster[id])
    BY DEF EveryChangeBacked, RecordOf, InProcess, Saved
  <2>2. cluster[id] # << >>
    BY DEF Range
  <2>3. cluster[id] = <<OperationOf(RecordOf(id))>>
    BY <2>1, <2>2 DEF Backs
  <2>4. op = OperationOf(RecordOf(id))
    BY <2>3 DEF Range
  <2> QED
    BY <2>1, <2>2, <2>4 DEF Backs, OperationOf
<1> QED
  BY <1>1, MutationInvHolds, PTL

\* No incident changes the cluster more than once, although a call that raised may
\* have taken effect and a port may raise at any stage: what was approved once is
\* never done twice (engine.py:133-147, kubernetes.py:84-100).
THEOREM ChangedOnce == Spec => []ChangedAtMostOnce
<1>1. MutationInv => ChangedAtMostOnce
  BY DEF MutationInv
<1> QED
  BY <1>1, MutationInvHolds, PTL

=============================================================================
