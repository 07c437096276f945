--------------------------- MODULE RemediationEngine ---------------------------
(***************************************************************************)
(* RemediationEngine (core/engine.py): the orchestrator that carries each  *)
(* detected signal through                                                 *)
(*                                                                         *)
(*    diagnose -> gate -> act -> verify -> replay -> post-mortem -> store  *)
(*                                                                         *)
(* with a hand-off to a human wherever a stage does not end well. run_once *)
(* is one synchronous call; the model takes one step per call to a port,   *)
(* because between two such calls the world outside may change, and a port *)
(* may raise. Nothing in the engine catches an exception, so one that      *)
(* leaves a port ends run_once on the spot.                                *)
(*                                                                         *)
(* The ports are the environment: each action takes the port's answer as   *)
(* its parameter, and Next quantifies over the answers the ports of the    *)
(* repository can give. The actuator is the concrete KubernetesActuator.   *)
(***************************************************************************)
EXTENDS Actuator, Replayer

CONSTANTS
    Signals,         \* what the detector may report
    Diagnoses,       \* what the diagnoser may propose
    Verdicts,        \* what the policy gate may decide
    DryRun,          \* EngineConfig.dry_run
    FaultyPorts,     \* the ports whose calls may raise
    MaxBatch,        \* bound on the signals of one run
    MaxIncidents     \* bound on the signals ever detected

\* The ports that can raise in this repository: the LLM client, the verifier's
\* metric query, the replayer's fetch and the escalator's send are not guarded.
RaisingPort == {"diagnoser", "verifier", "replayer", "escalator"}

\* Why an incident is handed to a human: the reason given to _do_escalate.
EscalationReason == {"deferred", "denied", "approval", "action_failed",
                     "not_recovered", "partial_recovery"}

ASSUME EngineAssumption ==
    /\ Signals \subseteq Signal
    /\ Diagnoses \subseteq Diagnosis
    /\ Verdicts \subseteq PolicyVerdict
    /\ DryRun \in BOOLEAN
    /\ FaultyPorts \subseteq RaisingPort
    /\ MaxBatch \in Nat
    /\ MaxIncidents \in Nat
    /\ None \notin EscalationReason

VARIABLES
    pc,         \* where run_once stands: the next port it calls
    pending,    \* the signals of this run that have no incident yet
    incident,   \* the incident in process, or None
    why,        \* the reason an escalation under way carries, or None
    results,    \* the incidents of this run that are finished
    detected,   \* history: how many signals were ever detected
    created,    \* how many incidents were ever created; the last id
    store,      \* the incident store: id -> saved incident, or None
    alerts,     \* id -> the escalations delivered to a human, in their order
    cluster     \* history: id -> the changes made to the cluster, in their order

run  == <<pc, pending, incident, why, results>>
vars == <<pc, pending, incident, why, results, detected, created, store, alerts,
          cluster>>

Ids == 1..MaxIncidents

PC == {"idle", "next", "diagnose", "gate", "act", "verify", "replay",
       "escalate", "finish"}

Alert == [service : Source, reason : EscalationReason]

Batches == UNION {[1..n -> Signals] : n \in 0..MaxBatch}

-----------------------------------------------------------------------------
(* How a stage can end. *)

\* `return incident.with_outcome(...)`
Close(inc, outcome) ==
    /\ incident' = WithOutcome(inc, outcome)
    /\ pc' = "finish"
    /\ UNCHANGED why

\* `return self._do_escalate(incident, reason)`, up to the escalator's call
HandOff(inc, reason) ==
    /\ incident' = inc
    /\ why' = reason
    /\ pc' = "escalate"

\* The next stage's port is called with the enriched incident.
Proceed(inc, stage) ==
    /\ incident' = inc
    /\ pc' = stage
    /\ UNCHANGED why

-----------------------------------------------------------------------------
(* run_once *)

Init ==
    /\ pc = "idle"
    /\ pending = << >>
    /\ incident = None
    /\ why = None
    /\ results = << >>
    /\ detected = 0
    /\ created = 0
    /\ store = [id \in Ids |-> None]
    /\ alerts = [id \in Ids |-> << >>]
    /\ cluster = [id \in Ids |-> << >>]

\* signals = self._detector.detect()
Detect(batch) ==
    /\ pc = "idle"
    /\ detected + Len(batch) <= MaxIncidents
    /\ pc' = "next"
    /\ pending' = batch
    /\ results' = << >>
    /\ detected' = detected + Len(batch)
    /\ UNCHANGED <<incident, why, created, store, alerts, cluster>>

\* _new_incident: a fresh id for the next signal of the batch
Begin ==
    /\ pc = "next"
    /\ pending # << >>
    /\ incident' = NewIncident(created + 1, Head(pending))
    /\ pending' = Tail(pending)
    /\ created' = created + 1
    /\ pc' = "diagnose"
    /\ UNCHANGED <<why, results, detected, store, alerts, cluster>>

\* Stage 2 -- DIAGNOSE
Diagnose(d) ==
    /\ pc = "diagnose"
    /\ LET inc == WithDiagnosis(incident, d)
       IN \/ d.proposed_action = "no_op"    /\ Close(inc, "no_action")
          \/ d.proposed_action = "escalate" /\ HandOff(inc, "deferred")
          \/ d.proposed_action \in Remedy   /\ Proceed(inc, "gate")
    /\ UNCHANGED <<pending, results, detected, created, store, alerts, cluster>>

\* Mutant of Gate: only a denial stops the action.
GateUnlessDenied(v) ==
    /\ pc = "gate"
    /\ LET inc == WithVerdict(incident, v)
       IN \/ v.decision = "denied" /\ HandOff(inc, "denied")
          \/ v.decision # "denied" /\ Proceed(inc, "act")
    /\ UNCHANGED <<pending, results, detected, created, store, alerts, cluster>>

\* Stage 3 -- POLICY GATE
Gate(v) ==
    /\ pc = "gate"
    /\ LET inc == WithVerdict(incident, v)
       IN \/ v.decision = "denied"            /\ HandOff(inc, "denied")
          \/ v.decision = "requires_approval" /\ HandOff(inc, "approval")
          \/ v.decision = "approved"          /\ Proceed(inc, "act")
    /\ UNCHANGED <<pending, results, detected, created, store, alerts, cluster>>

\* Mutants of Act: the error is not looked at; the enriched copy of the incident
\* is dropped.
ActIgnoringError(attempt) ==
    /\ pc = "act"
    /\ LET r == attempt.result
           inc == WithActionResult(incident, r)
       IN \/ r.dry_run  /\ Close(inc, "no_action")
          \/ ~r.dry_run /\ Proceed(inc, "verify")
    /\ cluster' = [cluster EXCEPT ![incident.id] = @ \o attempt.effects]
    /\ UNCHANGED <<pending, results, detected, created, store, alerts>>

ActUnrecorded(attempt) ==
    /\ pc = "act"
    /\ LET r == attempt.result
       IN \/ r.error                   /\ HandOff(incident, "action_failed")
          \/ ~r.error /\ r.dry_run     /\ Close(incident, "no_action")
          \/ ~r.error /\ ~r.dry_run    /\ Proceed(incident, "verify")
    /\ cluster' = [cluster EXCEPT ![incident.id] = @ \o attempt.effects]
    /\ UNCHANGED <<pending, results, detected, created, store, alerts>>

\* Stage 4 -- ACT: the error is looked at before the dry-run flag
Act(attempt) ==
    /\ pc = "act"
    /\ LET r == attempt.result
           inc == WithActionResult(incident, r)
       IN \/ r.error                   /\ HandOff(inc, "action_failed")
          \/ ~r.error /\ r.dry_run     /\ Close(inc, "no_action")
          \/ ~r.error /\ ~r.dry_run    /\ Proceed(inc, "verify")
    /\ cluster' = [cluster EXCEPT ![incident.id] = @ \o attempt.effects]
    /\ UNCHANGED <<pending, results, detected, created, store, alerts>>

\* Mutant of Verify: the hand-off carries another stage's reason.
VerifyBlamingAction(v) ==
    /\ pc = "verify"
    /\ LET inc == WithVerification(incident, v)
       IN \/ v.recovered  /\ Proceed(inc, "replay")
          \/ ~v.recovered /\ HandOff(inc, "action_failed")
    /\ UNCHANGED <<pending, results, detected, created, store, alerts, cluster>>

\* Stage 5 -- VERIFY
Verify(v) ==
    /\ pc = "verify"
    /\ LET inc == WithVerification(incident, v)
       IN \/ v.recovered  /\ Proceed(inc, "replay")
          \/ ~v.recovered /\ HandOff(inc, "not_recovered")
    /\ UNCHANGED <<pending, results, detected, created, store, alerts, cluster>>

\* Mutant of Replay: a partial recovery passes for a full one.
ReplayAssumedComplete(r) ==
    /\ pc = "replay"
    /\ Close(WithReplayResult(incident, r), "resolved")
    /\ UNCHANGED <<pending, results, detected, created, store, alerts, cluster>>

\* Stage 6 -- REPLAY
Replay(r) ==
    /\ pc = "replay"
    /\ LET inc == WithReplayResult(incident, r)
       IN \/ Complete(r)  /\ Close(inc, "resolved")
          \/ ~Complete(r) /\ HandOff(inc, "partial_recovery")
    /\ UNCHANGED <<pending, results, detected, created, store, alerts, cluster>>

\* What the escalator is asked to deliver.
AlertNow == [service |-> incident.signal.source, reason |-> why]

Deliver == [alerts EXCEPT ![incident.id] = Append(@, AlertNow)]

\* Mutants of Escalate: nobody is told; the copy marked escalated is dropped.
EscalateSilently ==
    /\ pc = "escalate"
    /\ incident' = WithOutcome(incident, "escalated")
    /\ why' = None
    /\ pc' = "finish"
    /\ UNCHANGED <<pending, results, detected, created, store, alerts, cluster>>

EscalateUnmarked ==
    /\ pc = "escalate"
    /\ alerts' = Deliver
    /\ why' = None
    /\ pc' = "finish"
    /\ UNCHANGED <<pending, incident, results, detected, created, store, cluster>>

\* _do_escalate: the human is told, then the incident is marked
Escalate ==
    /\ pc = "escalate"
    /\ alerts' = Deliver
    /\ incident' = WithOutcome(incident, "escalated")
    /\ why' = None
    /\ pc' = "finish"
    /\ UNCHANGED <<pending, results, detected, created, store, cluster>>

\* _data_recovery
RecoveryOf(r) ==
    IF r = None THEN "none" ELSE IF Complete(r) THEN "complete" ELSE "partial"

\* What both post-mortem writers compute from the incident. Neither raises: the
\* one that asks a model for its prose falls back to the template's, and takes
\* none of these facts from it.
Draft(inc) ==
    [escalated     |-> inc.outcome = "escalated",
     timeline      |-> inc.audit_trail,
     data_recovery |-> RecoveryOf(inc.replay_result)]

\* Mutant of Finish: the incident is returned but not saved.
FinishUnsaved ==
    /\ pc = "finish"
    /\ results' = Append(results, WithPostmortem(incident, Draft(incident)))
    /\ incident' = None
    /\ pc' = "next"
    /\ UNCHANGED <<pending, why, detected, created, store, alerts, cluster>>

\* _finish: the post-mortem is drafted, the incident saved and returned
Finish ==
    /\ pc = "finish"
    /\ LET inc == WithPostmortem(incident, Draft(incident))
       IN /\ store' = [store EXCEPT ![inc.id] = inc]
          /\ results' = Append(results, inc)
    /\ incident' = None
    /\ pc' = "next"
    /\ UNCHANGED <<pending, why, detected, created, alerts, cluster>>

\* Every signal of the batch has been finished: run_once returns.
Return ==
    /\ pc = "next"
    /\ pending = << >>
    /\ pc' = "idle"
    /\ UNCHANGED <<pending, incident, why, results, detected, created, store,
                   alerts, cluster>>

\* The port called at each stage, for the stages whose port may raise.
PortAt == [diagnose |-> "diagnoser", verify |-> "verifier",
           replay |-> "replayer", escalate |-> "escalator"]

\* Mutants of Raise: the incident is not let go of; it is retried from the start,
\* without a limit.
RaiseKeepingIncident ==
    /\ pc \in DOMAIN PortAt
    /\ PortAt[pc] \in FaultyPorts
    /\ pc' = "idle"
    /\ pending' = << >>
    /\ why' = None
    /\ UNCHANGED <<incident, results, detected, created, store, alerts, cluster>>

RaiseRetried ==
    /\ pc \in DOMAIN PortAt
    /\ PortAt[pc] \in FaultyPorts
    /\ pc' = "diagnose"
    /\ incident' = NewIncident(incident.id, incident.signal)
    /\ why' = None
    /\ UNCHANGED <<pending, results, detected, created, store, alerts, cluster>>

\* A port raises: the exception leaves run_once, and with it go the incident in
\* process, the rest of the batch and the list of results. An escalator whose
\* send raises may have delivered the alert or not.
Raise ==
    /\ pc \in DOMAIN PortAt
    /\ PortAt[pc] \in FaultyPorts
    /\ pc' = "idle"
    /\ pending' = << >>
    /\ incident' = None
    /\ why' = None
    /\ results' = << >>
    /\ alerts' \in IF pc = "escalate" THEN {alerts, Deliver} ELSE {alerts}
    /\ UNCHANGED <<detected, created, store, cluster>>

\* The stages of one incident, and its closeout.
Process ==
    \/ \E d \in Diagnoses : Diagnose(d)
    \/ \E v \in Verdicts : Gate(v)
    \/ pc = "act" /\ \E attempt \in Executions(incident, DryRun) : Act(attempt)
    \/ \E v \in Verification : Verify(v)
    \/ \E r \in Replays : Replay(r)
    \/ Escalate
    \/ Finish

Next ==
    \/ \E batch \in Batches : Detect(batch)
    \/ Begin
    \/ Process
    \/ Return
    \/ Raise

Spec == Init /\ [][Next]_vars

\* run_once is synchronous code: once called it keeps running. Nothing makes
\* anyone call it, so Detect is not fair.
FairSpec == Spec /\ WF_vars(Begin \/ Process \/ Return)

-----------------------------------------------------------------------------
(* Type invariant. *)

\* Every variable holds what the source's types allow, and an incident is in
\* process exactly at the stages between _new_incident and _finish.
TypeOK ==
    /\ pc \in PC
    /\ pending \in Seq(Signal)
    /\ incident \in Incident \union {None}
    /\ (incident = None) = (pc \in {"idle", "next"})
    /\ why \in EscalationReason \union {None}
    /\ (why # None) = (pc = "escalate")
    /\ results \in Seq(Incident)
    /\ detected \in 0..MaxIncidents
    /\ created \in Nat
    /\ created + Len(pending) <= detected
    /\ store \in [Ids -> Incident \union {None}]
    /\ alerts \in [Ids -> Seq(Alert)]
    /\ cluster \in [Ids -> Seq(Operation)]

-----------------------------------------------------------------------------
(* Vocabulary of the properties. *)

Saved(id) == store[id] # None
Alerted(id) == alerts[id] # << >>
InProcess(id) == incident # None /\ incident.id = id

\* What is on record of an incident: the saved copy, or the one in process.
RecordOf(id) == IF InProcess(id) THEN incident ELSE store[id]

\* The reason for which a human has to be told of an incident, read off what
\* the stages left on it; None if every stage went well.
CauseOf(inc) ==
    IF inc.replay_result # None
        THEN IF Complete(inc.replay_result) THEN None ELSE "partial_recovery"
    ELSE IF inc.verification # None
        THEN IF inc.verification.recovered THEN None ELSE "not_recovered"
    ELSE IF inc.action_result # None
        THEN IF inc.action_result.error THEN "action_failed" ELSE None
    ELSE IF inc.verdict # None
        THEN CASE inc.verdict.decision = "denied"            -> "denied"
               [] inc.verdict.decision = "requires_approval" -> "approval"
               [] OTHER                                      -> None
    ELSE IF inc.diagnosis.proposed_action = "escalate" THEN "deferred" ELSE None

\* The stages an incident went through, in the order of the loop.
StagesOf(inc) ==
    LET Ran(field, stage) == IF field = None THEN << >> ELSE <<stage>>
    IN Ran(inc.diagnosis, "diagnose") \o Ran(inc.verdict, "policy")
       \o Ran(inc.action_result, "act") \o Ran(inc.verification, "verify")
       \o Ran(inc.replay_result, "replay")

IsPrefixOf(s, t) == Len(s) <= Len(t) /\ SubSeq(t, 1, Len(s)) = s

-----------------------------------------------------------------------------
(* Safety. *)

\* "Anything that isn't an APPROVED, verified success ends in escalation to a
\* human" (engine.py:18): a saved incident was either told to a human, or it
\* is a success the whole way - approved, executed, recovered, nothing lost -
\* or there was nothing to do: the diagnoser found nothing, or a dry run only
\* reported an approved action.
FailSafe ==
    \A id \in Ids : Saved(id) /\ ~Alerted(id) =>
        LET inc == store[id]
        IN \/ inc.diagnosis.proposed_action = "no_op" /\ inc.outcome = "no_action"
           \/ /\ DryRun
              /\ inc.outcome = "no_action"
              /\ inc.verdict.decision = "approved"
              /\ inc.action_result.dry_run
           \/ /\ inc.outcome = "resolved"
              /\ inc.verdict.decision = "approved"
              /\ inc.action_result.executed
              /\ inc.verification.recovered
              /\ Complete(inc.replay_result)

\* An incident is marked escalated exactly when a human was told, once, for
\* the reason its stages give; the post-mortem's flag says the same
\* (engine.py:176-179, models.py:212). An escalator that raised leaves no
\* incident that contradicts it.
AlertTellsWhy ==
    \A id \in Ids : Saved(id) =>
        /\ (store[id].outcome = "escalated") = (CauseOf(store[id]) # None)
        /\ store[id].postmortem.escalated = (CauseOf(store[id]) # None)
        /\ alerts[id] = IF CauseOf(store[id]) = None THEN << >>
                        ELSE <<[service |-> store[id].signal.source,
                                reason  |-> CauseOf(store[id])]>>

\* Every change to the cluster is on record, unless it is still in process: a
\* saved incident names the very action and target that were applied, with an
\* approved verdict for it ("automated action must always produce a paper
\* trail", engine.py:23).
NoSilentMutation ==
    \A id \in Ids : \A op \in Range(cluster[id]) :
        LET rec == RecordOf(id)
        IN /\ rec # None
           /\ rec.verdict # None /\ rec.verdict.decision = "approved"
           /\ rec.action_result # None
           /\ rec.action_result.action = op.action
           /\ rec.action_result.target = op.target

\* A change whose call raised is not passed over: where the record says that
\* nothing was executed although the cluster did change, a human was told
\* (engine.py:139-141).
UncertainActionIsEscalated ==
    \A id \in Ids : Saved(id) /\ cluster[id] # << >> =>
        \/ store[id].action_result.executed
        \/ [service |-> store[id].signal.source,
            reason  |-> "action_failed"] \in Range(alerts[id])

\* Whatever ports raise, no change is made without an approved verdict for that
\* action on that target (engine.py:124-136).
OnlyApprovedMutations ==
    \A id \in Ids : \A op \in Range(cluster[id]) :
        LET rec == RecordOf(id)
        IN rec # None =>
             /\ rec.verdict # None /\ rec.verdict.decision = "approved"
             /\ rec.diagnosis.proposed_action = op.action
             /\ op.target = TargetOf(rec.diagnosis, rec.signal)

\* An incident changes the cluster at most once, whichever ports raise and
\* whether or not the cluster call did: the actuator does not repeat a call
\* whose outcome it does not know (kubernetes.py:84-100), and neither the engine
\* nor the loop carries an incident through the stages a second time. Scaling
\* twice for one fault would be two entries here.
ChangedAtMostOnce == \A id \in Ids : Len(cluster[id]) <= 1

\* The saved timeline tells the stages the incident really went through, in
\* the order of the loop, and the post-mortem holds all of it up to the moment
\* it was drafted; the data recovery it states is the one the incident ended
\* with (models.py:245, writer.py:10-13, 22-31).
AuditComplete ==
    \A id \in Ids : Saved(id) =>
        LET inc == store[id]
        IN /\ inc.postmortem.timeline = Append(StagesOf(inc), "outcome")
           /\ inc.audit_trail = Append(inc.postmortem.timeline, "postmortem")
           /\ (inc.postmortem.data_recovery = "complete") = (inc.outcome = "resolved")
           /\ inc.postmortem.data_recovery = "partial" => Alerted(id)

-----------------------------------------------------------------------------
(* Action properties. *)

\* What a stage wrote stays: as long as an incident is in process its timeline
\* only grows and no stage field is overwritten (models.py:243, "the object's
\* history is never lost"), and a saved incident never changes.
HistoryNeverLost ==
    [][/\ \A id \in Ids : Saved(id) => store'[id] = store[id]
       /\ incident # None /\ incident' # None =>
             /\ incident'.id = incident.id
             /\ incident'.signal = incident.signal
             /\ IsPrefixOf(incident.audit_trail, incident'.audit_trail)
             /\ \A field \in {"diagnosis", "verdict", "action_result",
                               "verification", "replay_result"} :
                    incident[field] # None => incident'[field] = incident[field]
      ]_vars

-----------------------------------------------------------------------------
(* Liveness. *)

\* run_once always comes back: it returns or raises.
RunOnceEnds == pc # "idle" ~> pc = "idle"

\* Every signal the detector reports ends as a saved incident.
EverySignalIsClosed ==
    \A id \in Ids : detected >= id ~> Saved(id)

=============================================================================
