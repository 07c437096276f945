--------------------------- MODULE RemediationModels ---------------------------
(***************************************************************************)
(* The domain model of the remediation controller                          *)
(* (services/remediation-controller/app/core/models.py): the closed        *)
(* vocabularies of the loop, the payload each stage attaches, and the      *)
(* Incident, an immutable record that the with_* helpers enrich one stage  *)
(* at a time.                                                              *)
(*                                                                         *)
(* What is abstracted: prose (rationales, details, audit messages) is left *)
(* out; a policy reason is the rule that produced it; an action error is   *)
(* present or absent; a metric's text is the set of fault hints it         *)
(* matches; a confidence is a whole percentage.                            *)
(***************************************************************************)
EXTENDS Integers, Sequences

CONSTANTS
    None,    \* Python's None: a stage field that has not been filled in
    Source   \* the names of the services a signal can come from

-----------------------------------------------------------------------------
(* Vocabularies. *)

Severity == {"info", "warning", "critical"}

\* The allowlist: what the diagnoser may propose and the gate may approve.
ActionType == {"no_op", "restart_pod", "scale_up", "scale_down", "escalate"}

\* The members of the allowlist that the engine may carry to the gate.
Remedy == ActionType \ {"no_op", "escalate"}

Decision == {"approved", "requires_approval", "denied"}

Outcome == {"pending", "resolved", "escalated", "failed", "no_action"}

\* The rule of the policy gate a verdict's reason names.
Reason == {"no_diagnosis", "off_allowlist", "deferred", "no_op", "cooldown",
           "confidence", "risk", "approved"}

\* The fault patterns MockDiagnoser looks for in a signal's text.
Hint == {"database", "saturation", "pod_error"}

\* The stage names of audit entries.
Stage == {"diagnose", "policy", "act", "verify", "replay", "outcome", "postmortem"}

-----------------------------------------------------------------------------
(* Stage payloads. *)

Signal == [source : Source, severity : Severity, hints : SUBSET Hint]

\* An empty target stands for the signal's source (see TargetOf).
NoTarget == ""
Target == Source \union {NoTarget}

Diagnosis == [proposed_action : ActionType, confidence : 0..100, target : Target]

PolicyVerdict == [decision : Decision, reason : Reason]

ActionResult == [action : ActionType, target : Target, executed : BOOLEAN,
                 dry_run : BOOLEAN, error : BOOLEAN]

Verification == [recovered : BOOLEAN]

ReplayResult == [attempted : Nat, succeeded : Nat, failed : Nat]

\* ReplayResult.complete
Complete(r) == r.failed = 0

\* How much of the lost data a replay brought back.
DataRecovery == {"none", "complete", "partial"}

PostMortem ==
    [escalated : BOOLEAN, timeline : Seq(Stage), data_recovery : DataRecovery]

-----------------------------------------------------------------------------
(* The Incident. *)

Incident ==
    [id            : Nat,
     signal        : Signal,
     diagnosis     : Diagnosis \union {None},
     verdict       : PolicyVerdict \union {None},
     action_result : ActionResult \union {None},
     verification  : Verification \union {None},
     replay_result : ReplayResult \union {None},
     postmortem    : PostMortem \union {None},
     outcome       : Outcome,
     audit_trail   : Seq(Stage)]

\* None is told apart from every value a stage field can hold.
ASSUME NoneAssumption ==
    /\ None \notin Int
    /\ None \notin Diagnosis
    /\ None \notin PolicyVerdict
    /\ None \notin ActionResult
    /\ None \notin Verification
    /\ None \notin ReplayResult
    /\ None \notin PostMortem
    /\ None \notin Incident

NewIncident(id, signal) ==
    [id            |-> id,
     signal        |-> signal,
     diagnosis     |-> None,
     verdict       |-> None,
     action_result |-> None,
     verification  |-> None,
     replay_result |-> None,
     postmortem    |-> None,
     outcome       |-> "pending",
     audit_trail   |-> << >>]

\* Mutant of Audit: the new line replaces the timeline.
AuditOverwritten(inc, stage) == <<stage>>

\* Incident._audit: the timeline with one more line.
Audit(inc, stage) == Append(inc.audit_trail, stage)

WithDiagnosis(inc, d) ==
    [inc EXCEPT !.diagnosis = d, !.audit_trail = Audit(inc, "diagnose")]

WithVerdict(inc, v) ==
    [inc EXCEPT !.verdict = v, !.audit_trail = Audit(inc, "policy")]

WithActionResult(inc, r) ==
    [inc EXCEPT !.action_result = r, !.audit_trail = Audit(inc, "act")]

WithVerification(inc, v) ==
    [inc EXCEPT !.verification = v, !.audit_trail = Audit(inc, "verify")]

\* Mutant of WithReplayResult: the stage leaves no line in the timeline.
WithReplayResultUnaudited(inc, r) == [inc EXCEPT !.replay_result = r]

WithReplayResult(inc, r) ==
    [inc EXCEPT !.replay_result = r, !.audit_trail = Audit(inc, "replay")]

WithPostmortem(inc, pm) ==
    [inc EXCEPT !.postmortem = pm, !.audit_trail = Audit(inc, "postmortem")]

WithOutcome(inc, outcome) ==
    [inc EXCEPT !.outcome = outcome, !.audit_trail = Audit(inc, "outcome")]

\* `diagnosis.target or incident.signal.source`: what an action applies to.
TargetOf(d, signal) == IF d.target = NoTarget THEN signal.source ELSE d.target

=============================================================================
