---------------------- MODULE RemediationControllerProofs ----------------------
(***************************************************************************)
(* Theorems about the controller as a process, for every set of            *)
(* deployments, every interval and cooldown, and every number of restarts. *)
(* What is known of the engine's types for any gate and any diagnoser      *)
(* (RemediationEngineProofs) is taken over for the engine it wires.        *)
(***************************************************************************)
EXTENDS RemediationController, FiniteSetTheorems, TLAPS

\* The engine as RemediationController instantiates it, with its theorems.
Facts == INSTANCE RemediationEngineProofs WITH
    Signals     <- Signal,
    Diagnoses   <- {MockDiagnose(signal) : signal \in Signal},
    Verdicts    <- PolicyVerdict,
    DryRun      <- FALSE,
    FaultyPorts <- {"diagnoser", "verifier", "replayer", "escalator"},
    MaxLost     <- 0,
    MaxBatch    <- MaxIncidents

-----------------------------------------------------------------------------
(* The engine's vocabulary is the controller's. *)

\* The sets that three instances of RemediationModels define are the same sets.
LEMMA SameSets ==
    /\ Facts!Signal = Signal /\ Engine!Signal = Signal
    /\ Facts!Diagnosis = Diagnosis /\ Engine!Diagnosis = Diagnosis
    /\ Facts!PolicyVerdict = PolicyVerdict /\ Engine!PolicyVerdict = PolicyVerdict
    /\ Facts!ActionResult = ActionResult /\ Engine!ActionResult = ActionResult
    /\ Facts!Verification = Verification /\ Engine!Verification = Verification
    /\ Facts!ReplayResult = ReplayResult /\ Engine!ReplayResult = ReplayResult
    /\ Facts!PostMortem = PostMortem /\ Engine!PostMortem = PostMortem
    /\ Facts!Incident = Incident /\ Engine!Incident = Incident
    /\ Facts!Ids = 1..MaxIncidents /\ Engine!Ids = 1..MaxIncidents
<1>1. Facts!Signal = Signal /\ Engine!Signal = Signal
  BY DEF Facts!Signal, Engine!Signal, Signal, Facts!Severity, Engine!Severity, Severity,
         Facts!Hint, Engine!Hint, Hint
<1>2. Facts!Target = Target /\ Engine!Target = Target
      /\ Facts!ActionType = ActionType /\ Engine!ActionType = ActionType
  BY DEF Facts!Target, Engine!Target, Target, Facts!NoTarget, Engine!NoTarget, NoTarget,
         Facts!ActionType, Engine!ActionType, ActionType
<1>3. Facts!Diagnosis = Diagnosis /\ Engine!Diagnosis = Diagnosis
  BY <1>2 DEF Facts!Diagnosis, Engine!Diagnosis, Diagnosis
<1>4. Facts!PolicyVerdict = PolicyVerdict /\ Engine!PolicyVerdict = PolicyVerdict
  BY DEF Facts!PolicyVerdict, Engine!PolicyVerdict, PolicyVerdict,
         Facts!Decision, Engine!Decision, Decision, Facts!Reason, Engine!Reason, Reason
<1>5. Facts!ActionResult = ActionResult /\ Engine!ActionResult = ActionResult
  BY <1>2 DEF Facts!ActionResult, Engine!ActionResult, ActionResult
<1>6. /\ Facts!Verification = Verification /\ Engine!Verification = Verification
      /\ Facts!ReplayResult = ReplayResult /\ Engine!ReplayResult = ReplayResult
  BY DEF Facts!Verification, Engine!Verification, Verification,
         Facts!ReplayResult, Engine!ReplayResult, ReplayResult
<1>7. Facts!Stage = Stage /\ Engine!Stage = Stage
  BY DEF Facts!Stage, Engine!Stage, Stage
<1>8. Facts!PostMortem = PostMortem /\ Engine!PostMortem = PostMortem
  BY <1>7 DEF Facts!PostMortem, Engine!PostMortem, PostMortem,
              Facts!DataRecovery, Engine!DataRecovery, DataRecovery
<1>9. Facts!Incident = Incident /\ Engine!Incident = Incident
  BY <1>1, <1>3, <1>4, <1>5, <1>6, <1>7, <1>8
     DEF Facts!Incident, Engine!Incident, Incident,
         Facts!Outcome, Engine!Outcome, Outcome
<1> QED
  BY <1>1, <1>3, <1>4, <1>5, <1>6, <1>8, <1>9 DEF Facts!Ids, Engine!Ids

\* Whatever MockDiagnoser proposes is a proposal (mock.py:27-82).
LEMMA MockProposes ==
    ASSUME NEW s \in Signal
    PROVE  MockDiagnose(s) \in Diagnosis
<1>1. s.source \in Target /\ s.severity \in Severity
  BY DEF Signal, Target
<1>2. ASSUME NEW base \in 0..100
      PROVE  ConfidenceFor(s.severity, base) \in 0..100
  <2>1. base + Bump[s.severity] \in Int
    BY <1>1 DEF Bump, Severity
  <2> QED
    BY <2>1, NaNAssumption DEF ConfidenceFor, Clamp, PyMax, PyMin, Less
<1>3. ASSUME NEW action \in ActionType, NEW base \in {50, 75, 80, 85}
      PROVE  Propose(s, action, base) \in Diagnosis
  <2>1. ConfidenceFor(s.severity, base) \in 0..100
    BY <1>2
  <2> QED
    BY <1>1, <2>1 DEF Propose, Diagnosis
<1>4. {"no_op", "escalate", "scale_up", "restart_pod"} \subseteq ActionType
  BY DEF ActionType
<1> QED
  BY <1>3, <1>4 DEF MockDiagnose

\* What the theorems about the engine assume is true of this one.
LEMMA FactsApply ==
    /\ Facts!NoneAssumption
    /\ Facts!ReplayerAssumption
    /\ Facts!EngineAssumption
<1>1. Facts!NoneAssumption
  BY SameSets, NoneAssumption DEF Facts!NoneAssumption
<1>2. Facts!ReplayerAssumption
  BY DEF Facts!ReplayerAssumption
<1>3. Facts!EngineAssumption
  <2>1. {MockDiagnose(signal) : signal \in Signal} \subseteq Facts!Diagnosis
    BY SameSets, MockProposes
  <2>2. None \notin Facts!EscalationReason
    BY EscalationAssumption DEF Facts!EscalationReason, Engine!EscalationReason
  <2> QED
    BY <2>1, <2>2, SameSets, ControllerAssumption
       DEF Facts!EngineAssumption, Facts!RaisingPort
<1> QED
  BY <1>1, <1>2, <1>3

-----------------------------------------------------------------------------
(* The engine's actions are those its theorems are about. *)

\* A step of the controller's engine is one of the engine the theorems speak of,
\* which is given the deployment's and the gate's answers among all others.
LEMMA SameActions ==
    /\ Engine!Begin => Facts!Begin
    /\ Engine!Escalate => Facts!Escalate
    /\ Engine!Finish => Facts!Finish
    /\ Engine!Return => Facts!Return
    /\ Engine!Raise => Facts!Raise
    /\ \A batch : Engine!Detect(batch) => Facts!Detect(batch)
    /\ \A d : Engine!Diagnose(d) => Facts!Diagnose(d)
    /\ \A v : Engine!Gate(v) => Facts!Gate(v)
    /\ \A attempt : Engine!Act(attempt) => Facts!Act(attempt)
    /\ \A v : Engine!Verify(v) => Facts!Verify(v)
    /\ \A r : Engine!Replay(r) => Facts!Replay(r)
    /\ \A dry_run : Engine!Executions(incident, dry_run) = Facts!Executions(incident, dry_run)
<1> USE DEF Engine!Audit, Facts!Audit, Engine!HandOff, Facts!HandOff,
            Engine!Close, Facts!Close, Engine!Proceed, Facts!Proceed,
            Engine!WithOutcome, Facts!WithOutcome
<1>1. Engine!Begin => Facts!Begin
  BY DEF Engine!Begin, Facts!Begin, Engine!NewIncident, Facts!NewIncident
<1>2. Engine!Escalate => Facts!Escalate
  BY DEF Engine!Escalate, Facts!Escalate, Engine!Deliver, Facts!Deliver,
         Engine!AlertNow, Facts!AlertNow
<1>3. Engine!Finish => Facts!Finish
  BY DEF Engine!Finish, Facts!Finish, Engine!WithPostmortem, Facts!WithPostmortem,
         Engine!Draft, Facts!Draft, Engine!RecoveryOf, Facts!RecoveryOf,
         Engine!Complete, Facts!Complete
<1>4. Engine!Return => Facts!Return
  BY DEF Engine!Return, Facts!Return
<1>5. Engine!Raise => Facts!Raise
  BY DEF Engine!Raise, Facts!Raise, Engine!PortAt, Facts!PortAt,
         Engine!Deliver, Facts!Deliver, Engine!AlertNow, Facts!AlertNow
<1>6. \A batch : Engine!Detect(batch) => Facts!Detect(batch)
  BY DEF Engine!Detect, Facts!Detect
<1>7. \A d : Engine!Diagnose(d) => Facts!Diagnose(d)
  BY DEF Engine!Diagnose, Facts!Diagnose, Engine!WithDiagnosis, Facts!WithDiagnosis,
         Engine!Remedy, Facts!Remedy, Engine!ActionType, Facts!ActionType
<1>8. \A v : Engine!Gate(v) => Facts!Gate(v)
  BY DEF Engine!Gate, Facts!Gate, Engine!WithVerdict, Facts!WithVerdict
<1>9. \A attempt : Engine!Act(attempt) => Facts!Act(attempt)
  BY DEF Engine!Act, Facts!Act, Engine!WithActionResult, Facts!WithActionResult
<1>10. \A v : Engine!Verify(v) => Facts!Verify(v)
  BY DEF Engine!Verify, Facts!Verify, Engine!WithVerification, Facts!WithVerification
<1>11. \A r : Engine!Replay(r) => Facts!Replay(r)
  BY DEF Engine!Replay, Facts!Replay, Engine!WithReplayResult, Facts!WithReplayResult,
         Engine!Complete, Facts!Complete
<1>12. \A dry_run :
          Engine!Executions(incident, dry_run) = Facts!Executions(incident, dry_run)
  BY DEF Engine!Executions, Facts!Executions, Engine!Attempt, Facts!Attempt,
         Engine!Result, Facts!Result, Engine!OperationOf, Facts!OperationOf,
         Engine!TargetOf, Facts!TargetOf, Engine!NoTarget, Facts!NoTarget,
         Engine!Remedy, Facts!Remedy, Engine!ActionType, Facts!ActionType
<1> QED
  BY <1>1, <1>2, <1>3, <1>4, <1>5, <1>6, <1>7, <1>8, <1>9, <1>10, <1>11, <1>12

-----------------------------------------------------------------------------
(* Types. *)

\* The engine's part of a turn: LoopStep without the steps around run_once.
CycleStep == LoopStep /\ ~EnterLoop /\ ~Wake

\* Every verdict of the gate is a verdict (gate.py:96-153).
LEMMA EvaluateType ==
    ASSUME NEW d, NEW last, NEW t
    PROVE  Evaluate(d, last, t) \in PolicyVerdict
BY DEF Evaluate, Verdict, PolicyVerdict, Decision, Reason

\* No step of a cycle breaks the engine's types, whatever the deployment.
LEMMA EngineTyped ==
    ASSUME Facts!TypeInv, deployment \in Deployments, CycleStep
    PROVE  Facts!TypeInv'
<1>1. CASE DetectSignals
  <2>1. deployment.signals \in Seq(Facts!Signal)
    BY ControllerAssumption, SameSets DEF Deployment
  <2>2. Facts!Detect(deployment.signals)
    BY <1>1, SameActions DEF DetectSignals
  <2> QED
    BY <2>1, <2>2, FactsApply, Facts!TypeInvStep
<1>2. CASE Execute
  <2>1. PICK attempt \in Facts!Executions(incident, deployment.dry_run) :
            Facts!Act(attempt)
    BY <1>2, SameActions DEF Execute
  <2>2. deployment.dry_run \in BOOLEAN /\ pc = "act"
    BY <1>2, ControllerAssumption DEF Deployment, Execute
  <2> QED
    BY <2>1, <2>2, FactsApply, Facts!TypeInvStep
<1>3. CASE ~DetectSignals /\ ~Execute
  <2>1. \/ Facts!Begin \/ Facts!Escalate \/ Facts!Finish \/ Facts!Return \/ Facts!Raise
        \/ pc = "diagnose" /\ Facts!Diagnose(MockDiagnose(incident.signal))
        \/ \E v \in PolicyVerdict : Facts!Gate(v)
        \/ \E v \in deployment.verifications : Facts!Verify(v)
        \/ Facts!Replay(Engine!NoopReplay)
    BY <1>3, SameActions, EvaluateType
       DEF CycleStep, LoopStep, EngineOnly, EvaluatePolicy, CloseIncident, EndCycle, TaskDies
  <2>2. pc = "diagnose" => incident.signal \in Signal
    BY SameSets DEF Facts!TypeInv, Facts!TypeOK, Incident
  <2>3. deployment.verifications \subseteq Facts!Verification
    BY ControllerAssumption, SameSets DEF Deployment
  <2>4. Engine!NoopReplay \in Facts!Replays
    BY DEF Engine!NoopReplay, Engine!Tally, Facts!Replays, Facts!Tally
  <2>5. Facts!Next
    BY <2>1, <2>2, <2>3, <2>4 DEF Facts!Next, Facts!Process
  <2> QED
    BY <2>5, FactsApply, Facts!TypeInvStep
<1> QED
  BY <1>1, <1>2, <1>3

\* The engine's type invariant in the controller's words.
EngineTypes ==
    /\ incident \in Incident \union {None}
    /\ (incident = None) <=> pc \in {"idle", "next"}
    /\ pc \in {"gate", "act"} => incident.diagnosis \in Diagnosis
    /\ results \in Seq(Incident)
    /\ pending \in Seq(Signal)
    /\ detected \in 0..MaxIncidents
    /\ created \in Nat
    /\ created + Len(pending) <= detected
    /\ store \in [1..MaxIncidents -> Incident \union {None}]
    /\ cluster \in [1..MaxIncidents -> Seq(Engine!Operation)]

\* The cluster's operations are the same ones, too.
LEMMA SameOperations == Facts!Operation = Engine!Operation
BY DEF Facts!Operation, Engine!Operation, Facts!ActionType, Engine!ActionType,
       Facts!Target, Engine!Target, Facts!NoTarget, Engine!NoTarget

\* The engine's types in the controller's words.
LEMMA SameTypes ==
    ASSUME Facts!TypeInv
    PROVE  EngineTypes /\ Engine!TypeOK
<1>1. EngineTypes
  <2>1. \A inc \in Incident : inc.diagnosis # None => inc.diagnosis \in Diagnosis
    BY DEF Incident
  <2>2. pc \in {"gate", "act"} => incident \in Incident /\ incident.diagnosis # None
    BY SameSets DEF Facts!TypeInv, Facts!TypeOK, Facts!Diagnosed
  <2> QED
    BY <2>1, <2>2, SameSets, SameOperations DEF EngineTypes, Facts!TypeInv, Facts!TypeOK
<1>2. Engine!TypeOK
  BY SameSets, SameOperations
     DEF Facts!TypeInv, Facts!TypeOK, Engine!TypeOK, Facts!PC, Engine!PC,
         Facts!EscalationReason, Engine!EscalationReason, Facts!Ids, Engine!Ids,
         Facts!Alert, Engine!Alert
<1> QED
  BY <1>1, <1>2

ActRecord ==
    [key : Key, incident_id : Nat, approved_at : Nat \union {None}, at : Nat,
     life : Nat, cycle : Nat]

\* What TypeOK says of the process's own variables, and the type of its history.
ProcessTypes ==
    /\ last_action \in [Key -> Nat \union {None}]
    /\ deployment \in Deployments
    /\ task \in Task
    /\ pc # "idle" => task = "running"
    /\ loop_up \in {0, 1}
    /\ loop_runs \in Nat
    /\ incidents_total \in [Outcome -> Nat]
    /\ wake_at \in Nat
    /\ now \in Nat
    /\ lives \in 0..MaxLives
    /\ cycles \in Nat
    /\ closed \in [1..MaxIncidents -> Outcome \union {None}]
    /\ acts \subseteq ActRecord

\* The gauge is not set before the task runs, and nobody sleeps before the first
\* cycle is over.
Warmed == (task = "scheduled" => loop_up = 0) /\ (task = "sleeping" => cycles > 0)

TypeInv == Facts!TypeInv /\ ProcessTypes /\ Warmed

\* The keys of the gate's memory are all there are to ask it for (gate.py:88-90).
LEMMA KeysExist ==
    ASSUME NEW inc \in Incident, inc.diagnosis \in Diagnosis
    PROVE  /\ KeyOf(inc.diagnosis, inc.signal) \in Key
           /\ KeyOf(inc.diagnosis, inc.signal) =
                 <<Engine!OperationOf(inc).target, Engine!OperationOf(inc).action>>
<1>1. inc.diagnosis.target \in Target /\ inc.diagnosis.proposed_action \in ActionType
      /\ inc.signal.source \in Target
  BY DEF Incident, Diagnosis, Signal, Target
<1> QED
  BY <1>1 DEF KeyOf, Key, TargetOf, NoTarget, Engine!OperationOf, Engine!TargetOf,
              Engine!NoTarget

\* What the actuator does for an incident now, if it does anything.
ActNow ==
    [key |-> KeyOf(incident.diagnosis, incident.signal), incident_id |-> incident.id,
     approved_at |-> last_action[KeyOf(incident.diagnosis, incident.signal)],
     at |-> now, life |-> lives, cycle |-> cycles]

\* An attempt has the effect that was asked for or none, and in a dry run it has
\* none and claims none (kubernetes.py:60-100).
LEMMA AttemptsDo ==
    ASSUME NEW inc, NEW dry_run \in BOOLEAN, NEW attempt \in Engine!Executions(inc, dry_run)
    PROVE  /\ attempt.effects \in {<< >>, <<Engine!OperationOf(inc)>>}
           /\ dry_run => /\ attempt.effects = << >> /\ attempt.result.dry_run
                         /\ ~attempt.result.executed /\ ~attempt.result.error
<1>1. PICK executed \in BOOLEAN, dry \in BOOLEAN, error \in BOOLEAN,
           effects \in {<< >>, <<Engine!OperationOf(inc)>>} :
         /\ attempt = Engine!Attempt(Engine!Result(inc, executed, dry, error), effects)
         /\ dry_run => effects = << >> /\ dry /\ ~executed /\ ~error
  BY DEF Engine!Executions
<1> QED
  BY <1>1 DEF Engine!Attempt, Engine!Result

\* Executing adds at most the one change that the approved diagnosis asks for
\* (kubernetes.py:60-101).
LEMMA ActsNow ==
    ASSUME deployment \in Deployments, Execute,
           incident \in Incident, incident.diagnosis \in Diagnosis
    PROVE  acts' = acts \/ acts' = acts \union {ActNow}
<1>1. PICK attempt \in Engine!Executions(incident, deployment.dry_run) :
          acts' = acts \union
              {[key |-> <<op.target, op.action>>, incident_id |-> incident.id,
                approved_at |-> last_action[<<op.target, op.action>>], at |-> now,
                life |-> lives, cycle |-> cycles] : op \in Range(attempt.effects)}
  BY DEF Execute
<1>2. attempt.effects \in {<< >>, <<Engine!OperationOf(incident)>>}
  BY <1>1, AttemptsDo, ControllerAssumption DEF Deployment
<1>3. CASE attempt.effects = << >>
  <2>1. Range(attempt.effects) = {}
    BY <1>3 DEF Range
  <2> QED
    BY <1>1, <2>1
<1>4. CASE attempt.effects = <<Engine!OperationOf(incident)>>
  <2> DEFINE op == Engine!OperationOf(incident)
  <2>3. Range(attempt.effects) = {op}
    BY <1>4 DEF Range
  <2> HIDE DEF op
  <2>1. acts' = acts \union
             {[key |-> <<op.target, op.action>>, incident_id |-> incident.id,
               approved_at |-> last_action[<<op.target, op.action>>], at |-> now,
               life |-> lives, cycle |-> cycles]}
    BY <1>1, <2>3
  <2>2. <<op.target, op.action>> = KeyOf(incident.diagnosis, incident.signal)
    BY KeysExist DEF op
  <2> QED
    BY <2>1, <2>2 DEF ActNow
<1> QED
  BY <1>2, <1>3, <1>4

\* What an action is remembered for is the time of its approval (gate.py:146).
LEMMA RememberType ==
    ASSUME last_action \in [Key -> Nat \union {None}], now \in Nat,
           NEW key \in Key, NEW v
    PROVE  Remember(last_action, key, v, now) \in [Key -> Nat \union {None}]
BY DEF Remember

\* The results of a cycle are finitely many of each outcome.
LEMMA CountType ==
    ASSUME EngineTypes
    PROVE  \A o : IsFiniteSet({i \in DOMAIN results : results[i].outcome = o})
                  /\ CountOf(o) \in Nat
<1>1. DOMAIN results = 1..Len(results) /\ Len(results) \in Nat
  BY DEF EngineTypes
<1>2. IsFiniteSet(DOMAIN results)
  BY <1>1, FS_Interval
<1> QED
  BY <1>2, FS_Subset, FS_CardinalityType DEF CountOf

\* A process that has not been started has its types.
LEMMA TypesStart == Init => TypeInv
<1> SUFFICES ASSUME Init
             PROVE  TypeInv
  OBVIOUS
<1>1. Facts!TypeInv
  <2>1. Facts!Init
    BY DEF Init, Engine!Init, Facts!Init, Engine!Ids, Facts!Ids
  <2> QED
    BY <2>1, FactsApply, Facts!TypeInvInit
<1>2. pc = "idle"
  BY DEF Init, Engine!Init
<1>3. EmptyStore \in [1..MaxIncidents -> Outcome \union {None}]
  BY SameSets DEF EmptyStore
<1>4. NoApprovals \in [Key -> Nat \union {None}] /\ NoCounts \in [Outcome -> Nat]
  BY DEF NoApprovals, NoCounts
<1>5. ProcessTypes
  BY <1>2, <1>3, <1>4, ControllerAssumption DEF Init, ProcessTypes, Task
<1>6. Warmed
  BY DEF Init, Warmed
<1> QED
  BY <1>1, <1>5, <1>6 DEF TypeInv

\* The steps of a process that runs no engine.
LEMMA ProcessKeepsTypes ==
    ASSUME TypeInv, Start \/ EnterLoop \/ Wake \/ Shutdown \/ Kill \/ Tick \/ UNCHANGED vars
    PROVE  TypeInv'
<1>1. ASSUME UNCHANGED engine
      PROVE  Facts!TypeInv'
  BY <1>1, FactsApply, Facts!TypeInvStep DEF TypeInv, engine, Facts!vars
<1>2. EmptyStore \in [1..MaxIncidents -> {None}]
  BY SameSets DEF EmptyStore
<1>3. NoApprovals \in [Key -> Nat \union {None}] /\ NoCounts \in [Outcome -> Nat]
  BY DEF NoApprovals, NoCounts
<1>4. CASE Start
  <2>1. Facts!TypeInv'
    BY <1>1, <1>4 DEF Start
  <2>2. task \in {"down", "cancelled"} /\ pc' = "idle"
    BY <1>4 DEF Start, Up, TypeInv, ProcessTypes, Task, engine
  <2>3. ProcessTypes'
    BY <1>2, <1>3, <1>4, <2>2, ControllerAssumption DEF Start, TypeInv, ProcessTypes, Task
  <2> QED
    BY <1>4, <2>1, <2>3 DEF TypeInv, Start, Warmed
<1>5. CASE EnterLoop \/ Wake
  <2>1. /\ UNCHANGED <<pc, pending, incident, why, results, detected, created, alerts,
                       cluster>>
        /\ store' = EmptyStore
    BY <1>5 DEF EnterLoop, Wake, BuildEngine
  <2>2. Facts!TypeInv'
    BY <1>2, <2>1, SameSets DEF TypeInv, Facts!TypeInv, Facts!TypeOK, Facts!Diagnosed
  <2>3. ProcessTypes'
    BY <1>3, <1>5, <2>1
       DEF EnterLoop, Wake, BuildEngine, TypeInv, ProcessTypes, Task, history
  <2> QED
    BY <1>5, <2>2, <2>3 DEF TypeInv, EnterLoop, Wake, Warmed
<1>6. CASE Shutdown
  <2>1. Facts!TypeInv'
    BY <1>1, <1>6 DEF Shutdown
  <2>2. ProcessTypes'
    BY <1>6 DEF Shutdown, TypeInv, ProcessTypes, Task, engine, history
  <2> QED
    BY <1>6, <2>1, <2>2 DEF TypeInv, Shutdown, Warmed
<1>7. CASE Kill
  <2>1. /\ pc' = "idle" /\ pending' = << >> /\ incident' = None /\ why' = None
        /\ results' = << >> /\ store' = EmptyStore
        /\ UNCHANGED <<detected, created, alerts, cluster>>
    BY <1>7 DEF Kill
  <2>2. Facts!TypeInv'
    <3>1. created + 0 <= detected /\ Len(pending) >= 0
      BY DEF TypeInv, Facts!TypeInv, Facts!TypeOK
    <3> QED
      BY <1>2, <2>1, <3>1, SameSets
         DEF TypeInv, Facts!TypeInv, Facts!TypeOK, Facts!Diagnosed, Facts!PC
  <2>3. ProcessTypes'
    BY <1>3, <1>7, <2>1 DEF Kill, TypeInv, ProcessTypes, Task, history
  <2> QED
    BY <1>7, <2>2, <2>3 DEF TypeInv, Kill, Warmed
<1>8. CASE Tick \/ UNCHANGED vars
  <2>1. Facts!TypeInv'
    BY <1>1, <1>8 DEF Tick, vars
  <2>2. ProcessTypes'
    BY <1>8 DEF Tick, vars, TypeInv, ProcessTypes, engine, process, history
  <2> QED
    BY <1>8, <2>1, <2>2 DEF TypeInv, Tick, vars, process, history, Warmed
<1> QED
  BY <1>4, <1>5, <1>6, <1>7, <1>8

\* The same of the state after a step.
LEMMA SameTypesAfter ==
    ASSUME Facts!TypeInv'
    PROVE  EngineTypes'
<1>1. \A inc \in Incident : inc.diagnosis # None => inc.diagnosis \in Diagnosis
  BY DEF Incident
<1>2. pc' \in {"gate", "act"} => incident' \in Incident /\ incident'.diagnosis # None
  BY SameSets DEF Facts!TypeInv, Facts!TypeOK, Facts!Diagnosed
<1> QED
  BY <1>1, <1>2, SameSets, SameOperations DEF EngineTypes, Facts!TypeInv, Facts!TypeOK

\* The steps of a cycle.
LEMMA CycleKeepsTypes ==
    ASSUME TypeInv, CycleStep
    PROVE  TypeInv'
<1>1. Facts!TypeInv'
  BY EngineTyped DEF TypeInv, ProcessTypes
<1>2. EngineTypes /\ EngineTypes'
  BY <1>1, SameTypes, SameTypesAfter DEF TypeInv
<1>3. task = "running"
  BY DEF CycleStep, LoopStep, DetectSignals, EngineOnly, EvaluatePolicy, Execute,
         CloseIncident, EndCycle, TaskDies
<1>4. CASE EvaluatePolicy
  <2>1. incident \in Incident /\ incident.diagnosis \in Diagnosis
    BY <1>2, <1>4, NoneAssumption DEF EvaluatePolicy, EngineTypes
  <2>2. last_action' \in [Key -> Nat \union {None}]
    BY <1>4, <2>1, KeysExist, RememberType DEF EvaluatePolicy, TypeInv, ProcessTypes
  <2>3. ProcessTypes' /\ Warmed'
    BY <1>3, <1>4, <2>2 DEF EvaluatePolicy, TypeInv, ProcessTypes, Warmed, process, history
  <2> QED
    BY <1>1, <2>3 DEF TypeInv
<1>5. CASE Execute
  <2>1. /\ incident \in Incident /\ incident.diagnosis \in Diagnosis
        /\ last_action \in [Key -> Nat \union {None}]
    BY <1>2, <1>5, NoneAssumption DEF Execute, EngineTypes, TypeInv, ProcessTypes
  <2>2. acts' \subseteq acts \union {ActNow}
    BY <1>5, <2>1, ActsNow DEF TypeInv, ProcessTypes
  <2>3. ActNow \in ActRecord
    <3>1. KeyOf(incident.diagnosis, incident.signal) \in Key /\ incident.id \in Nat
      BY <2>1, KeysExist DEF Incident
    <3> QED
      BY <2>1, <3>1 DEF ActNow, ActRecord, TypeInv, ProcessTypes
  <2>4. acts' \subseteq ActRecord
    BY <2>2, <2>3 DEF TypeInv, ProcessTypes
  <2>5. ProcessTypes' /\ Warmed'
    BY <1>3, <1>5, <2>4 DEF Execute, TypeInv, ProcessTypes, Warmed, process
  <2> QED
    BY <1>1, <2>5 DEF TypeInv
<1>6. CASE CloseIncident
  <2>1. incident \in Incident
    BY <1>2, <1>6, NoneAssumption DEF CloseIncident, Engine!Finish, EngineTypes
  <2>2. incident.outcome \in Outcome
    BY <2>1 DEF Incident
  <2>3. closed' \in [1..MaxIncidents -> Outcome \union {None}]
    BY <1>6, <2>2 DEF CloseIncident, TypeInv, ProcessTypes
  <2>4. ProcessTypes' /\ Warmed'
    BY <1>3, <1>6, <2>3 DEF CloseIncident, TypeInv, ProcessTypes, Warmed, process
  <2> QED
    BY <1>1, <2>4 DEF TypeInv
<1>7. CASE EndCycle
  <2>1. pc' = "idle" /\ Len(results) \in Nat /\ \A o \in Outcome : CountOf(o) \in Nat
    <3>1. pc' = "idle"
      BY <1>7 DEF EndCycle, Engine!Return
    <3>2. Len(results) \in Nat
      BY <1>2 DEF EngineTypes
    <3> QED
      BY <1>2, <3>1, <3>2, CountType
  <2>2. incidents_total' \in [Outcome -> Nat]
    BY <1>7, <2>1 DEF EndCycle, TypeInv, ProcessTypes
  <2>3. ProcessTypes'
    BY <1>7, <2>1, <2>2, ControllerAssumption DEF EndCycle, TypeInv, ProcessTypes, Task
  <2> QED
    BY <1>1, <1>7, <2>3 DEF TypeInv, EndCycle, Warmed, ProcessTypes
<1>8. CASE TaskDies
  <2>1. pc' = "idle"
    BY <1>8 DEF TaskDies, Engine!Raise
  <2> QED
    BY <1>1, <1>8, <2>1 DEF TypeInv, TaskDies, ProcessTypes, Task, Warmed, history
<1>9. CASE UNCHANGED <<last_action, process, now, history>>
  BY <1>1, <1>3, <1>9 DEF TypeInv, ProcessTypes, Warmed, process, history
<1> QED
  BY <1>4, <1>5, <1>6, <1>7, <1>8, <1>9 DEF CycleStep, LoopStep, DetectSignals, EngineOnly

\* The types of engine and process, and what the gauge and the task's state tell,
\* hold in every state (main.py:57-73).
THEOREM TypeInvHolds == Spec => []TypeInv
<1>1. TypeInv /\ [Next]_vars => TypeInv'
  BY ProcessKeepsTypes, CycleKeepsTypes DEF Next, CycleStep
<1> QED
  BY <1>1, TypesStart, PTL DEF Spec

\* The process's variables hold what the source's types allow, the engine's its
\* own types, and an engine is at work only inside a cycle, through kills,
\* restarts and ports that raise (main.py:57-73, wiring.py).
THEOREM TypesHold == Spec => []TypeOK
<1>1. TypeInv => TypeOK
  BY SameTypes, SameSets DEF TypeInv, ProcessTypes, TypeOK
<1> QED
  BY <1>1, TypeInvHolds, PTL

\* Nobody is told ready before this process has carried a batch through the loop,
\* unless the first cycle raised (main.py:61, 124-134).
THEOREM ReadyAfterACycle == Spec => []ReadyMeansCycled
<1>1. TypeInv => ReadyMeansCycled
  BY DEF TypeInv, Warmed, ReadyMeansCycled, Ready
<1> QED
  BY <1>1, TypeInvHolds, PTL

-----------------------------------------------------------------------------
(* The stages of an incident. *)

\* Nothing was executed for it, and it does not say that anything was.
Innocent(inc) ==
    /\ inc.outcome # "resolved"
    /\ inc.verification = None
    /\ inc.action_result # None => ~inc.action_result.executed

\* What the enrichers leave alone (models.py:264-325).
LEMMA Enriched ==
    ASSUME NEW inc \in Incident, NEW x, NEW outcome \in {"no_action", "escalated"}
    PROVE  /\ Engine!WithDiagnosis(inc, x).id = inc.id
           /\ Engine!WithVerdict(inc, x).id = inc.id
           /\ Engine!WithVerdict(inc, x).diagnosis = inc.diagnosis
           /\ Engine!WithVerdict(inc, x).signal = inc.signal
           /\ Engine!WithActionResult(inc, x).id = inc.id
           /\ Engine!WithVerification(inc, x).id = inc.id
           /\ Engine!WithReplayResult(inc, x).id = inc.id
           /\ Engine!WithDiagnosis(inc, x).diagnosis = x
           /\ Engine!WithOutcome(inc, x).id = inc.id
           /\ Engine!WithPostmortem(inc, x).id = inc.id
           /\ Engine!WithPostmortem(inc, x).outcome = inc.outcome
           /\ Innocent(inc) =>
                 /\ Innocent(Engine!WithDiagnosis(inc, x))
                 /\ Innocent(Engine!WithVerdict(inc, x))
                 /\ Innocent(Engine!WithOutcome(inc, outcome))
                 /\ Innocent(Engine!WithPostmortem(inc, x))
                 /\ ~x.executed => Innocent(Engine!WithActionResult(inc, x))
  BY DEF Incident, Innocent, Engine!WithDiagnosis, Engine!WithVerdict,
         Engine!WithActionResult, Engine!WithVerification, Engine!WithReplayResult,
         Engine!WithOutcome, Engine!WithPostmortem

\* How a stage can end, whatever it was (engine.py:111-174).
LEMMA EndsOfStages ==
    ASSUME NEW inc, DOMAIN inc = {"id", "signal", "diagnosis", "verdict", "action_result",
                                  "verification", "replay_result", "postmortem",
                                  "outcome", "audit_trail"}
    PROVE  /\ \A outcome : Engine!Close(inc, outcome) =>
                 /\ pc' = "finish" /\ incident'.id = inc.id
                 /\ outcome = "no_action" /\ Innocent(inc) => Innocent(incident')
           /\ \A reason : Engine!HandOff(inc, reason) =>
                 pc' = "escalate" /\ incident' = inc
           /\ \A stage : Engine!Proceed(inc, stage) =>
                 pc' = stage /\ incident' = inc
<1>1. ASSUME NEW outcome, Engine!Close(inc, outcome)
      PROVE  /\ pc' = "finish" /\ incident'.id = inc.id
             /\ outcome = "no_action" /\ Innocent(inc) => Innocent(incident')
  <2>1. pc' = "finish" /\ incident' = Engine!WithOutcome(inc, outcome)
    BY <1>1 DEF Engine!Close
  <2>2. /\ incident'.id = inc.id /\ incident'.outcome = outcome
        /\ incident'.verification = inc.verification
        /\ incident'.action_result = inc.action_result
    BY <2>1 DEF Engine!WithOutcome
  <2> QED
    BY <2>1, <2>2 DEF Innocent
<1> QED
  BY <1>1 DEF Engine!HandOff, Engine!Proceed

\* A stage keeps the incident's identity and leads to a later one; the gate is
\* only asked about a remedy, and acted upon is what it was asked about.
Moves ==
    /\ incident'.id = incident.id
    /\ UNCHANGED <<pending, results, detected, created, store>>
    /\ pc' \notin {"idle", "next", "diagnose"}
    /\ pc' = "gate" => /\ pc = "diagnose"
                       /\ incident'.diagnosis.proposed_action \in Remedy
    /\ pc' = "act" => /\ pc = "gate"
                      /\ incident'.diagnosis = incident.diagnosis
                      /\ incident'.signal = incident.signal

\* It stays innocent unless it is executed.
StaysInnocent ==
    /\ UNCHANGED cluster
    /\ Innocent(incident) => Innocent(incident') /\ pc' \notin {"verify", "replay"}

\* How each stage of the engine moves the incident on, and which of them leave an
\* incident of a dry run untouched (engine.py:107-191).
LEMMA StageMoves ==
    ASSUME incident \in Incident, cluster \in [1..MaxIncidents -> Seq(Engine!Operation)]
    PROVE  /\ \A d \in Diagnosis : Engine!Diagnose(d) => Moves /\ StaysInnocent
           /\ \A v \in PolicyVerdict : Engine!Gate(v) => Moves /\ StaysInnocent
           /\ \A attempt : Engine!Act(attempt) =>
                 /\ Moves /\ pc' # "act"
                 /\ /\ attempt.effects = << >> /\ attempt.result.dry_run
                    /\ ~attempt.result.executed /\ ~attempt.result.error
                    => StaysInnocent
           /\ \A v : Engine!Verify(v) => Moves
           /\ \A r : Engine!Replay(r) => Moves
           /\ Engine!Escalate => Moves /\ StaysInnocent
<1> DEFINE Fields == {"id", "signal", "diagnosis", "verdict", "action_result",
                      "verification", "replay_result", "postmortem", "outcome",
                      "audit_trail"}
<1>1. DOMAIN incident = Fields
  BY DEF Incident
<1>2. \A x : /\ DOMAIN Engine!WithDiagnosis(incident, x) = Fields
             /\ DOMAIN Engine!WithVerdict(incident, x) = Fields
             /\ DOMAIN Engine!WithActionResult(incident, x) = Fields
             /\ DOMAIN Engine!WithVerification(incident, x) = Fields
             /\ DOMAIN Engine!WithReplayResult(incident, x) = Fields
  BY <1>1 DEF Engine!WithDiagnosis, Engine!WithVerdict, Engine!WithActionResult,
              Engine!WithVerification, Engine!WithReplayResult
<1>3. ASSUME NEW d \in Diagnosis, Engine!Diagnose(d)
      PROVE  Moves /\ StaysInnocent
  <2> DEFINE inc == Engine!WithDiagnosis(incident, d)
  <2>1. /\ \/ Engine!Close(inc, "no_action")
           \/ Engine!HandOff(inc, "deferred")
           \/ d.proposed_action \in Remedy /\ Engine!Proceed(inc, "gate")
        /\ pc = "diagnose"
        /\ UNCHANGED <<pending, results, detected, created, store, cluster>>
    BY <1>3 DEF Engine!Diagnose, Engine!Remedy, Remedy, Engine!ActionType, ActionType
  <2>2. inc.id = incident.id /\ inc.diagnosis = d /\ (Innocent(incident) => Innocent(inc))
    BY Enriched
  <2>3. DOMAIN inc = Fields
    BY <1>2
  <2> HIDE DEF inc
  <2> QED
    BY <2>1, <2>2, <2>3, EndsOfStages DEF Moves, StaysInnocent
<1>4. ASSUME NEW v \in PolicyVerdict, Engine!Gate(v)
      PROVE  Moves /\ StaysInnocent
  <2> DEFINE inc == Engine!WithVerdict(incident, v)
  <2>1. /\ \/ Engine!HandOff(inc, "denied")
           \/ Engine!HandOff(inc, "approval")
           \/ Engine!Proceed(inc, "act")
        /\ pc = "gate"
        /\ UNCHANGED <<pending, results, detected, created, store, cluster>>
    BY <1>4 DEF Engine!Gate
  <2>2. /\ inc.id = incident.id /\ (Innocent(incident) => Innocent(inc))
        /\ inc.diagnosis = incident.diagnosis /\ inc.signal = incident.signal
    BY Enriched
  <2>3. DOMAIN inc = Fields
    BY <1>2
  <2> HIDE DEF inc
  <2> QED
    BY <2>1, <2>2, <2>3, EndsOfStages DEF Moves, StaysInnocent
<1>5. ASSUME NEW attempt, Engine!Act(attempt)
      PROVE  /\ Moves /\ pc' # "act"
             /\ /\ attempt.effects = << >> /\ attempt.result.dry_run
                /\ ~attempt.result.executed /\ ~attempt.result.error
                => StaysInnocent
  <2> DEFINE inc == Engine!WithActionResult(incident, attempt.result)
  <2>1. /\ \/ attempt.result.error /\ Engine!HandOff(inc, "action_failed")
           \/ Engine!Close(inc, "no_action")
           \/ ~attempt.result.dry_run /\ Engine!Proceed(inc, "verify")
        /\ cluster' = [cluster EXCEPT ![incident.id] = @ \o attempt.effects]
        /\ UNCHANGED <<pending, results, detected, created, store>>
    BY <1>5 DEF Engine!Act
  <2>2. /\ inc.id = incident.id
        /\ ~attempt.result.executed /\ Innocent(incident) => Innocent(inc)
    BY Enriched
  <2>3. DOMAIN inc = Fields
    BY <1>2
  <2>4. attempt.effects = << >> => UNCHANGED cluster
    <3>1. \A id \in 1..MaxIncidents : cluster[id] \o << >> = cluster[id]
      OBVIOUS
    <3> QED
      BY <2>1, <3>1
  <2> HIDE DEF inc
  <2>5. Moves /\ pc' # "act"
    BY <2>1, <2>2, <2>3, EndsOfStages DEF Moves
  <2>6. ASSUME attempt.effects = << >>, attempt.result.dry_run,
               ~attempt.result.executed, ~attempt.result.error
        PROVE  StaysInnocent
    <3>1. UNCHANGED cluster /\ Engine!Close(inc, "no_action")
      BY <2>1, <2>4, <2>6
    <3> QED
      BY <2>2, <2>3, <2>6, <3>1, EndsOfStages DEF StaysInnocent
  <2> QED
    BY <2>5, <2>6
<1>6. ASSUME NEW v, Engine!Verify(v)
      PROVE  Moves
  <2> DEFINE inc == Engine!WithVerification(incident, v)
  <2>1. /\ Engine!Proceed(inc, "replay") \/ Engine!HandOff(inc, "not_recovered")
        /\ UNCHANGED <<pending, results, detected, created, store>>
    BY <1>6 DEF Engine!Verify
  <2>2. inc.id = incident.id
    BY Enriched
  <2>3. DOMAIN inc = Fields
    BY <1>2
  <2> HIDE DEF inc
  <2> QED
    BY <2>1, <2>2, <2>3, EndsOfStages DEF Moves
<1>7. ASSUME NEW r, Engine!Replay(r)
      PROVE  Moves
  <2> DEFINE inc == Engine!WithReplayResult(incident, r)
  <2>1. /\ Engine!Close(inc, "resolved") \/ Engine!HandOff(inc, "partial_recovery")
        /\ UNCHANGED <<pending, results, detected, created, store>>
    BY <1>7 DEF Engine!Replay
  <2>2. inc.id = incident.id
    BY Enriched
  <2>3. DOMAIN inc = Fields
    BY <1>2
  <2> HIDE DEF inc
  <2> QED
    BY <2>1, <2>2, <2>3, EndsOfStages DEF Moves
<1>8. ASSUME Engine!Escalate
      PROVE  Moves /\ StaysInnocent
  <2>1. /\ incident' = Engine!WithOutcome(incident, "escalated") /\ pc' = "finish"
        /\ UNCHANGED <<pending, results, detected, created, store, cluster>>
    BY <1>8 DEF Engine!Escalate
  <2> QED
    BY <2>1, Enriched DEF Moves, StaysInnocent
<1> QED
  BY <1>3, <1>4, <1>5, <1>6, <1>7, <1>8

-----------------------------------------------------------------------------
(* The invariant of the process. *)

\* The incident in process is the last one created and has not been finished;
\* changes of the cluster were made for incidents that exist, and for the one in
\* process not before the actuator was called.
Numbered ==
    /\ incident # None => incident.id = created /\ created >= 1 /\ closed[created] = None
    /\ \A id \in 1..MaxIncidents : closed[id] # None => id <= created
    /\ \A a \in acts : a.incident_id <= created
    /\ pc \in {"diagnose", "gate", "act"} => \A a \in acts : a.incident_id < created

InThisCycle(a) == a.life = lives /\ a.cycle = cycles

\* The changes belong to the cycles so far, each was approved, and the gate of
\* the cycle under way remembers an approval no older than any change of it.
Remembered ==
    /\ \A k \in Key : last_action[k] # None => last_action[k] <= now
    /\ \A a \in acts : /\ a.approved_at # None
                       /\ a.life < lives \/ (a.life = lives /\ a.cycle <= cycles)
    /\ task \in {"scheduled", "sleeping"} => \A a \in acts : ~InThisCycle(a)
    /\ task = "running" =>
          \A a \in acts : InThisCycle(a) =>
              last_action[a.key] # None /\ last_action[a.key] >= a.approved_at

\* What the actuator is called for was approved, and not before the cooldown of
\* the approval behind the change before it was over.
Approved ==
    /\ pc = "gate" => incident.diagnosis.proposed_action \in Remedy
    /\ pc = "act" =>
          LET key == KeyOf(incident.diagnosis, incident.signal)
          IN /\ last_action[key] # None
             /\ \A a \in acts : InThisCycle(a) /\ a.key = key =>
                    last_action[key] - a.approved_at >= Cooldown

SpacedInv == Numbered /\ Remembered /\ Approved /\ SpacedWithinCycle

ClosedAs(o) == {id \in 1..MaxIncidents : closed[id] = o}

\* Outside a cycle the counters account for all that was finished, and within
\* one together with the list of results.
Counted ==
    /\ task \in {"scheduled", "sleeping"} \/ (task = "running" /\ pc = "idle") =>
          \A o \in Outcome : incidents_total[o] = Cardinality(ClosedAs(o))
    /\ pc # "idle" =>
          \A o \in Outcome : incidents_total[o] + CountOf(o) = Cardinality(ClosedAs(o))

\* The cluster is as it was found.
NothingChanged == \A id \in 1..MaxIncidents : cluster[id] = << >>

\* In dry-run no incident gets as far as to be verified.
Harmless ==
    deployment.dry_run =>
        /\ acts = {} /\ NothingChanged
        /\ pc \notin {"verify", "replay"}
        /\ incident # None => Innocent(incident)
        /\ \A id \in 1..MaxIncidents :
              /\ closed[id] # "resolved"
              /\ store[id] # None => Innocent(store[id])

\* The steps of a cycle but for the gate's, the actuator's and the last ones.
PlainStage ==
    /\ incident # None /\ Moves /\ pc' # "act"
    /\ deployment.dry_run /\ pc \notin {"verify", "replay"} => StaysInnocent
    /\ UNCHANGED <<last_action, process, now, history>>

\* The steps of a cycle, each with what it leaves of the incident (main.py:57-66).
LEMMA CycleMoves ==
    ASSUME TypeInv, CycleStep
    PROVE  /\ task = "running" /\ EngineTypes /\ EngineTypes'
           /\ \/ DetectSignals
              \/ EngineOnly(Engine!Begin)
              \/ PlainStage
              \/ EvaluatePolicy /\ Moves /\ StaysInnocent
              \/ /\ Execute /\ Moves /\ pc' # "act"
                 /\ acts' = acts \/ acts' = acts \union {ActNow}
                 /\ deployment.dry_run => acts' = acts /\ StaysInnocent
              \/ CloseIncident
              \/ EndCycle
              \/ TaskDies
<1>1. task = "running"
  BY DEF CycleStep, LoopStep, DetectSignals, EngineOnly, EvaluatePolicy, Execute,
         CloseIncident, EndCycle, TaskDies
<1>2. EngineTypes /\ EngineTypes'
  BY CycleKeepsTypes, SameTypes, SameTypesAfter DEF TypeInv
<1>3. CASE EvaluatePolicy
  <2>1. incident \in Incident
    BY <1>2, <1>3, NoneAssumption DEF EngineTypes, EvaluatePolicy
  <2>2. PICK v \in PolicyVerdict : Engine!Gate(v)
    BY <1>3, EvaluateType DEF EvaluatePolicy
  <2> QED
    BY <1>1, <1>2, <1>3, <2>1, <2>2, StageMoves DEF EngineTypes
<1>4. CASE Execute
  <2>1. incident \in Incident /\ incident.diagnosis \in Diagnosis
    BY <1>2, <1>4, NoneAssumption DEF EngineTypes, Execute
  <2>2. PICK attempt \in Engine!Executions(incident, deployment.dry_run) :
            /\ Engine!Act(attempt)
            /\ acts' = acts \union
                {[key |-> <<op.target, op.action>>, incident_id |-> incident.id,
                  approved_at |-> last_action[<<op.target, op.action>>], at |-> now,
                  life |-> lives, cycle |-> cycles] : op \in Range(attempt.effects)}
    BY <1>4 DEF Execute
  <2>3. deployment \in Deployments /\ deployment.dry_run \in BOOLEAN
    BY ControllerAssumption DEF TypeInv, ProcessTypes, Deployment
  <2>4. Moves /\ pc' # "act"
    BY <1>2, <2>1, <2>2, StageMoves DEF EngineTypes
  <2>5. ASSUME deployment.dry_run
        PROVE  acts' = acts /\ StaysInnocent
    <3>1. /\ attempt.effects = << >> /\ attempt.result.dry_run
          /\ ~attempt.result.executed /\ ~attempt.result.error
      BY <2>3, <2>5, AttemptsDo
    <3>2. Range(attempt.effects) = {}
      BY <3>1 DEF Range
    <3> QED
      BY <1>2, <2>1, <2>2, <3>1, <3>2, StageMoves DEF EngineTypes
  <2>6. acts' = acts \/ acts' = acts \union {ActNow}
    BY <1>4, <2>1, <2>3, ActsNow
  <2> QED
    BY <1>1, <1>2, <1>4, <2>4, <2>5, <2>6
<1>5. CASE EngineOnly(pc = "diagnose" /\ Engine!Diagnose(MockDiagnose(incident.signal)))
  <2>1. incident \in Incident /\ incident.signal \in Signal /\ pc = "diagnose"
    BY <1>2, <1>5, NoneAssumption DEF EngineTypes, EngineOnly, Incident
  <2>2. Moves /\ StaysInnocent
    BY <1>2, <1>5, <2>1, MockProposes, StageMoves DEF EngineOnly, EngineTypes
  <2>3. PlainStage
    BY <1>5, <2>1, <2>2, NoneAssumption DEF PlainStage, EngineOnly, Moves
  <2> QED
    BY <1>1, <1>2, <2>3
<1>6. CASE \/ EngineOnly(\E v \in deployment.verifications : Engine!Verify(v))
           \/ EngineOnly(Engine!Replay(Engine!NoopReplay))
           \/ EngineOnly(Engine!Escalate)
  <2>1. /\ pc \in {"verify", "replay", "escalate"}
        /\ UNCHANGED <<last_action, process, now, history>>
        /\ \/ pc = "verify" /\ \E v : Engine!Verify(v)
           \/ pc = "replay" /\ \E r : Engine!Replay(r)
           \/ Engine!Escalate
    BY <1>6 DEF EngineOnly, Engine!Verify, Engine!Replay, Engine!Escalate
  <2>2. incident \in Incident
    BY <1>2, <2>1, NoneAssumption DEF EngineTypes
  <2>3. Moves /\ (pc \in {"verify", "replay"} \/ StaysInnocent)
    BY <1>2, <2>1, <2>2, StageMoves DEF EngineTypes
  <2>4. PlainStage
    BY <2>1, <2>2, <2>3, NoneAssumption DEF PlainStage, Moves
  <2> QED
    BY <1>1, <1>2, <2>4
<1> QED
  BY <1>1, <1>2, <1>3, <1>4, <1>5, <1>6 DEF CycleStep, LoopStep

-----------------------------------------------------------------------------
(* The cooldown. *)

\* Nothing has been approved or changed before the first start.
LEMMA SpacedStart == Init => SpacedInv
BY DEF Init, Engine!Init, SpacedInv, Numbered, Remembered, Approved, SpacedWithinCycle,
       NoApprovals, EmptyStore, Engine!Ids

\* Starting, stopping and sleeping change nothing of what was done; an engine that
\* is built anew begins another cycle (main.py:57-73).
LEMMA ProcessKeepsSpaced ==
    ASSUME TypeInv, TypeInv', SpacedInv,
           Start \/ EnterLoop \/ Wake \/ Shutdown \/ Kill \/ Tick \/ UNCHANGED vars
    PROVE  SpacedInv'
<1>1. CASE Start
  <2>1. pc = "idle" /\ incident = None /\ UNCHANGED <<engine, last_action, now, acts>>
    BY <1>1, SameTypes DEF Start, Up, TypeInv, ProcessTypes, Task, EngineTypes
  <2>2. closed' = EmptyStore /\ lives' = lives + 1 /\ task' = "scheduled"
    BY <1>1 DEF Start
  <2>3. lives \in Nat /\ \A a \in acts : a.life \in Nat
    BY DEF TypeInv, ProcessTypes, ActRecord
  <2>4. Numbered'
    BY <2>1, <2>2, SameSets DEF engine, SpacedInv, Numbered, EmptyStore
  <2>5. Remembered'
    BY <2>1, <2>2, <2>3 DEF SpacedInv, Remembered, InThisCycle
  <2>6. Approved' /\ SpacedWithinCycle'
    BY <2>1 DEF engine, SpacedInv, Approved, SpacedWithinCycle, Repeated
  <2> QED
    BY <2>4, <2>5, <2>6 DEF SpacedInv
<1>2. CASE EnterLoop \/ Wake
  <2>1. /\ pc = "idle" /\ incident = None /\ task \in {"scheduled", "sleeping"}
        /\ task' = "running" /\ last_action' = NoApprovals
        /\ UNCHANGED <<pc, incident, created, now, lives, cycles, closed, acts>>
    BY <1>2, SameTypes
       DEF EnterLoop, Wake, BuildEngine, TypeInv, ProcessTypes, EngineTypes, history
  <2>2. Numbered' /\ Approved' /\ SpacedWithinCycle'
    BY <2>1 DEF SpacedInv, Numbered, Approved, SpacedWithinCycle, Repeated
  <2>3. Remembered'
    BY <2>1 DEF SpacedInv, Remembered, InThisCycle, NoApprovals
  <2> QED
    BY <2>2, <2>3 DEF SpacedInv
<1>3. CASE Shutdown
  <2>1. /\ pc = "idle" /\ incident = None /\ task' = "cancelled"
        /\ UNCHANGED <<engine, last_action, now, history>>
    BY <1>3, SameTypes DEF Shutdown, TypeInv, ProcessTypes, EngineTypes
  <2> QED
    BY <2>1 DEF engine, history, SpacedInv, Numbered, Remembered, Approved,
                SpacedWithinCycle, Repeated, InThisCycle
<1>4. CASE Kill
  <2>1. /\ pc' = "idle" /\ incident' = None /\ task' = "down"
        /\ last_action' = NoApprovals
        /\ UNCHANGED <<created, now, lives, cycles, closed, acts>>
    BY <1>4 DEF Kill, history
  <2> QED
    BY <2>1 DEF SpacedInv, Numbered, Remembered, Approved, SpacedWithinCycle, Repeated,
                InThisCycle, NoApprovals
<1>5. CASE Tick \/ UNCHANGED vars
  <2>1. /\ UNCHANGED <<pc, incident, created, last_action, lives, cycles, closed, acts>>
        /\ task' = task /\ now' >= now
    BY <1>5 DEF Tick, vars, engine, process, history, TypeInv, ProcessTypes
  <2>2. now \in Nat /\ now' \in Nat /\ last_action \in [Key -> Nat \union {None}]
    BY DEF TypeInv, ProcessTypes
  <2>3. Remembered'
    BY <2>1, <2>2 DEF SpacedInv, Remembered, InThisCycle
  <2> QED
    BY <2>1, <2>3 DEF SpacedInv, Numbered, Approved, SpacedWithinCycle, Repeated,
                      InThisCycle
<1> QED
  BY <1>1, <1>2, <1>3, <1>4, <1>5

\* The gate approves a remedy only once the cooldown is over, and remembers it
\* (gate.py:126-146).
LEMMA ApprovalsRemembered ==
    ASSUME NEW d \in Diagnosis, d.proposed_action \in Remedy,
           NEW last, NEW t, Evaluate(d, last, t).decision = "approved"
    PROVE  ~InCooldown(last, t) /\ Records(Evaluate(d, last, t))
<1>1. d # None /\ d.proposed_action \in ActionType
      /\ d.proposed_action # "escalate" /\ d.proposed_action # "no_op"
  BY NoneAssumption DEF Diagnosis, Remedy
<1> QED
  BY <1>1 DEF Evaluate, Verdict, Records

\* The gate approves a key only a cooldown after its last approval, and remembers
\* that (gate.py:126-163).
LEMMA GateKeepsSpaced ==
    ASSUME TypeInv, SpacedInv, EngineTypes, EngineTypes', EvaluatePolicy, Moves
    PROVE  SpacedInv'
<1> DEFINE key == KeyOf(incident.diagnosis, incident.signal)
           v == Evaluate(incident.diagnosis, last_action[key], now)
<1>1. /\ pc = "gate" /\ task = "running" /\ Engine!Gate(v)
      /\ last_action' = Remember(last_action, key, v, now)
      /\ UNCHANGED <<process, now, history>>
  BY DEF EvaluatePolicy
<1>2. /\ incident \in Incident /\ incident.diagnosis \in Diagnosis /\ key \in Key
      /\ incident.diagnosis.proposed_action \in Remedy
      /\ now \in Nat /\ last_action \in [Key -> Nat \union {None}]
  BY <1>1, KeysExist, NoneAssumption
     DEF TypeInv, ProcessTypes, EngineTypes, SpacedInv, Approved
<1>3. \/ last_action' = last_action /\ pc' # "act"
      \/ last_action' = [last_action EXCEPT ![key] = now] /\ ~InCooldown(last_action[key], now)
      \/ last_action' = [last_action EXCEPT ![key] = now] /\ pc' # "act"
  <2>1. pc' = "act" => v.decision = "approved"
    BY <1>1 DEF Engine!Gate, Engine!HandOff, Engine!Proceed
  <2>2. v.decision = "approved" => ~InCooldown(last_action[key], now) /\ Records(v)
    BY <1>2, ApprovalsRemembered
  <2>3. last_action' = IF Records(v) THEN [last_action EXCEPT ![key] = now]
                                     ELSE last_action
    BY <1>1 DEF Remember
  <2> HIDE DEF key, v
  <2> QED
    BY <2>1, <2>2, <2>3
<1> HIDE DEF key, v
<1>4. \A k \in Key : /\ last_action[k] # None => last_action'[k] # None
                                               /\ last_action'[k] >= last_action[k]
                     /\ last_action'[k] # None => last_action'[k] <= now
  BY <1>2, <1>3, NoneAssumption DEF SpacedInv, Remembered
<1>5. \A a \in acts : a.key \in Key /\ a.approved_at \in Nat
  BY DEF TypeInv, ProcessTypes, ActRecord, SpacedInv, Remembered
<1>6. Remembered'
  BY <1>1, <1>2, <1>4, <1>5, RememberType
     DEF SpacedInv, Remembered, InThisCycle, process, history
<1>7. Approved'
  <2>1. pc' # "gate"
    BY <1>1 DEF Moves
  <2>2. CASE pc' = "act"
    <3>1. KeyOf(incident.diagnosis, incident.signal)' = key
      BY <2>2 DEF Moves, KeyOf, TargetOf, key
    <3>2. last_action'[key] = now /\ now # None
      BY <1>2, <1>3, <2>2, NoneAssumption
    <3>3. \A a \in acts : InThisCycle(a) /\ a.key = key => now - a.approved_at >= Cooldown
      <4> SUFFICES ASSUME NEW a \in acts, InThisCycle(a), a.key = key
                   PROVE  now - a.approved_at >= Cooldown
        OBVIOUS
      <4>1. last_action[key] # None /\ last_action[key] >= a.approved_at
        BY <1>1 DEF SpacedInv, Remembered
      <4>2. now - last_action[key] >= Cooldown
        BY <1>2, <1>3, <2>2, <4>1, PolicyAssumption DEF InCooldown
      <4> QED
        BY <1>2, <1>5, <4>1, <4>2, PolicyAssumption
    <3> QED
      BY <1>1, <2>1, <3>1, <3>2, <3>3 DEF Approved, InThisCycle, history
  <2> QED
    BY <2>1, <2>2 DEF Approved
<1>8. Numbered' /\ SpacedWithinCycle'
  BY <1>1 DEF Moves, SpacedInv, Numbered, SpacedWithinCycle, Repeated, history,
              EngineTypes
<1> QED
  BY <1>6, <1>7, <1>8 DEF SpacedInv

\* The change is made under the approval just given (engine.py:135-141).
LEMMA ExecuteKeepsSpaced ==
    ASSUME TypeInv, SpacedInv, EngineTypes, EngineTypes', Execute, Moves, pc' # "act",
           acts' = acts \/ acts' = acts \union {ActNow}
    PROVE  SpacedInv'
<1> DEFINE key == KeyOf(incident.diagnosis, incident.signal)
<1>1. /\ pc = "act" /\ task = "running"
      /\ UNCHANGED <<last_action, process, now, lives, cycles, closed>>
  BY DEF Execute
<1>2. /\ incident # None /\ incident.id = created /\ created \in Nat
      /\ incident \in Incident /\ incident.diagnosis \in Diagnosis /\ key \in Key
      /\ now \in Nat /\ last_action \in [Key -> Nat \union {None}]
      /\ lives \in Nat /\ cycles \in Nat
  BY <1>1, KeysExist, NoneAssumption
     DEF TypeInv, ProcessTypes, EngineTypes, SpacedInv, Numbered
<1>3. /\ last_action[key] \in Nat /\ last_action[key] # None /\ last_action[key] <= now
      /\ \A a \in acts : InThisCycle(a) /\ a.key = key =>
              last_action[key] - a.approved_at >= Cooldown
  BY <1>1, <1>2 DEF SpacedInv, Approved, Remembered
<1>4. /\ ActNow.key = key /\ ActNow.incident_id = created
      /\ ActNow.approved_at = last_action[key] /\ ActNow.at = now
      /\ ActNow.life = lives /\ ActNow.cycle = cycles
  BY <1>2 DEF ActNow
<1> HIDE DEF key
<1>5. \A a \in acts : /\ a.incident_id < created /\ a.incident_id \in Nat
                      /\ a.approved_at \in Nat
  BY <1>1 DEF SpacedInv, Numbered, Remembered, TypeInv, ProcessTypes, ActRecord
<1>6. Numbered'
  BY <1>1, <1>2, <1>4, <1>5 DEF Moves, SpacedInv, Numbered, EngineTypes
<1>7. Remembered'
  BY <1>1, <1>2, <1>3, <1>4 DEF SpacedInv, Remembered, InThisCycle, process
<1>8. Approved'
  BY <1>1 DEF Moves, Approved
<1>9. SpacedWithinCycle'
  <2> SUFFICES ASSUME NEW a \in acts', NEW b \in acts', Repeated(a, b), a.cycle = b.cycle
               PROVE  b.at - a.approved_at >= Cooldown
    BY DEF SpacedWithinCycle, Repeated
  <2>1. CASE a \in acts /\ b \in acts
    BY <2>1 DEF SpacedInv, SpacedWithinCycle
  <2>2. CASE a \in acts /\ b = ActNow
    <3>1. InThisCycle(a) /\ a.key = key
      BY <1>4, <2>2 DEF Repeated, InThisCycle
    <3> QED
      BY <1>2, <1>3, <1>4, <1>5, <2>2, <3>1, PolicyAssumption
  <2>3. CASE a = ActNow
    BY <1>2, <1>4, <1>5, <2>3 DEF Repeated
  <2> QED
    BY <2>1, <2>2, <2>3
<1> QED
  BY <1>6, <1>7, <1>8, <1>9 DEF SpacedInv

\* Every step of a cycle keeps the changes apart.
LEMMA CycleKeepsSpaced ==
    ASSUME TypeInv, TypeInv', SpacedInv, CycleStep
    PROVE  SpacedInv'
<1>1. EngineTypes /\ EngineTypes' /\ task = "running"
  BY CycleMoves
<1>2. /\ created \in Nat /\ lives \in Nat /\ cycles \in Nat
      /\ \A a \in acts : a.incident_id \in Nat /\ a.life \in Nat /\ a.cycle \in Nat
  <2>1. \A a \in acts : a \in ActRecord
    BY DEF TypeInv, ProcessTypes
  <2>2. created \in Nat
    BY <1>1 DEF EngineTypes
  <2>3. lives \in Nat /\ cycles \in Nat
    BY DEF TypeInv, ProcessTypes
  <2> QED
    BY <2>1, <2>2, <2>3 DEF ActRecord
<1>3. CASE DetectSignals
  <2>1. /\ incident = None /\ pc' = "next"
        /\ UNCHANGED <<incident, created, last_action, process, now, history>>
    BY <1>1, <1>3 DEF DetectSignals, Engine!Detect, EngineTypes
  <2> QED
    BY <2>1 DEF process, history, SpacedInv, Numbered, Remembered, Approved,
                SpacedWithinCycle, Repeated, InThisCycle
<1>4. CASE EngineOnly(Engine!Begin)
  <2>1. /\ created' = created + 1 /\ incident'.id = created + 1 /\ pc' = "diagnose"
        /\ pending # << >> /\ UNCHANGED <<last_action, process, now, history>>
    BY <1>4 DEF EngineOnly, Engine!Begin, Engine!NewIncident
  <2>2. created + 1 \in 1..MaxIncidents
    BY <1>1, <1>2, <2>1, ControllerAssumption DEF EngineTypes
  <2>3. closed[created + 1] = None
    BY <1>2, <2>2 DEF SpacedInv, Numbered
  <2>4. Numbered'
    BY <1>2, <2>1, <2>3 DEF history, SpacedInv, Numbered
  <2> QED
    BY <2>1, <2>4 DEF process, history, SpacedInv, Remembered, Approved,
                      SpacedWithinCycle, Repeated, InThisCycle
<1>5. CASE PlainStage
  BY <1>1, <1>5 DEF PlainStage, Moves, process, history, SpacedInv, Numbered, Remembered,
                    Approved, SpacedWithinCycle, Repeated, InThisCycle, EngineTypes
<1>6. CASE EvaluatePolicy /\ Moves
  BY <1>1, <1>6, GateKeepsSpaced
<1>7. CASE /\ Execute /\ Moves /\ pc' # "act"
           /\ acts' = acts \/ acts' = acts \union {ActNow}
  BY <1>1, <1>7, ExecuteKeepsSpaced
<1>8. CASE CloseIncident
  <2>1. /\ incident # None /\ incident' = None /\ pc' = "next"
        /\ closed' = [closed EXCEPT ![created] = incident.outcome]
        /\ UNCHANGED <<created, last_action, process, now, lives, cycles, acts>>
    BY <1>1, <1>8
       DEF CloseIncident, Engine!Finish, EngineTypes, SpacedInv, Numbered
  <2>2. Numbered'
    BY <1>2, <2>1 DEF SpacedInv, Numbered, TypeInv, ProcessTypes
  <2> QED
    BY <2>1, <2>2 DEF process, SpacedInv, Remembered, Approved, SpacedWithinCycle,
                      Repeated, InThisCycle
<1>9. CASE EndCycle
  <2>1. /\ incident' = None /\ pc' = "idle" /\ task' = "sleeping" /\ cycles' = cycles + 1
        /\ UNCHANGED <<created, last_action, now, lives, closed, acts>>
    BY <1>1, <1>9 DEF EndCycle, Engine!Return, EngineTypes
  <2>2. Remembered'
    BY <1>2, <2>1 DEF SpacedInv, Remembered, InThisCycle
  <2> QED
    BY <2>1, <2>2 DEF SpacedInv, Numbered, Approved, SpacedWithinCycle, Repeated
<1>10. CASE TaskDies
  <2>1. /\ incident' = None /\ pc' = "idle" /\ task' = "died"
        /\ UNCHANGED <<created, last_action, now, history>>
    BY <1>10 DEF TaskDies, Engine!Raise
  <2> QED
    BY <2>1 DEF history, SpacedInv, Numbered, Remembered, Approved, SpacedWithinCycle,
                Repeated, InThisCycle
<1> QED
  BY <1>3, <1>4, <1>5, <1>6, <1>7, <1>8, <1>9, <1>10, CycleMoves

\* What the gate remembers covers the changes of the cycle, in every state
\* (gate.py:88-98, main.py:59).
THEOREM SpacedInvHolds == Spec => [](TypeInv /\ SpacedInv)
<1>1. TypeInv /\ TypeInv' /\ SpacedInv /\ [Next]_vars => SpacedInv'
  BY ProcessKeepsSpaced, CycleKeepsSpaced DEF Next, CycleStep
<1> QED
  BY <1>1, TypeInvHolds, SpacedStart, PTL DEF Spec

\* Inside one cycle, two changes of one target by one action are a cooldown apart,
\* counted from the approval of the first, however many signals ask for them
\* (gate.py:76, 126-146).
THEOREM CooldownKept == Spec => []SpacedWithinCycle
<1>1. SpacedInv => SpacedWithinCycle
  BY DEF SpacedInv
<1> QED
  BY <1>1, SpacedInvHolds, PTL

-----------------------------------------------------------------------------
(* The counters. *)

\* One more result adds to the count of its outcome.
LEMMA CountAppended ==
    ASSUME EngineTypes, NEW inc \in Incident, results' = Append(results, inc), NEW o
    PROVE  CountOf(o)' = CountOf(o) + (IF inc.outcome = o THEN 1 ELSE 0)
<1> DEFINE N == Len(results)
           S == {i \in DOMAIN results : results[i].outcome = o}
<1>1. /\ N \in Nat /\ DOMAIN results = 1..N /\ DOMAIN results' = 1..(N + 1)
      /\ \A i \in 1..N : results'[i] = results[i]
      /\ results'[N + 1] = inc
  BY DEF EngineTypes
<1>2. {i \in DOMAIN results' : results'[i].outcome = o} =
          IF inc.outcome = o THEN S \union {N + 1} ELSE S
  BY <1>1
<1>3. IsFiniteSet(S) /\ Cardinality(S) \in Nat /\ N + 1 \notin S
  <2>1. IsFiniteSet(S)
    BY CountType
  <2>2. N + 1 \notin S
    BY <1>1
  <2> QED
    BY <2>1, <2>2, FS_CardinalityType
<1>4. Cardinality(S \union {N + 1}) = Cardinality(S) + 1
  BY <1>3, FS_AddElement
<1> HIDE DEF N, S
<1>5. CountOf(o) = Cardinality(S)
  BY DEF CountOf, S
<1>6. CountOf(o)' = Cardinality(IF inc.outcome = o THEN S \union {N + 1} ELSE S)
  BY <1>2 DEF CountOf
<1> QED
  BY <1>3, <1>4, <1>5, <1>6

\* The incidents a process has closed are finitely many.
LEMMA ClosedFinite ==
    \A o : IsFiniteSet(ClosedAs(o)) /\ Cardinality(ClosedAs(o)) \in Nat
<1>1. IsFiniteSet(1..MaxIncidents)
  BY FS_Interval, ControllerAssumption
<1> QED
  BY <1>1, FS_Subset, FS_CardinalityType DEF ClosedAs

\* Closing an incident that was not closed adds to the count of its outcome.
LEMMA ClosingCounts ==
    ASSUME closed \in [1..MaxIncidents -> Outcome \union {None}],
           NEW id \in 1..MaxIncidents, closed[id] = None,
           NEW outcome \in Outcome, closed' = [closed EXCEPT ![id] = outcome]
    PROVE  \A o \in Outcome : Cardinality(ClosedAs(o)') =
               Cardinality(ClosedAs(o)) + (IF outcome = o THEN 1 ELSE 0)
<1>1. \A o \in Outcome : o # None
  BY ControllerAssumption
<1>2. \A o \in Outcome : /\ ClosedAs(o)' = IF outcome = o THEN ClosedAs(o) \union {id}
                                                          ELSE ClosedAs(o)
                         /\ id \notin ClosedAs(o)
  BY <1>1 DEF ClosedAs
<1>3. \A S : IsFiniteSet(S) /\ id \notin S =>
                Cardinality(S \union {id}) = Cardinality(S) + 1
  BY FS_AddElement
<1>4. ASSUME NEW o \in Outcome
      PROVE  Cardinality(ClosedAs(o)') =
                 Cardinality(ClosedAs(o)) + (IF outcome = o THEN 1 ELSE 0)
  <2>1. IsFiniteSet(ClosedAs(o)) /\ Cardinality(ClosedAs(o)) \in Nat
    BY ClosedFinite
  <2> QED
    BY <1>2, <1>3, <2>1
<1> QED
  BY <1>4

\* A process that has just started has counted nothing, for nothing is finished.
LEMMA NothingCounted ==
    ASSUME closed = EmptyStore
    PROVE  \A o \in Outcome : Cardinality(ClosedAs(o)) = 0
<1>1. \A id \in 1..MaxIncidents : closed[id] = None
  BY SameSets DEF EmptyStore
<1>2. \A o \in Outcome : ClosedAs(o) = {}
  BY <1>1, ControllerAssumption DEF ClosedAs
<1> QED
  BY <1>2, FS_EmptySet

\* The same of the state after a step.
LEMMA NothingCountedAfter ==
    ASSUME closed' = EmptyStore
    PROVE  \A o \in Outcome : Cardinality(ClosedAs(o)') = 0
<1>1. \A id \in 1..MaxIncidents : closed'[id] = None
  BY SameSets DEF EmptyStore
<1>2. \A o \in Outcome : ClosedAs(o)' = {}
  BY <1>1, ControllerAssumption DEF ClosedAs
<1> QED
  BY <1>2, FS_EmptySet

\* Where nothing is counted and nothing closed, the counts stay.
LEMMA CountsKept ==
    ASSUME UNCHANGED <<results, closed, incidents_total>>
    PROVE  \A o \in Outcome : /\ incidents_total'[o] = incidents_total[o]
                              /\ CountOf(o)' = CountOf(o)
                              /\ ClosedAs(o)' = ClosedAs(o)
  BY DEF CountOf, ClosedAs

\* Nothing is counted before the first start.
LEMMA CountedStart == Init => Counted
<1> SUFFICES ASSUME Init
             PROVE  Counted
  OBVIOUS
<1>1. pc = "idle" /\ task = "down"
  BY DEF Init, Engine!Init
<1> QED
  BY <1>1 DEF Counted

\* A new process counts from zero; sleeping and waking counts nothing
\* (main.py:57-73).
LEMMA ProcessKeepsCounted ==
    ASSUME TypeInv, Counted,
           Start \/ EnterLoop \/ Wake \/ Shutdown \/ Kill \/ Tick \/ UNCHANGED vars
    PROVE  Counted'
<1>1. CASE Start
  <2>1. pc' = "idle" /\ closed' = EmptyStore /\ incidents_total' = NoCounts
    BY <1>1 DEF Start, Up, TypeInv, ProcessTypes, Task, engine
  <2> QED
    BY <2>1, NothingCountedAfter DEF Counted, NoCounts
<1>2. CASE EnterLoop \/ Wake
  <2>1. /\ pc = "idle" /\ pc' = "idle" /\ task \in {"scheduled", "sleeping"}
        /\ UNCHANGED <<results, closed, incidents_total>>
    BY <1>2 DEF EnterLoop, Wake, BuildEngine, TypeInv, ProcessTypes, history
  <2> QED
    BY <2>1, CountsKept DEF Counted
<1>3. CASE Shutdown \/ Kill
  <2>1. pc' = "idle" /\ task' \notin {"scheduled", "sleeping", "running"}
    BY <1>3 DEF Shutdown, Kill, TypeInv, ProcessTypes, engine
  <2> QED
    BY <2>1 DEF Counted
<1>4. CASE Tick \/ UNCHANGED vars
  <2>1. UNCHANGED <<pc, task, results, closed, incidents_total>>
    BY <1>4 DEF Tick, vars, engine, process, history
  <2> QED
    BY <2>1, CountsKept DEF Counted
<1> QED
  BY <1>1, <1>2, <1>3, <1>4

\* An incident is counted once, at the end of the cycle that closed it
\* (main.py:60-62).
LEMMA CycleKeepsCounted ==
    ASSUME TypeInv, TypeInv', SpacedInv, Counted, CycleStep
    PROVE  Counted'
<1>1. EngineTypes /\ EngineTypes' /\ task = "running"
  BY CycleMoves
<1>2. incidents_total \in [Outcome -> Nat] /\ \A o : CountOf(o) \in Nat
  <2>1. incidents_total \in [Outcome -> Nat]
    BY DEF TypeInv, ProcessTypes
  <2> QED
    BY <1>1, <2>1, CountType
<1>3. CASE DetectSignals
  <2>1. /\ pc = "idle" /\ pc' = "next" /\ task' = task /\ results' = << >>
        /\ UNCHANGED <<closed, incidents_total>>
    BY <1>3 DEF DetectSignals, Engine!Detect, process, history
  <2>2. \A o : CountOf(o)' = 0
    <3>1. \A o : {i \in DOMAIN results' : results'[i].outcome = o} = {}
      BY <2>1
    <3> QED
      BY <3>1, FS_EmptySet DEF CountOf
  <2>3. \A o \in Outcome : ClosedAs(o)' = ClosedAs(o)
    BY <2>1 DEF ClosedAs
  <2> QED
    BY <1>1, <1>2, <2>1, <2>2, <2>3 DEF Counted
<1>4. CASE EngineOnly(Engine!Begin) \/ PlainStage \/ (EvaluatePolicy /\ Moves)
           \/ (Execute /\ Moves)
  <2>1. /\ pc # "idle" /\ pc' # "idle" /\ task' = task
        /\ UNCHANGED <<results, closed, incidents_total>>
    BY <1>1, <1>4 DEF EngineOnly, Engine!Begin, PlainStage, Moves, EvaluatePolicy, Execute,
                      process, history, EngineTypes
  <2> QED
    BY <1>1, <2>1, CountsKept DEF Counted
<1>5. CASE CloseIncident
  <2> DEFINE inc == Engine!WithPostmortem(incident, Engine!Draft(incident))
  <2>1. /\ pc = "finish" /\ pc' = "next" /\ task' = task
        /\ results' = Append(results, inc)
        /\ closed' = [closed EXCEPT ![incident.id] = incident.outcome]
        /\ UNCHANGED incidents_total
    BY <1>5 DEF CloseIncident, Engine!Finish, process
  <2>2. /\ incident \in Incident /\ incident.outcome \in Outcome
        /\ incident.id = created /\ created \in 1..MaxIncidents /\ closed[created] = None
    <3>1. incident \in Incident /\ incident # None
      BY <1>1, <2>1, NoneAssumption DEF EngineTypes
    <3>2. created <= detected /\ detected <= MaxIncidents /\ created \in Nat
      BY <1>1, ControllerAssumption DEF EngineTypes
    <3>3. incident.id = created /\ created >= 1 /\ closed[created] = None
      BY <3>1 DEF SpacedInv, Numbered
    <3>4. incident.outcome \in Outcome
      BY <3>1 DEF Incident
    <3>5. created \in 1..MaxIncidents
      BY <1>1, <3>2, <3>3, ControllerAssumption DEF EngineTypes
    <3> QED
      BY <3>1, <3>3, <3>4, <3>5
  <2>3. inc.outcome = incident.outcome
    BY <2>2, Enriched
  <2>4. inc \in Incident
    BY <1>1, <2>1 DEF EngineTypes
  <2> HIDE DEF inc
  <2>5. \A o : CountOf(o)' = CountOf(o) + (IF incident.outcome = o THEN 1 ELSE 0)
    BY <1>1, <2>1, <2>3, <2>4, CountAppended DEF EngineTypes
  <2>6. \A o \in Outcome : Cardinality(ClosedAs(o)') =
            Cardinality(ClosedAs(o)) + (IF incident.outcome = o THEN 1 ELSE 0)
    BY <2>1, <2>2, ClosingCounts DEF TypeInv, ProcessTypes
  <2> QED
    BY <1>1, <1>2, <2>1, <2>5, <2>6 DEF Counted
<1>6. CASE EndCycle
  <2>1. /\ pc = "next" /\ pc' = "idle" /\ task' = "sleeping"
        /\ incidents_total' = [o \in Outcome |-> incidents_total[o] + CountOf(o)]
        /\ closed' = closed
    BY <1>6 DEF EndCycle, Engine!Return
  <2>2. \A o \in Outcome : ClosedAs(o)' = ClosedAs(o)
    BY <2>1 DEF ClosedAs
  <2> QED
    BY <2>1, <2>2 DEF Counted
<1>7. CASE TaskDies
  BY <1>7 DEF TaskDies, Engine!Raise, Counted
<1> QED
  BY <1>3, <1>4, <1>5, <1>6, <1>7, CycleMoves

\* Between cycles the metrics account, outcome by outcome, for every incident this
\* process finished (main.py:60-62).
THEOREM MetricsAddUp == Spec => []MetricsAgree
<1>1. TypeInv /\ SpacedInv /\ Counted /\ [Next]_vars => (TypeInv' => Counted')
  BY ProcessKeepsCounted, CycleKeepsCounted DEF Next, CycleStep
<1>2. Counted => MetricsAgree
  BY SameSets DEF Counted, MetricsAgree, ClosedAs
<1> QED
  BY <1>1, <1>2, SpacedInvHolds, CountedStart, PTL DEF Spec

-----------------------------------------------------------------------------
(* Shutdown. *)

\* The changes this process made belong to incidents it has finished.
AllClosed == \A a \in acts : a.life = lives => closed[a.incident_id] # None

\* Within a cycle only the incident in process may have a change that is not
\* closed yet; where the task awaits, or was stopped while it awaited, there is
\* none. The gauge of a task that ran and was not cancelled is up.
Settled ==
    /\ \A a \in acts : a.incident_id \in 1..MaxIncidents
    /\ task \in {"running", "sleeping", "died"} => loop_up = 1
    /\ task \in {"scheduled", "sleeping"} => AllClosed
    /\ task = "cancelled" /\ loop_up = 0 => AllClosed
    /\ task = "running" /\ incident = None => AllClosed
    /\ task = "running" =>
          \A a \in acts : a.life = lives => closed[a.incident_id] # None
                                            \/ a.incident_id = created

\* Before the first start nothing was changed.
LEMMA SettledStart == Init => Settled
BY DEF Init, Settled, AllClosed

\* A new process has changed nothing yet; the task is cancelled only where it
\* awaits (main.py:63-66, 72-78).
LEMMA ProcessKeepsSettled ==
    ASSUME TypeInv, SpacedInv, Settled,
           Start \/ EnterLoop \/ Wake \/ Shutdown \/ Kill \/ Tick \/ UNCHANGED vars
    PROVE  Settled'
<1>1. CASE Start
  <2>1. /\ task' = "scheduled" /\ lives' = lives + 1 /\ acts' = acts
    BY <1>1 DEF Start
  <2>2. lives \in Nat /\ \A a \in acts : a.life \in Nat /\ a.life <= lives
    BY DEF TypeInv, ProcessTypes, ActRecord, SpacedInv, Remembered
  <2>3. AllClosed'
    BY <2>1, <2>2 DEF AllClosed
  <2> QED
    BY <2>1, <2>3 DEF Settled
<1>2. CASE EnterLoop \/ Wake
  <2>1. /\ task \in {"scheduled", "sleeping"} /\ task' = "running" /\ loop_up' = 1
        /\ UNCHANGED <<lives, closed, acts>>
    BY <1>2 DEF EnterLoop, Wake, history, Settled
  <2> QED
    BY <2>1 DEF Settled, AllClosed
<1>3. CASE Shutdown
  <2>1. /\ task \in {"scheduled", "sleeping", "died"} /\ task' = "cancelled"
        /\ task = "died" => loop_up' = loop_up
        /\ UNCHANGED <<lives, closed, acts>>
    BY <1>3 DEF Shutdown, history
  <2> QED
    BY <2>1 DEF Settled, AllClosed
<1>4. CASE Kill
  BY <1>4 DEF Kill, history, Settled
<1>5. CASE Tick \/ UNCHANGED vars
  <2>1. UNCHANGED <<task, loop_up, incident, created, lives, closed, acts>>
    BY <1>5 DEF Tick, vars, engine, process, history
  <2> QED
    BY <2>1 DEF Settled, AllClosed
<1> QED
  BY <1>1, <1>2, <1>3, <1>4, <1>5

\* Within a cycle an incident is finished before the next one begins
\* (engine.py:99, 181-191).
LEMMA CycleKeepsSettled ==
    ASSUME TypeInv, SpacedInv, Settled, CycleStep
    PROVE  Settled'
<1>1. EngineTypes /\ EngineTypes' /\ task = "running"
  BY CycleMoves
<1>2. incident # None => incident.id = created /\ created \in 1..MaxIncidents
  BY <1>1, ControllerAssumption DEF EngineTypes, SpacedInv, Numbered
<1>3. CASE DetectSignals
  <2>1. incident = None /\ incident' = None /\ UNCHANGED <<process, history, created>>
    BY <1>1, <1>3 DEF DetectSignals, Engine!Detect, EngineTypes
  <2> QED
    BY <1>1, <2>1 DEF process, history, Settled, AllClosed
<1>4. CASE EngineOnly(Engine!Begin)
  <2>1. incident = None /\ UNCHANGED <<process, history>>
    BY <1>1, <1>4 DEF EngineOnly, Engine!Begin, EngineTypes
  <2>2. AllClosed
    BY <1>1, <2>1 DEF Settled
  <2> QED
    BY <1>1, <2>1, <2>2 DEF process, history, Settled, AllClosed
<1>5. CASE PlainStage \/ (EvaluatePolicy /\ Moves)
  <2>1. /\ incident # None /\ incident' # None /\ created' = created
        /\ UNCHANGED <<process, history>>
    BY <1>1, <1>5 DEF PlainStage, Moves, EvaluatePolicy, EngineTypes
  <2> QED
    BY <1>1, <2>1 DEF process, history, Settled, AllClosed
<1>6. CASE Execute /\ Moves /\ (acts' = acts \/ acts' = acts \union {ActNow})
  <2>1. /\ incident # None /\ incident' # None /\ created' = created
        /\ UNCHANGED <<process, lives, closed>>
    BY <1>1, <1>6 DEF Execute, Moves, EngineTypes
  <2>2. ActNow.incident_id = created /\ created \in 1..MaxIncidents
    BY <1>2, <2>1 DEF ActNow
  <2> QED
    BY <1>1, <1>6, <2>1, <2>2 DEF process, Settled, AllClosed
<1>7. CASE CloseIncident
  <2>1. /\ incident # None /\ incident' = None /\ incident \in Incident
        /\ closed' = [closed EXCEPT ![created] = incident.outcome]
        /\ UNCHANGED <<created, process, lives, acts>>
    BY <1>1, <1>2, <1>7, NoneAssumption DEF CloseIncident, Engine!Finish, EngineTypes
  <2>2. incident.outcome # None
    BY <2>1, ControllerAssumption DEF Incident
  <2>3. AllClosed'
    BY <1>1, <1>2, <2>1, <2>2 DEF Settled, AllClosed, TypeInv, ProcessTypes
  <2> QED
    BY <1>1, <2>1, <2>3 DEF process, Settled, AllClosed
<1>8. CASE EndCycle
  <2>1. /\ incident = None /\ task' = "sleeping"
        /\ UNCHANGED <<loop_up, lives, closed, acts>>
    BY <1>1, <1>8 DEF EndCycle, Engine!Return, EngineTypes
  <2> QED
    BY <1>1, <2>1 DEF Settled, AllClosed
<1>9. CASE TaskDies
  BY <1>1, <1>9 DEF TaskDies, history, Settled
<1> QED
  BY <1>3, <1>4, <1>5, <1>6, <1>7, <1>8, <1>9, CycleMoves

\* A shutdown cuts no incident in half: whatever this process changed in the
\* cluster belongs to an incident it finished, when the task sleeps and when it
\* was stopped in order (main.py:57-66, 74-78).
THEOREM ShutdownLosesNothing == Spec => []ChangesAreClosed
<1>1. TypeInv /\ SpacedInv /\ Settled /\ [Next]_vars => Settled'
  BY ProcessKeepsSettled, CycleKeepsSettled DEF Next, CycleStep
<1>2. Settled => ChangesAreClosed
  BY DEF Settled, AllClosed, ChangesAreClosed
<1> QED
  BY <1>1, <1>2, SettledStart, SpacedInvHolds, PTL DEF Spec

-----------------------------------------------------------------------------
(* Dry runs. *)

\* Nothing has been changed before the first start.
LEMMA HarmlessStart == Init => Harmless
<1>1. None # "resolved"
  BY ControllerAssumption DEF Outcome
<1>2. Init => /\ acts = {} /\ NothingChanged /\ pc = "idle" /\ incident = None
              /\ \A id \in 1..MaxIncidents : closed[id] = None /\ store[id] = None
  BY SameSets DEF Init, Engine!Init, EmptyStore, NothingChanged
<1> QED
  BY <1>1, <1>2 DEF Harmless

\* The process's own steps change neither cluster nor incidents.
LEMMA ProcessKeepsHarmless ==
    ASSUME TypeInv, Harmless,
           Start \/ EnterLoop \/ Wake \/ Shutdown \/ Kill \/ Tick \/ UNCHANGED vars
    PROVE  Harmless'
<1>1. \A id \in 1..MaxIncidents : EmptyStore[id] = None
  BY SameSets DEF EmptyStore
<1>2. UNCHANGED <<deployment, acts, cluster>>
  BY DEF Start, EnterLoop, Wake, BuildEngine, Shutdown, Kill, Tick, vars, engine, process,
         history
<1>3. (pc' = pc /\ incident' = incident) \/ (pc' = "idle" /\ incident' = None)
  BY DEF Start, EnterLoop, Wake, BuildEngine, Shutdown, Kill, Tick, vars, engine
<1>4. closed' = closed \/ closed' = EmptyStore
  BY DEF Start, EnterLoop, Wake, Shutdown, Kill, Tick, vars, history
<1>5. store' = store \/ store' = EmptyStore
  BY DEF Start, EnterLoop, Wake, BuildEngine, Shutdown, Kill, Tick, vars, engine
<1>6. None # "resolved"
  BY ControllerAssumption DEF Outcome
<1> SUFFICES ASSUME deployment.dry_run
             PROVE  /\ acts' = {} /\ NothingChanged'
                    /\ pc' \notin {"verify", "replay"}
                    /\ incident' # None => Innocent(incident')
                    /\ \A id \in 1..MaxIncidents :
                          /\ closed'[id] # "resolved"
                          /\ store'[id] # None => Innocent(store'[id])
  BY <1>2 DEF Harmless, Innocent, NothingChanged
<1>7. \A id \in 1..MaxIncidents :
          closed'[id] # "resolved" /\ (store'[id] # None => Innocent(store'[id]))
  BY <1>1, <1>4, <1>5, <1>6 DEF Harmless
<1> QED
  BY <1>2, <1>3, <1>7 DEF Harmless, NothingChanged

\* In dry-run the actuator leaves the cluster alone and says so, and the engine
\* then closes the incident without verifying it (kubernetes.py:76-84,
\* engine.py:137-147).
LEMMA CycleKeepsHarmless ==
    ASSUME TypeInv, SpacedInv, Harmless, CycleStep
    PROVE  Harmless'
<1>1. EngineTypes /\ EngineTypes' /\ task = "running"
  BY CycleMoves
<1>2. UNCHANGED deployment
  BY DEF CycleStep, LoopStep, DetectSignals, EngineOnly, EvaluatePolicy, Execute,
         CloseIncident, EndCycle, TaskDies, process
<1> SUFFICES ASSUME deployment.dry_run
             PROVE  /\ acts' = {} /\ NothingChanged'
                    /\ pc' \notin {"verify", "replay"}
                    /\ incident' # None => Innocent(incident')
                    /\ \A id \in 1..MaxIncidents :
                          /\ closed'[id] # "resolved"
                          /\ store'[id] # None => Innocent(store'[id])
  BY <1>2 DEF Harmless, Innocent, NothingChanged
<1>3. /\ acts = {} /\ NothingChanged /\ pc \notin {"verify", "replay"}
      /\ incident # None => Innocent(incident)
      /\ \A id \in 1..MaxIncidents :
            closed[id] # "resolved" /\ (store[id] # None => Innocent(store[id]))
  BY DEF Harmless
<1>4. CASE DetectSignals
  <2>1. /\ incident' = incident /\ pc' = "next"
        /\ UNCHANGED <<acts, cluster, closed, store>>
    BY <1>4 DEF DetectSignals, Engine!Detect, history
  <2> QED
    BY <1>3, <2>1 DEF NothingChanged
<1>5. CASE EngineOnly(Engine!Begin)
  <2>1. /\ incident' = Engine!NewIncident(created + 1, Head(pending)) /\ pc' = "diagnose"
        /\ UNCHANGED <<acts, cluster, closed, store>>
    BY <1>5 DEF EngineOnly, Engine!Begin, history
  <2>2. Innocent(incident')
    BY <2>1 DEF Engine!NewIncident, Innocent
  <2> QED
    BY <1>3, <2>1, <2>2 DEF NothingChanged
<1>6. CASE PlainStage
  <2>1. /\ incident # None /\ StaysInnocent /\ UNCHANGED <<acts, closed, store>>
    BY <1>3, <1>6 DEF PlainStage, Moves, history
  <2> QED
    BY <1>3, <2>1 DEF StaysInnocent, NothingChanged
<1>7. CASE EvaluatePolicy /\ Moves /\ StaysInnocent
  <2>1. incident # None /\ UNCHANGED <<acts, closed, store>>
    BY <1>1, <1>7 DEF EvaluatePolicy, Moves, history, EngineTypes
  <2> QED
    BY <1>3, <1>7, <2>1 DEF StaysInnocent, NothingChanged
<1>8. CASE Execute /\ Moves /\ acts' = acts /\ StaysInnocent
  <2>1. incident # None /\ UNCHANGED <<closed, store>>
    BY <1>1, <1>8 DEF Execute, Moves, EngineTypes
  <2> QED
    BY <1>3, <1>8, <2>1 DEF StaysInnocent, NothingChanged
<1>9. CASE CloseIncident
  <2> DEFINE inc == Engine!WithPostmortem(incident, Engine!Draft(incident))
  <2>1. /\ incident # None /\ incident \in Incident
        /\ incident' = None /\ pc' = "next"
        /\ store' = [store EXCEPT ![inc.id] = inc]
        /\ closed' = [closed EXCEPT ![incident.id] = incident.outcome]
        /\ UNCHANGED <<acts, cluster>>
    <3>1. pc = "finish" /\ Engine!Finish
      BY <1>9 DEF CloseIncident, Engine!Finish
    <3>2. incident # None /\ incident \in Incident
      BY <1>1, <3>1 DEF EngineTypes
    <3> QED
      BY <1>9, <3>1, <3>2 DEF CloseIncident, Engine!Finish
  <2>2. Innocent(incident) /\ Innocent(inc) /\ inc.id = incident.id
    BY <1>3, <2>1, Enriched
  <2>3. incident.outcome # "resolved"
    BY <2>2 DEF Innocent
  <2> HIDE DEF inc
  <2>4. /\ closed \in [1..MaxIncidents -> Outcome \union {None}]
        /\ store \in [1..MaxIncidents -> Incident \union {None}]
    BY <1>1 DEF TypeInv, ProcessTypes, EngineTypes
  <2>5. ASSUME NEW id \in 1..MaxIncidents
        PROVE  closed'[id] # "resolved" /\ (store'[id] # None => Innocent(store'[id]))
    <3>1. closed'[id] = IF id = incident.id THEN incident.outcome ELSE closed[id]
      BY <2>1, <2>4
    <3>2. store'[id] = IF id = incident.id THEN inc ELSE store[id]
      BY <2>1, <2>2, <2>4
    <3> QED
      BY <1>3, <2>2, <2>3, <3>1, <3>2
  <2> QED
    BY <1>3, <2>1, <2>5 DEF NothingChanged
<1>10. CASE EndCycle \/ TaskDies
  <2>1. /\ pc' = "idle" /\ incident' = None
        /\ UNCHANGED <<acts, cluster, closed, store>>
    BY <1>1, <1>10
       DEF EndCycle, Engine!Return, TaskDies, Engine!Raise, history, EngineTypes
  <2> QED
    BY <1>3, <2>1 DEF NothingChanged
<1> QED
  BY <1>4, <1>5, <1>6, <1>7, <1>8, <1>9, <1>10, CycleMoves

\* In dry-run the cluster is never changed, and no incident claims that anything
\* was executed or resolved, whatever fails and however often the process is
\* restarted (main.py:36, kubernetes.py:76-84).
THEOREM DryRunsAreHarmless == Spec => []DryRunHarmless
<1>1. TypeInv /\ SpacedInv /\ Harmless /\ [Next]_vars => Harmless'
  BY ProcessKeepsHarmless, CycleKeepsHarmless DEF Next, CycleStep
<1>2. Harmless => DryRunHarmless
  BY SameSets DEF Harmless, NothingChanged, Innocent, DryRunHarmless, Engine!Saved
<1> QED
  BY <1>1, <1>2, SpacedInvHolds, HarmlessStart, PTL DEF Spec

=============================================================================
