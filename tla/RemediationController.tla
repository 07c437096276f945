------------------------- MODULE RemediationController -------------------------
(***************************************************************************)
(* The remediation controller as a process (app/main.py, app/wiring.py):   *)
(* one background task that, every interval, builds a new engine, runs it  *)
(* once and counts the incidents it returns; a readiness probe that looks  *)
(* at a gauge the task sets; shutdown, a kill at any moment, and restart.  *)
(*                                                                         *)
(* The engine is RemediationEngine with the adapters build_default_engine  *)
(* wires: the rule-based diagnoser, the risk-based gate, the Kubernetes    *)
(* actuator, a static verifier, the no-op replayer. A deployment says what *)
(* the detector reports and whether real execution is switched on, and     *)
(* where an adapter of the repository that is not wired yet could make a   *)
(* difference: ports that raise, cluster calls that fail, a verifier that  *)
(* reports no recovery.                                                    *)
(*                                                                         *)
(* run_once is synchronous and runs on the event loop, so while the task   *)
(* runs a cycle the process serves no request and reacts to no shutdown.   *)
(***************************************************************************)
EXTENDS PolicyRules, Diagnosers, Functions

CONSTANTS
    Deployments,     \* the deployments considered
    Interval,        \* REMEDIATION_LOOP_INTERVAL, in ticks
    MaxIncidents,    \* bound on the incidents ever created
    MaxTime,         \* bound on the clock
    MaxLives         \* bound on the starts of the process

\* signals: what _demo_signals() returns, the batch of every cycle
\* dry_run: REMEDIATION_DRY_RUN
\* verifications: what the verifier may report
\* faulty: the ports that may raise
\* cluster_fails: whether a cluster call may raise inside the actuator
Deployment ==
    [signals : Seq(Signal), dry_run : BOOLEAN, verifications : SUBSET Verification,
     faulty : SUBSET {"diagnoser", "verifier", "replayer", "escalator"},
     cluster_fails : BOOLEAN]

ASSUME ControllerAssumption ==
    /\ \A d \in Deployments : d \in Deployment
    /\ Interval \in Nat
    /\ MaxIncidents \in Nat
    /\ MaxTime \in Nat
    /\ MaxLives \in Nat
    /\ None \notin Outcome

VARIABLES
    \* The engine (see RemediationEngine).
    pc, pending, incident, why, results, detected, created, store, alerts, cluster,
    \* The gate of the present engine.
    last_action,
    \* The process.
    deployment,        \* what it was deployed with
    task,              \* where the background task stands
    loop_up,           \* LOOP_UP, the gauge behind /ready
    loop_runs,         \* LOOP_RUNS
    incidents_total,   \* INCIDENTS, by outcome
    wake_at,           \* when the task's sleep is over
    \* The world and history.
    now,               \* the clock
    lives,             \* how often the process was started
    cycles,            \* the cycles that ran to their end in this life
    closed,            \* id -> outcome of the incidents finished in this life
    acts               \* the changes made to the cluster, with their time and cycle

\* The engine in general; the actions below narrow it to the deployment.
Engine == INSTANCE RemediationEngine WITH
    Signals     <- Signal,
    Diagnoses   <- {MockDiagnose(signal) : signal \in Signal},
    Verdicts    <- PolicyVerdict,
    DryRun      <- FALSE,
    FaultyPorts <- {"diagnoser", "verifier", "replayer", "escalator"},
    MaxLost     <- 0,
    MaxBatch    <- MaxIncidents

ASSUME EscalationAssumption == None \notin Engine!EscalationReason

engine  == <<pc, pending, incident, why, results, detected, created, store, alerts,
             cluster>>
process == <<deployment, task, loop_up, loop_runs, incidents_total, wake_at>>
history == <<lives, cycles, closed, acts>>
vars    == <<engine, last_action, process, now, history>>

Task == {"down", "scheduled", "running", "sleeping", "cancelled", "died"}

Up == task \in {"scheduled", "running", "sleeping", "died"}

NoApprovals == [k \in Key |-> None]
EmptyStore == [id \in Engine!Ids |-> None]
NoCounts == [o \in Outcome |-> 0]

-----------------------------------------------------------------------------
(* The process. *)

Init ==
    /\ Engine!Init
    /\ last_action = NoApprovals
    /\ deployment \in Deployments
    /\ task = "down"
    /\ loop_up = 0
    /\ loop_runs = 0
    /\ incidents_total = NoCounts
    /\ wake_at = 0
    /\ now = 0
    /\ lives = 0
    /\ cycles = 0
    /\ closed = EmptyStore
    /\ acts = {}

\* Mutant of Start: the gauge is set before the task runs.
StartReady ==
    /\ ~Up
    /\ lives < MaxLives
    /\ lives' = lives + 1
    /\ task' = "scheduled"
    /\ loop_up' = 1
    /\ loop_runs' = 0
    /\ incidents_total' = NoCounts
    /\ cycles' = 0
    /\ closed' = EmptyStore
    /\ UNCHANGED <<engine, last_action, deployment, wake_at, now, acts>>

\* lifespan, up to its yield: the task is created but has not run yet. A new
\* process starts with empty memory and zeroed metrics.
Start ==
    /\ ~Up
    /\ lives < MaxLives
    /\ lives' = lives + 1
    /\ task' = "scheduled"
    /\ loop_up' = 0
    /\ loop_runs' = 0
    /\ incidents_total' = NoCounts
    /\ cycles' = 0
    /\ closed' = EmptyStore
    /\ UNCHANGED <<engine, last_action, deployment, wake_at, now, acts>>

\* build_default_engine: a new gate and a new store.
BuildEngine ==
    /\ last_action' = NoApprovals
    /\ store' = EmptyStore
    /\ UNCHANGED <<pc, pending, incident, why, results, detected, created, alerts,
                   cluster>>

\* The model has ids left for one more cycle.
Room == detected + Len(deployment.signals) <= MaxIncidents

\* _run_loop up to its first cycle
EnterLoop ==
    /\ task = "scheduled"
    /\ Room
    /\ task' = "running"
    /\ loop_up' = 1
    /\ BuildEngine
    /\ UNCHANGED <<deployment, loop_runs, incidents_total, wake_at, now, history>>

\* Mutant of Wake: the loop's condition is inverted, so its first turn is its last.
WakeUnlessUp ==
    /\ task = "sleeping"
    /\ loop_up = 0
    /\ now >= wake_at
    /\ Room
    /\ task' = "running"
    /\ BuildEngine
    /\ UNCHANGED <<deployment, loop_up, loop_runs, incidents_total, wake_at, now, history>>

\* The sleep is over: the next turn of `while True`.
Wake ==
    /\ task = "sleeping"
    /\ now >= wake_at
    /\ Room
    /\ task' = "running"
    /\ BuildEngine
    /\ UNCHANGED <<deployment, loop_up, loop_runs, incidents_total, wake_at, now, history>>

\* detect: the same fixed list in every cycle
DetectSignals ==
    /\ task = "running"
    /\ Engine!Detect(deployment.signals)
    /\ UNCHANGED <<last_action, process, now, history>>

EngineOnly(step) ==
    /\ task = "running"
    /\ step
    /\ UNCHANGED <<last_action, process, now, history>>

\* Mutant of EvaluatePolicy: every incident gets a gate with an empty memory.
EvaluatePolicyAfresh ==
    /\ task = "running"
    /\ pc = "gate"
    /\ LET key == KeyOf(incident.diagnosis, incident.signal)
           v == Evaluate(incident.diagnosis, None, now)
       IN /\ Engine!Gate(v)
          /\ last_action' = Remember(last_action, key, v, now)
    /\ UNCHANGED <<process, now, history>>

\* RiskBasedPolicyGate.evaluate, called by the engine
EvaluatePolicy ==
    /\ task = "running"
    /\ pc = "gate"
    /\ LET key == KeyOf(incident.diagnosis, incident.signal)
           v == Evaluate(incident.diagnosis, last_action[key], now)
       IN /\ Engine!Gate(v)
          /\ last_action' = Remember(last_action, key, v, now)
    /\ UNCHANGED <<process, now, history>>

\* KubernetesActuator.execute, called by the engine
Execute ==
    /\ task = "running"
    /\ pc = "act"
    /\ \E attempt \in Engine!Executions(incident, deployment.dry_run) :
          /\ attempt.result.error => deployment.cluster_fails
          /\ Engine!Act(attempt)
          /\ acts' = acts \union
                {[key |-> <<op.target, op.action>>, incident_id |-> incident.id,
                  approved_at |-> last_action[<<op.target, op.action>>], at |-> now,
                  life |-> lives, cycle |-> cycles] : op \in Range(attempt.effects)}
    /\ UNCHANGED <<last_action, process, now, lives, cycles, closed>>

CloseIncident ==
    /\ task = "running"
    /\ Engine!Finish
    /\ closed' = [closed EXCEPT ![incident.id] = incident.outcome]
    /\ UNCHANGED <<last_action, process, now, lives, cycles, acts>>

\* How many of the returned incidents ended this way.
CountOf(outcome) ==
    Cardinality({i \in DOMAIN results : results[i].outcome = outcome})

\* Mutant of EndCycle: a cycle's counts replace the total.
EndCycleOverwriting ==
    /\ task = "running"
    /\ Engine!Return
    /\ loop_runs' = loop_runs + Len(results)
    /\ incidents_total' = [o \in Outcome |-> CountOf(o)]
    /\ task' = "sleeping"
    /\ wake_at' = now + Interval
    /\ cycles' = cycles + 1
    /\ UNCHANGED <<last_action, deployment, loop_up, now, lives, closed, acts>>

\* run_once returns; every incident is counted; the task goes to sleep.
EndCycle ==
    /\ task = "running"
    /\ Engine!Return
    /\ loop_runs' = loop_runs + Len(results)
    /\ incidents_total' = [o \in Outcome |-> incidents_total[o] + CountOf(o)]
    /\ task' = "sleeping"
    /\ wake_at' = now + Interval
    /\ cycles' = cycles + 1
    /\ UNCHANGED <<last_action, deployment, loop_up, now, lives, closed, acts>>

\* A port raises: _run_loop catches CancelledError only, so the exception ends
\* the task, and nothing touches the gauge.
TaskDies ==
    /\ task = "running"
    /\ pc \in DOMAIN Engine!PortAt
    /\ Engine!PortAt[pc] \in deployment.faulty
    /\ Engine!Raise
    /\ task' = "died"
    /\ UNCHANGED <<last_action, deployment, loop_up, loop_runs, incidents_total,
                   wake_at, now, history>>

\* Mutant of Shutdown: the cancellation strikes in the middle of a cycle.
ShutdownMidCycle ==
    /\ Up
    /\ task' = "cancelled"
    /\ loop_up' = 0
    /\ UNCHANGED <<engine, last_action, deployment, loop_runs, incidents_total,
                   wake_at, now, history>>

\* lifespan after its yield: task.cancel(), delivered at the await. A task that
\* has not started yet never sets the gauge; one that died has nothing to cancel.
Shutdown ==
    /\ task \in {"scheduled", "sleeping", "died"}
    /\ task' = "cancelled"
    /\ loop_up' = IF task = "sleeping" THEN 0 ELSE loop_up
    /\ UNCHANGED <<engine, last_action, deployment, loop_runs, incidents_total,
                   wake_at, now, history>>

\* The process is killed: by the kubelet after failed liveness probes (which
\* the blocked event loop does not answer), or out of memory.
Kill ==
    /\ Up
    /\ task' = "down"
    /\ pc' = "idle"
    /\ pending' = << >>
    /\ incident' = None
    /\ why' = None
    /\ results' = << >>
    /\ store' = EmptyStore
    /\ last_action' = NoApprovals
    /\ UNCHANGED <<detected, created, alerts, cluster, deployment, loop_up,
                   loop_runs, incidents_total, wake_at, now, history>>

Tick ==
    /\ now < MaxTime
    /\ now' = now + 1
    /\ UNCHANGED <<engine, last_action, process, history>>

\* One turn of the loop, from waking up to falling asleep or dying.
LoopStep ==
    \/ EnterLoop
    \/ Wake
    \/ DetectSignals
    \/ EngineOnly(Engine!Begin)
    \/ EngineOnly(pc = "diagnose" /\ Engine!Diagnose(MockDiagnose(incident.signal)))
    \/ EvaluatePolicy
    \/ Execute
    \/ EngineOnly(\E v \in deployment.verifications : Engine!Verify(v))
    \/ EngineOnly(Engine!Replay(Engine!NoopReplay))
    \/ EngineOnly(Engine!Escalate)
    \/ CloseIncident
    \/ EndCycle
    \/ TaskDies

Next == Start \/ LoopStep \/ Shutdown \/ Kill \/ Tick

Spec == Init /\ [][Next]_vars

\* The orchestrator starts the process, the event loop runs the task whenever it
\* is ready, and time passes. Nobody has to shut the process down or kill it.
FairSpec ==
    Spec /\ WF_vars(Start) /\ WF_vars(LoopStep) /\ WF_vars(Tick)

-----------------------------------------------------------------------------
(* Safety. *)

\* The process's variables hold what the source's types allow, the engine's
\* satisfy its own type invariant, and an engine is at work only inside a cycle.
TypeOK ==
    /\ Engine!TypeOK
    /\ last_action \in [Key -> Nat \union {None}]
    /\ deployment \in Deployments
    /\ task \in Task
    /\ pc # "idle" => task = "running"
    /\ loop_up \in {0, 1}
    /\ loop_runs \in Nat
    /\ incidents_total \in [Outcome -> Nat]
    /\ wake_at \in Nat
    /\ now \in Nat
    /\ lives \in 0..MaxLives
    /\ cycles \in Nat
    /\ closed \in [Engine!Ids -> Outcome \union {None}]

\* /ready answers 200: the event loop is free to answer, and the gauge is set.
Ready == task \in {"scheduled", "sleeping", "died"} /\ loop_up = 1

\* "1 if the background loop is running" (main.py:100), "the loop task is the
\* dependency here" (main.py:128): whoever is told that the controller is ready
\* is told of a loop that will run its next cycle.
ReadyMeansLooping == Ready => task = "sleeping"

\* What does hold: nobody is told ready before this process has carried a whole
\* batch of signals through the loop, because the task sets the gauge and then
\* holds the event loop until its first cycle is over. Only a first cycle that
\* raised is reported ready without one.
ReadyMeansCycled == Ready => cycles > 0 \/ task = "died"

\* Between cycles the counter of incidents accounts, outcome by outcome, for
\* every incident finished since the process started (main.py:60-62, 97-99).
\* LOOP_RUNS is left out: it counts incidents, where its help text says cycles
\* (main.py:61, 96).
MetricsAgree ==
    task = "sleeping" =>
        \A o \in Outcome :
            incidents_total[o] = Cardinality({id \in Engine!Ids : closed[id] = o})

\* A shutdown cuts no incident in half: task.cancel() is delivered where the task
\* awaits, so every change this process made to the cluster belongs to an
\* incident that was carried on to its post-mortem and its record before the
\* task sleeps, or is stopped with the loop in order (main.py:57-66, 74-78).
\* The gauge is back at zero then; after a task that died it is not.
ChangesAreClosed ==
    task = "sleeping" \/ (task = "cancelled" /\ loop_up = 0) =>
        \A a \in acts : a.life = lives => closed[a.incident_id] # None

\* Two changes of the cluster by the same action on the same target.
Repeated(a, b) ==
    a.key = b.key /\ a.life = b.life /\ a.incident_id < b.incident_id

\* Inside one cycle the gate and the engine together keep automated actions on
\* one target apart, however many signals ask for them and however long the
\* stages of each take (gate.py:22-23): a change comes at least the cooldown
\* after the approval of the one before it. The gate counts from the approval;
\* how long the cluster call takes after it comes off the distance between the
\* changes themselves.
SpacedWithinCycle ==
    \A a, b \in acts :
        Repeated(a, b) /\ a.cycle = b.cycle => b.at - a.approved_at >= Cooldown

\* "minimum time between automated actions on the same target+action"
\* (gate.py:76) for as long as the process lives.
SpacedAcrossCycles ==
    \A a, b \in acts : Repeated(a, b) => b.at - a.approved_at >= Cooldown

\* "Safe by default: real autonomy is opt-in" (main.py:36): in dry-run nothing
\* is changed, whatever the gate approves and whatever fails, and no incident
\* claims that something was executed or resolved.
DryRunHarmless ==
    deployment.dry_run =>
        /\ acts = {}
        /\ \A id \in Engine!Ids :
              /\ cluster[id] = << >>
              /\ closed[id] # "resolved"
              /\ Engine!Saved(id) =>
                    /\ store[id].verification = None
                    /\ store[id].action_result # None => ~store[id].action_result.executed

-----------------------------------------------------------------------------
(* Liveness. *)

\* The sleeping task wakes up for its next cycle, unless the process is stopped
\* first (or the model's clock or ids are used up).
LoopKeepsCycling ==
    task = "sleeping" /\ wake_at <= MaxTime /\ Room ~> task = "running" \/ ~Up

=============================================================================
