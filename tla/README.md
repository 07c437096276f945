# TLA+ models of resilience-events

resilience-events is a small platform of four HTTP services with their probes, alert rules and
deployment, and a *remediation controller*: a loop that detects faults in the services, has a
rule table or a language model propose a remedy, lets a deterministic policy gate decide whether
the remedy may run without a human, carries it out, verifies the recovery, replays lost requests,
and leaves a post-mortem. The controller holds most of the program's own logic, and most of these
modules are about it; two more are about the services: how their pods start and stay in service,
and how their requests are served.

Paths below are relative to `src/services/remediation-controller/app/` unless they start with `src/`.

## 1. The system

| Part | State it keeps | Operations | Modelled in |
|---|---|---|---|
| domain model `core/models.py` | none; `Incident` is an immutable record | `with_*`, `_audit`, `complete` | `RemediationModels` |
| engine `core/engine.py` | none between calls; within `run_once` the incident in process and the results so far | `run_once`, `_process`, `_do_escalate`, `_finish` | `RemediationEngine` |
| policy gate `adapters/policy/gate.py` | `_last_action`, the cooldown memory | `evaluate` | `PolicyRules`, `PolicyGate` |
| actuator `adapters/actuators/kubernetes.py` | the cluster (external) | `execute` | `Actuator` |
| replayers `adapters/replayers/redpanda.py` | none | `replay` | `Replayer` |
| diagnosers `adapters/diagnosers/` | none | `diagnose`, `_parse` | `Diagnosers`, `DiagnosisPipeline` |
| escalators, post-mortem writers, store | alerts delivered; incidents by id | `escalate`, `write`, `save` | `RemediationEngine` |
| background loop and probes `main.py`, `wiring.py` | the task, `LOOP_UP`, `LOOP_RUNS`, `INCIDENTS` | `lifespan`, `_run_loop`, `/ready` | `RemediationController` |
| detectors, verifiers `adapters/detectors/`, `adapters/verifiers/` | the rules they were given | `detect`, `_severity`, `verify` | `MetricThresholds`, `DiagnosisPipeline` |
| events-api, catalog-api, anomaly-ai: the pod | a database each (external), a pool of connections | start-up with migrations, `/health`, `/ready` | `ServicePod` |
| the same: requests | the rows, the calls in process, the request counters | create, get, list, `/ready`, the counting middleware | `ServiceRequests` |
| edge-gateway | the request counters (otherwise a stub) | static answers, the counting middleware | `ServiceRequests` |
| `src/deploy/`: probes | configuration | startup, liveness, readiness | `ServicePod` |
| `src/deploy/`: the rest | configuration | burn-rate alerts, alert routing, GitOps | not modelled |

How the parts meet. `main.py` starts one asyncio task. Each turn of it builds an engine with new
adapters (`wiring.py`), calls `run_once`, which is synchronous and calls the nine ports in order,
counts the incidents it returns, and sleeps. While `run_once` runs, the event loop answers no
probe. The engine never catches an exception; the task catches `CancelledError` only. The gate
remembers approvals under (target, action), so several signals of one batch meet each other
through it. The readiness probe reads a gauge that the task sets. A service listens only after it
has reached its database once; from then on its `/health` ignores the database, its `/ready` asks it.
A request passes the boundary's validation, the domain's factory and the repository; a middleware
around all of it counts the answer by code for the SLO rules and dashboards. The calls of a process
meet in the database and in the counters only.

What is hard here, and therefore what the properties are about (the full list, with its lines, is
`hazards` in `PROJECT.json`):

* **A stage fails half way.** A port raises after the cluster was changed; a cluster call raises
  after it took effect; the escalator raises before or after the alert went out.
* **A path through the stages that ends wrong.** There are a dozen ways through `_process`; each
  must end in the right outcome, with a human told exactly when one has to be, and with the whole
  history on record.
* **State that does not live long enough, or too long.** Cooldowns and incidents live in an engine
  that is rebuilt every cycle; a gauge outlives the task it speaks of.
* **Boundaries and orders.** The ladder's rules in their order, `<` against `<=` at the cooldown and
  the threshold, a clock that is stepped, a confidence that is not a number.
* **Answers and what they stand for.** A commit whose acknowledgement is lost, a client that leaves
  during its insert, a process that dies before it answers; listings beside inserts; errors that
  raise past the code that should count them; a boundary and a domain that disagree.
* **Time-outs that race.** Retries with a backoff under a startup probe; an outage that falls
  between two probes, or a database that comes back just at one; another pod that wins the race for
  the tables.
* **Progress.** `run_once` must come back, every signal must be closed, the loop must go on.

What makes each part correct: the engine is fail-safe, never changes the cluster without an
approval for that very action and target, changes it at most once per incident, and leaves a record; the
gate approves nothing outside its policy, keeps repeated approvals apart, and denies for a
cooldown only where there was an approval; the diagnosers never turn doubt into a remedy; the
loop's metrics and readiness say what is the case; a service's answer tells the truth about what was
stored, its reads are current and bounded, its counters agree with its answers.

## 2. The modules

**`RemediationModels`** - vocabularies, payloads, `Incident`, and the `with_*` helpers. A stage field
that is `None` in Python is the model value `None`, told apart from all data by `NoneAssumption`.
Abstracted: prose; a policy reason is the rule it comes from, an action error is there or not, a
signal's text is the set of fault patterns it matches, a confidence is a whole percentage.

**`PolicyRules`** - `RiskBasedPolicyGate.evaluate` as a function of the diagnosis, the memory's entry
for its key, and the clock; `Remember` is the write that only the last rung performs.
**`PolicyGate`** is that gate over a sequence of evaluations: `Submit` is `evaluate`, `Tick` lets time
pass, `Adjust` corrects the wall clock. `elapsed` is true time, which the code cannot see, and `log`
is history.

**`Actuator`**, **`Replayer`** - the sets of results `execute` and `replay` can return; for the actuator
together with the changes the call really made, a sequence of operations, because a call that raised may
have taken effect, and a call made twice would be two changes. One call of the cluster's client, which is
external, is taken to apply its operation at most once.

**`RemediationEngine`** - `run_once`, one step per call to a port: `Detect`, `Begin` (`_new_incident`),
`Diagnose`, `Gate`, `Act`, `Verify`, `Replay`, `Escalate` (`_do_escalate`), `Finish` (`_finish`), `Return`,
and `Raise`, an exception leaving a port. `Draft` is what both post-mortem writers compute. `pc` is the port that is called next. Steps are this fine
because a port may raise, and because the world outside moves on, between two calls. The ports
are the environment: an action takes the port's answer as its parameter, and `Next` quantifies
over the answers. Ports that can raise: the LLM client behind the diagnoser, the verifier's query,
the replayer's fetch, the escalator's send. The detector's query is guarded in the code, the gate,
the writers and the in-memory store only compute, and the actuator turns exceptions into results.
Ids are numbers in the order of creation; in the code they are random and never repeat. `cluster` and
`alerts` hold, for each id, the sequence of operations made and of alerts delivered for it, so that a
repetition is seen.

**`IncidentLifecycle`** - what the loop promises, without saying how: an incident is opened once,
may have the world changed for it once and before anybody is told, and closes as resolved
(changed, nobody told), escalated (a human told) or needing nothing (neither).
**`EngineImplementsLifecycle`** maps the engine to it: an incident's status is the saved outcome, or
open while it is in process, or abandoned when a port raised. How often an incident was touched and told
of are counts that the lifecycle keeps at zero or one; the engine's are the lengths of its sequences, so a
second change or alert is no stutter.

**`PythonFloats`** - Python's `<`, `<=`, `min` and `max` with their behaviour on NaN.
**`Diagnosers`** - the rule table; and the parser of a model's text, reduced to whether the text is a
JSON object, the action and confidence that object gives, and the allowlist tokens in the text.
**`MetricThresholds`** - `PrometheusDetector` (rules, failed queries, severities) and `ThresholdVerifier`.
**`DiagnosisPipeline`** composes these with the gate: `Detect` or `DetectStatic`, whose batch is the set of
what they report, `Begin` with one signal of it (the engine takes them all in turn, and `RemediationEngine` models that), `Diagnose`, `Gate`,
and `Verify`, before which the metric may have become anything. A signal's value and threshold are
here and not in `RemediationModels`, because no other stage decides by them.

**`RemediationController`** - the process, deployed in one of several ways (`Deployment`: signals, dry
run or not, what verifier and ports may do). It instantiates `RemediationEngine` and drives it with the
wired adapters: `EnterLoop` and `Wake` build a new engine, `EvaluatePolicy` joins the engine's gate
stage with the real ladder and memory, `Execute` its act stage with the clock, `EndCycle` counts and
goes to sleep, `TaskDies` is an exception reaching the task, `Shutdown` is `task.cancel()` wherever an
await can receive it, `Kill` and `Start` are the kubelet's. `closed`, `acts`, `cycles`, `lives` are history.

**`ServicePod`** - the pod of one of the three services, second by second, with the figures of the code
and the charts: `Connect`, `MigrationFails`, `NextAttempt`, `GiveUp` are the loop of
`ApplyMigrationsWithRetryAsync` in `src/services/events-api/Program.cs`, `ConnectionFatal` and
`LifespanRaises` the failed start of the other two, `LoseTheRace` a table creation that another pod of a
rolling update was quicker with, `StartupProbe`, `Probe` and `Restart` the kubelet's,
`DatabaseGoes` and `DatabaseComes` the database's; `MeetDeadConnection` is a request of anomaly-ai that
finds a pooled connection dead. `stale` counts for how long traffic has gone to a pod without a
database. `hung` and `ended` are history.

**`ServiceRequests`** - one process of a service and its concurrent calls. Its first part are the rules
in which the four services differ: what the boundary refuses (`Refused`: FluentValidation, the JSON
decoder, pydantic), what the factory refuses by raising (`FactoryRaises`), how values are normalised
(`NormalLabel`, `NormalText`, `RowOf`), the cap on listings (`Clamp`, `LimitOf`), what leaves a handler as an
exception (`Propagates`), and what the middleware counts (`CountedAs`). The second part is the course
of a call: `Create`, `List`, `Get`, `Ready`, `Greet` run a handler up to its call of the database; `Insert`,
`Read`, `Find`, `Ping` are the database's execution, `Acknowledge` the driver hearing of an insert,
`DatabaseFails` an error of the driver, `Cancel` a client that left while its token or context was in the
driver's hands, `Answer` the middleware and the answer. `Kill` and `Restart` end and renew the process. Of a
text only what the rules tell apart is kept; an identifier is the number of the call that made the
row; a stamp is a clock reading with the precision of the column, so two rows may share one (MySQL's
`DATETIME` keeps seconds). events-api's counting library is external, and may label a call whose
handler raised 200 or 500; `CountedAs` allows both.

Definitions named in a comment as a *mutant* are not part of the models: each is a plausible
mistake in the definition after it, kept to show that a property would notice it.

## 3. The runs

| Run | Question | Result |
|---|---|---|
| `PolicyGate` | Does the gate keep its policy and its cooldown, with every kind of proposal, a risk map with gaps, and a clock set back? | holds |
| `Engine_live` | Without raising ports: is the loop fail-safe, is every change on record, is every signal closed, is no history lost? | holds |
| `Engine_faults` | With any port raising anywhere: do alerts, records and changes that exist still agree? is an incident changed for at most once? does `run_once` end? does it implement the lifecycle, with abandonment? | holds |
| `Pipeline_guardrail` | From metric to verification: is any metric that crossed its threshold hidden or passed over, do detector and verifier agree, is more made of a model's answer than it says, which signals can lead to an action without a human? | holds |
| `Controller` | Four deployments through restarts, shutdown and kills: readiness, spacing inside a cycle, exact incident counters, a harmless dry run, no change left without its incident by a shutdown, a loop that goes on | holds |
| `ServicePod` | Through outages, hanging calls, lost races and restarts: traffic only with tables, and only as long as the database is there; no restart for an outage; a late database is no trouble in the end | holds |
| `Requests` | Through outages, lost acknowledgements, leaving clients and kills: true answers, current and bounded reads, counters that agree, every call answered | holds |
| `Engine_lost_trail` | Does every change leave a record when the verifier raises? | violated |
| `Pipeline_nan` | Is a confidence that is no number never acted on? | violated |
| `Controller_dead_loop` | Does ready mean that the loop runs, when a port raises? | violated |
| `Controller_cooldown_reset` | Does the cooldown hold across cycles? | violated |
| `Requests_uncounted` | Is every answer counted, errors included? | violated |

The five violated properties state what a comment or docstring of the repository says; the line and
the disagreement are under `findings` in `PROJECT.json`. In short: exceptions from a port are caught
nowhere on the way up (`engine.py:150`, `main.py:64`); the engine, and with it cooldowns and store, is
rebuilt every cycle (`main.py:59`); `min(1.0, nan)` is `1.0` (`llm.py:110`); and anomaly-ai's middleware
never gets past a handler that raised (`src/services/anomaly-ai/app/main.py:45`).

Further disagreements have no run of their own, and no passing run states the opposite. The parser's
text scan also runs after well-formed JSON that names an action off the list, and the one allowlist
word it finds keeps that JSON's confidence and may be approved (`llm.py:91-94`), where `llm.py:70` promises an
escalation; `OnlyWhatWasSaid` admits it and says so. `LOOP_RUNS` counts incidents (`main.py:61`), two for a
cycle with two signals and none for one without, where its help text says cycles (`main.py:96`); it is in
the model, and `MetricsAgree` is about `INCIDENTS` alone. The cooldown is measured by a wall clock
(`gate.py:39-40`, `132`), so a clock stepped *ahead* ends it early; the run steps the clock back only, and
`SpacingHolds` names the restriction as its hypothesis. The store of a
cycle is dropped with its engine although `core/ports.py:162` speaks of later audits. The gate records
approvals where `core/ports.py:79` asks for one "side-effect free", and arms its cooldown
by approval, not by action (`gate.py:158`), so that in dry-run a signal can be denied for an action
nobody took, where `gate.py:22` says "if we acted". In the services: ten migration attempts that each
hang for SqlClient's fifteen seconds, with their waits, need 260 seconds where the startup probe
allows 150, so the "explicit" failure of `src/services/events-api/Program.cs:91` is then never reached
(`KilledOnlyIfHung` says when it is); and `pool_recycle` does not avoid dead connections after an
outage as `src/services/anomaly-ai/app/db.py:20` hopes: the first call on each fails.

### Bounds, and why they suffice

* *Engine*: two signals, batches of up to two, two incidents in all, so an incident can meet another
  of the same batch, one of a later call, and an exception that takes the other with it. The engine
  keeps nothing from incident to incident but the batch, the results and the store, so a third shows
  nothing new. Proposals cover each kind the engine tells apart, with and without an explicit
  target; at most one lost request (`MaxLost`) tells complete from partial.
* *Gate*: three evaluations by up to ten proposals, a cooldown of two ticks, three ticks of time, in which the clock may be
  set back: an
  approval, a denial in between and the next approval, on both sides of the boundary, with another
  key between them.
* *Pipeline*: two rules, thresholds of zero and above, readings at and on both sides of every boundary
  of a severity and NaN, so that a failing query can stand before and after one that crossed; for the
  static detector all severities and pattern sets; replies with at most two tokens, and confidences at
  both ends of the range, around the threshold and not a number.
* *Controller*: four deployments - the shipped dry run, a dry run whose ports may raise, real
  execution of two faults of one service, with and without failing calls - up to two cycles, two
  lives, three ticks. `MaxIncidents`, `MaxTime`, `MaxLives` only cut
  behaviours short; `LoopKeepsCycling` says so in its premise.
* *Pod*: all three services, the figures as they are, two outages: one can fall into the start and
  one into the service, or both between the same two probes. Failing calls take no time or as long as
  the driver's limit; between the two only the number of attempts changes. Another pod matters once,
  for the tables.
* *Requests*: all four services, two calls that overlap in every way, up to two rows from before, one
  outage and one death of the process; the cap is 2 and the default 1 instead of 200 and 50, with
  limits below, at and above both and one that is no number. Two calls are enough for an insert
  beside a listing, a listing after an acknowledgement, and a call on either side of a kill; three rows
  exceed the cap.

### Fairness

The engine's `FairSpec` assumes that `run_once`, once called, keeps running (it is straight-line
synchronous code) and that every call to a port comes back, with an answer or an exception; a client
that waits for ever is not modelled. Nothing forces a call of `run_once`. The controller's assumes that the process is started, that the event loop
runs the task when it is ready, and that time passes. Shutdown, kill and exceptions are never
forced. The pod's assumes that the process runs, that the kubelet probes and restarts, and that time
passes; nothing makes the database come back, and `LateDatabaseIsNoTrouble` speaks of the behaviours
in which it does for good. The requests' assumes that the process works on each call it has accepted
and that every call of a driver comes back with a result or an error, which the drivers' own limits
provide (catalog-api and anomaly-ai set none for writes and listings); clients owe nothing. Deadlock
is checked in the engine's and the pod's runs; the other models stop when a bound is used up or, in
the pipeline, when the verdict is there.

## 4. The proofs

Every safety invariant and every action property that a passing run checks is also a theorem,
`Spec => []P` or `Spec => P` for every value of the constants that the named assumptions of the
modules admit. `TypeOK` of each component is among them (`TypeCorrect` for gate and engine,
`TypesHold` elsewhere) and is not mentioned again below. The assumptions say only that constants have the types
the code gives them (`PolicyAssumption`, `GateAssumption`, `EngineAssumption`, `ControllerAssumption`, ...), that a listing's
cap is at least one and its default within it (`RequestsAssumption`), and that the values standing for `None`, `nan` and a name
off the allowlist are no ordinary values (`NoneAssumption`, `EscalationAssumption`, `NaNAssumption`,
`OffListAssumption`). Bounds such as `MaxIncidents` or `MaxCalls` are arbitrary
numbers in the theorems. Two theorems have a hypothesis of their own, `SpacingHolds` and
`ChangesLeaveATrail`; both hypotheses are needed.

**`PolicyGateProofs`**, for every policy, every set of proposals, every history:

* `CooldownHolds`, from the invariant `Remembered`: an approved key has an entry in the memory, and
  the entry is at least as late as every approval of that key in the history. It is needed because
  the gate compares with the memory only, never with the approvals themselves; and it is what makes
  a clock that is set back harmless, since no new approval can then slip in before an old one.
* `SpacingHolds`, the same in true time, under the assumption that the clock is never stepped
  ahead, from the invariant `NeverGains`: the wall clock has not gained on true time
  since any evaluation of the history.
* `ApprovalsWithinPolicy` and `DenialsHaveACause`, from what one evaluation returns
  (`ApprovalMeans`) and from `Sourced`: an entry of the memory is the time of an approval of its key.

**`RemediationEngineProofs`**, for every set of signals, proposals and verdicts, with any ports raising:

* `TypeCorrect`. Type correctness needs one more fact to be inductive (`Diagnosed`): an incident that
  has reached the gate has a diagnosis, which the actuator reads. `TypeInvStep` states the step for any
  batch and any dry-run setting, so that the controller can use it for its deployments.
* `ApprovedOnly`, from the invariant `MutationInv`. `OnlyApprovedMutations` speaks of the record of
  an operation's incident, which moves from `incident` to `store`, or is lost when a port raises; so
  the invariant adds that the incident in process is the last one created and not yet saved
  (`FreshId`: a new incident cannot take over an old one's operations), that the incident in
  process has changed nothing before its actuator call (`ActedLate`: whatever a verdict does to it
  then contradicts no operation), and that the actuator
  is called with an approved incident only (`ApprovedFirst`). The lemmas `BeforeActing`,
  `FromActing` and `LettingGo` are the three phases of an incident.
* `ChangedOnce`, from the same invariant and `ChangedAtMostOnce` itself: no operation is counted before
  the actuator is called (`ActedLate`), one call adds at most one (`Executions`), no path
  comes back to the actuator, and a new incident has an id that nothing was changed for (`FreshId`).

**`EngineRecordProofs`**, likewise, about what is on record. The invariant `RecordInv` has four parts:

* `InProcessInv` places the incident in process: its stages were filled in order, it has reached the
  stage that is called next, its timeline is that of its stages, nobody has been told of it until
  it waits for its closeout, and the reason held for the escalator is the one its stages give.
* `SavedInv` says what a saved incident tells: that it ended in one of the ways `_process` has, that
  a human was told exactly if it says so, and that the post-mortem was written from it as it was.
* `AlertsKnown`: alerts are about incidents that were created, so a new one starts with none.
* `ChangesOnRecord`: a change and its incident's record name the same action and target. The record
  may only be missing if a port after the actuator raised.

None of the properties is inductive without the first part, since each speaks of the saved incident
and `_finish` saves what all stages before it have left. From `RecordInv` follow `FailsSafe`, `AlertsTellWhy`,
`UncertaintyEscalated`, `AuditsComplete` and, if only the diagnoser may raise, `ChangesLeaveATrail`; the run
`Engine_lost_trail` is the counterexample without that hypothesis. `HistoryKept` is an action property: it
is proved enricher by enricher, with the lemmas on prefixes of timelines.

**`EngineLifecycleProofs`**: `EngineImplements`, `Spec => Lifecycle!Spec`. With the three invariants above each
step of the engine is mapped to opening, touching, telling, closing or abandoning an incident, or to
a stutter; one lemma for each kind. The invariants are needed for the guards of the abstract steps:
that nothing was changed before (`ActedLate`), that nobody was told before the change
(`InProcessInv`), and that the outcome fits what happened (`Ended`).

**`RemediationControllerProofs`**, for every deployment, policy, number of signals, cycles and lives. The
module instantiates the engine's proofs with the wired adapters (`Facts`), shows that vocabulary and
actions are the same (`SameSets`, `SameActions`), and has the engine's types from there:

* `ReadyAfterACycle`, from `Warmed`: the gauge is reset until the loop is entered, and the task only
  sleeps after a cycle.
* `CooldownKept`, from `SpacedInv`: ids grow and a change belongs to an id already given out (`Numbered`),
  the gate's memory is at least as late as every approval of this cycle's changes (`Remembered`), and
  an incident on its way to the actuator was approved a cooldown after them (`Approved`). It holds
  inside a cycle because only a new cycle empties the memory; `Controller_cooldown_reset` shows the rest.
* `MetricsAddUp`, from `Counted`: while a cycle runs, what is counted and what is in `results` together
  are what was closed, outcome by outcome. The lemmas `ClosingCounts` and `CountsKept` are on cardinalities.
* `ShutdownLosesNothing`, from `Settled`: only the incident in process may have a change that is not closed
  yet, and the task is cancelled only where it awaits, with no incident in process. The gauge is part of
  the invariant, since by it a task stopped in order is told from one that had died.
* `DryRunsAreHarmless`, from `Harmless`: in dry-run no incident gets as far as to be verified.

**`DiagnosisPipelineProofs`**, for any rules, readings, replies and policy. `Derived` says that each stage's
value is the one computed from those before it, which are still there. The properties then follow
from what the stages compute: `ClampBounds`, `MockTypes`, `NamedTypes`, and the severity grades of a reading that
crossed. `CrossingsAreReported`, `RecoveredMeansQuiet`, `DatabaseToAHuman`, `NothingReadIn`.

**`ServicePodProofs`**, for every set of services, every time after which a call may fail, any number of
outages:

* `StopsInTime`, `NeverServesBlind` and `NeverRestarted`, from the invariant `PodInv`. Its core is
  `Accounted`: the readiness failures in a row account for the time traffic has gone to a pod
  without a database (`stale + probe_in <= 10 * (unready + 1)`). The bound of 30 seconds is not
  inductive without it, since it says nothing of the next probe.
* `KilledOnlyForHanging`, from `Patient`: as long as no call has hung, a container in its *n*th attempt has
  been starting for at most `n * (n - 1)` seconds, the sum of its waits so far. Ten attempts make 110
  seconds at most, less than the probe's 150.

**`ServiceRequestsProofs`**, for any number of calls, rows from before, outages and kills, and any cap:

* `AnswersAreTrue` and `ReadsSeeWhatIsKnown`, from `RequestsInv`. It says of every call on its own what it has
  stored (`Stored`), what it was told and will be told (`Reads`, `Current`), and that it is open only as long
  as the process lives (`InProcess`). What a call knows are rows, and rows stay, so a step of another
  call disturbs none of this (`OneCallMoves`, `OthersKept`); but a call's row must be told from other
  calls' (`RowsKept`: no two rows of one call). The lemma `AcceptedIsSound` compares the boundary's
  rules with the domain's, service by service.
* `CountersTellTheAnswers`, from `ByCode` and `InTotal`: each counter is the cardinality of a set of answered
  calls. The sum over the codes is written out in the model (`Total`), since a fold over a set could not be proved about.

Model-checked only: every property with fairness. These are `EverySignalIsClosed`, `RunOnceEnds`,
`LoopKeepsCycling`, `LateDatabaseIsNoTrouble`, `EveryCallIsAnswered`, and of `ImplementsLifecycle` the part that says that no incident
stays open for ever. The prover used has no rules for fairness. The five violated properties are
counterexamples and have nothing to be proved.

## 5. Not modelled

* Dashboards, GitOps manifests, compose files and development databases: configuration of third-party
  software. Alert rules and routing likewise; what the rules count is `ServiceRequests`' `EndpointOf`. The
  one route of `alertmanager-slack-config.yaml` takes alerts with `service = events-api` only, and an
  escalation carries its signal's source as `service` (`slack.py:31`), so an escalation of another service
  matches no route of this repository; what Alertmanager does then is not in it.
* The write-ahead log, offset windows and checkpoints that `adapters/replayers/redpanda.py` describes: a
  design text without code. So is the idempotence of re-processing a record.
* LLM clients beyond a call that raises or returns any text: building HTTP requests is I/O.
* `/health` and `/metrics`, which change and ask nothing; the duration histograms, which are written
  where the counters are; the number of label values a counter may have.
* In `ServiceRequests`: an event dated up to five minutes ahead, which the validator admits and no property
  depends on; an error of a driver while its database is up, which would end in the same 500; the moment
  between counting an answer and sending it (events-api's library counts after the response). In
  `ServicePod`: a call begun in an outage that fails although the database has come back.
* Two controllers during a rolling update, each with its own memory: the code promises nothing across
  processes (`gate.py:95-98`).

Details: `components` and the notes under `hazards` in `PROJECT.json`.

## 6. Plan

Done: the controller's models, the gate, the engine with its abstract specification, the pipeline
from metric to verification, the process in its deployments, the services' pods and their requests;
and, as theorems, all their safety and action properties and the safety part of the refinement.

Next, in this order:

1. The controller as an implementation of its parts: each of its steps one of `RemediationEngine` or
   of `PolicyGate`, or neither, so that their theorems carry over as theorems and not as lemmas.
2. What holds across cycles of the alerts and records that a new engine forgets.
3. The same proofs with fewer steps where a lemma can be shared.
