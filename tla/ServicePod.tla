------------------------------ MODULE ServicePod ------------------------------
(***************************************************************************)
(* The pod of a service that stands on a database (events-api on SQL       *)
(* Server, catalog-api on MongoDB, anomaly-ai on MySQL): how its process   *)
(* starts while the database may be away, and how the kubelet, which only  *)
(* sees the probes of the pod's chart, restarts it and sends it traffic.   *)
(*                                                                         *)
(* All three services listen only after they have reached their database   *)
(* once: before that no probe is answered. Afterwards /health does not     *)
(* look at the database and /ready does.                                   *)
(*                                                                         *)
(* One step of time is a second. An answer of the database, a migration    *)
(* and an HTTP answer take less than that. The databases keep their data   *)
(* (their charts claim volumes); the kubelet and the drivers are modelled  *)
(* from the values the charts and the code give them.                      *)
(***************************************************************************)
EXTENDS Integers

CONSTANTS
    Services,      \* the services modelled
    FailsAfter,    \* per service: after how many seconds a call may find out
                   \* that the database is away
    MaxOutages     \* bound on the outages of the database

Service == {"events-api", "catalog-api", "anomaly-ai"}

ASSUME ServicePodAssumption ==
    /\ Services \subseteq Service
    /\ \A s \in Services : FailsAfter[s] \in SUBSET Nat /\ FailsAfter[s] # {}
    /\ MaxOutages \in Nat

VARIABLES
    service,      \* which service this pod runs
    phase,        \* "exited", "connecting", "waiting" (between attempts), "serving"
    attempt,      \* the number of the attempt at migrating
    due,          \* seconds until the call fails, or until the wait is over
    dead,         \* the connections pooled by anomaly-ai are of before an outage
    hung,         \* history: a call of this container did not fail at once
    ended,        \* history: how the last container ended
    started,      \* the startup probe has succeeded
    probe_in,     \* seconds until the next probe
    failures,     \* failures in a row of the startup, then of the liveness probe
    unready,      \* failures in a row of the readiness probe
    in_service,   \* the pod is in the service's endpoints
    db_up,        \* the database answers
    schema,       \* the tables exist
    outages,      \* how often the database went away
    stale         \* for how long traffic has gone to a pod without a database

startup  == <<phase, attempt, due, hung>>
process  == <<startup, dead>>
kubelet  == <<started, probe_in, failures, unready, in_service>>
database == <<db_up, outages>>
vars == <<service, process, ended, kubelet, database, schema, stale>>

Phase == {"exited", "connecting", "waiting", "serving"}

-----------------------------------------------------------------------------
(* What the code and the charts fix. *)

\* maxAttempts of ApplyMigrationsWithRetryAsync
MaxAttempts == 10

\* Mutant of Backoff: it doubles at every attempt.
BackoffDoubling(n) == 2 ^ n

\* Linear backoff: TimeSpan.FromSeconds(2 * attempt), also after the last one
Backoff(n) == 2 * n

StartupPeriod == 5

\* failureThreshold of the startup probe
StartupThreshold(s) == IF s = "events-api" THEN 30 ELSE 20

ProbePeriod == 10
ProbeThreshold == 3

\* Mutant of Healthy: /health looks at the database too.
HealthyIfReady == phase = "serving" /\ db_up

\* GET /health: the process listens, "does NOT touch the DB"
Healthy == phase = "serving"

\* Mutant of Ready: /ready answers like /health.
ReadyIfHealthy == phase = "serving"

\* GET /ready: the database answers, on a connection that still lives. A call
\* that hangs outlives the probe's timeout.
Ready == phase = "serving" /\ db_up /\ ~dead

-----------------------------------------------------------------------------
(* The process. *)

\* What a container starts with: the first call to the database is under way.
Starting(s) ==
    /\ phase' = "connecting"
    /\ attempt' = 1
    /\ due' \in FailsAfter[s]
    /\ hung' = (due' > 0)
    /\ UNCHANGED dead

\* The process is gone, by itself or by the kubelet: the pod leaves the endpoints.
End(how) ==
    /\ phase' = "exited"
    /\ ended' = how
    /\ attempt' = 0
    /\ due' = 0
    /\ dead' = FALSE
    /\ hung' = hung
    /\ started' = FALSE
    /\ probe_in' = 0
    /\ failures' = 0
    /\ unready' = 0
    /\ in_service' = FALSE
    /\ stale' = 0
    /\ UNCHANGED <<service, database>>

Init ==
    /\ service \in Services
    /\ phase = "connecting"
    /\ attempt = 1
    /\ due \in FailsAfter[service]
    /\ hung = (due > 0)
    /\ dead = FALSE
    /\ ended = "never"
    /\ started = FALSE
    /\ probe_in = StartupPeriod
    /\ failures = 0
    /\ unready = 0
    /\ in_service = FALSE
    /\ db_up \in BOOLEAN
    /\ schema = FALSE
    /\ outages = 0
    /\ stale = 0

\* Mutant of Connect: the server listens without waiting for the migrations.
ConnectBlindly ==
    /\ phase = "connecting"
    /\ phase' = "serving"
    /\ due' = 0
    /\ schema' = db_up
    /\ UNCHANGED <<service, attempt, hung, dead, ended, kubelet, database, stale>>

\* The database answers: the migrations are applied (or the tables created, or
\* the ping returns), and the server starts to listen.
Connect ==
    /\ phase = "connecting"
    /\ db_up
    /\ phase' = "serving"
    /\ due' = 0
    /\ schema' = TRUE
    /\ UNCHANGED <<service, attempt, hung, dead, ended, kubelet, database, stale>>

CallFails == phase = "connecting" /\ ~db_up /\ due = 0

\* events-api: MigrateAsync throws; the next attempt waits, the last one does too
MigrationFails ==
    /\ service = "events-api"
    /\ CallFails
    /\ phase' = "waiting"
    /\ due' = Backoff(attempt)
    /\ UNCHANGED <<service, attempt, hung, dead, ended, kubelet, database, schema, stale>>

\* Mutant of NextAttempt: the loop has no end.
NextAttemptEndless ==
    /\ phase = "waiting"
    /\ due = 0
    /\ phase' = "connecting"
    /\ attempt' = attempt + 1
    /\ due' \in FailsAfter[service]
    /\ hung' = (hung \/ due' > 0)
    /\ UNCHANGED <<service, dead, ended, kubelet, database, schema, stale>>

\* events-api: the wait is over and the loop goes round
NextAttempt ==
    /\ phase = "waiting"
    /\ due = 0
    /\ attempt < MaxAttempts
    /\ phase' = "connecting"
    /\ attempt' = attempt + 1
    /\ due' \in FailsAfter[service]
    /\ hung' = (hung \/ due' > 0)
    /\ UNCHANGED <<service, dead, ended, kubelet, database, schema, stale>>

\* events-api: "we fail explicitly (don't start up blind)"
GiveUp ==
    /\ phase = "waiting"
    /\ due = 0
    /\ attempt = MaxAttempts
    /\ End("gave_up")
    /\ UNCHANGED schema

\* catalog-api: log.Fatalf when the ten seconds of its context are over
ConnectionFatal ==
    /\ service = "catalog-api"
    /\ CallFails
    /\ End("gave_up")
    /\ UNCHANGED schema

\* anomaly-ai: create_all raises inside lifespan, so the server never starts
LifespanRaises ==
    /\ service = "anomaly-ai"
    /\ CallFails
    /\ End("gave_up")
    /\ UNCHANGED schema

\* anomaly-ai: another pod of a rolling update creates the table between
\* create_all's look for it and its own CREATE TABLE, which then raises. (The
\* migrations of events-api take a lock in the database; catalog-api has no tables.)
LoseTheRace ==
    /\ service = "anomaly-ai"
    /\ phase = "connecting"
    /\ db_up
    /\ ~schema
    /\ schema' = TRUE
    /\ End("gave_up")

-----------------------------------------------------------------------------
(* The kubelet. *)

\* The container is started again, after a back-off of the kubelet's own.
Restart ==
    /\ phase = "exited"
    /\ Starting(service)
    /\ probe_in' = StartupPeriod
    /\ UNCHANGED <<service, ended, started, failures, unready, in_service,
                   database, schema, stale>>

\* Until it has succeeded, only the startup probe runs.
StartupProbe ==
    /\ phase # "exited" /\ ~started /\ probe_in = 0
    /\ \/ /\ Healthy
          /\ started' = TRUE
          /\ failures' = 0
          /\ probe_in' = 0
          /\ UNCHANGED <<service, process, ended, unready, in_service, database,
                         schema, stale>>
       \/ /\ ~Healthy
          /\ failures + 1 < StartupThreshold(service)
          /\ failures' = failures + 1
          /\ probe_in' = StartupPeriod
          /\ UNCHANGED <<service, process, ended, started, unready, in_service,
                         database, schema, stale>>
       \/ /\ ~Healthy
          /\ failures + 1 = StartupThreshold(service)
          /\ End("killed")
          /\ UNCHANGED schema

\* Mutant of Readiness: a pod that was taken out is not put back.
ReadinessLatched ==
    \/ /\ Ready
       /\ unready' = unready
       /\ in_service' = (unready < ProbeThreshold)
    \/ /\ ~Ready
       /\ unready' = IF unready < ProbeThreshold THEN unready + 1 ELSE unready
       /\ in_service' = (in_service /\ unready' < ProbeThreshold)

\* The readiness probe's effect on the endpoints: one success puts the pod in,
\* three failures in a row take it out.
Readiness ==
    \/ /\ Ready
       /\ unready' = 0
       /\ in_service' = TRUE
    \/ /\ ~Ready
       /\ unready' = IF unready < ProbeThreshold THEN unready + 1 ELSE unready
       /\ in_service' = (in_service /\ unready' < ProbeThreshold)

\* Liveness and readiness are probed, each every ten seconds.
Probe ==
    /\ started /\ probe_in = 0
    /\ \/ /\ ~Healthy
          /\ failures + 1 = ProbeThreshold
          /\ End("killed")
          /\ UNCHANGED schema
       \/ /\ Healthy \/ failures + 1 < ProbeThreshold
          /\ failures' = IF Healthy THEN 0 ELSE failures + 1
          /\ Readiness
          /\ probe_in' = ProbePeriod
          /\ stale' = IF in_service' THEN stale ELSE 0
          /\ dead' = (dead /\ ~db_up)
          /\ UNCHANGED <<service, startup, ended, started, database, schema>>

-----------------------------------------------------------------------------
(* The database and the clock. *)

DatabaseGoes ==
    /\ db_up
    /\ outages < MaxOutages
    /\ db_up' = FALSE
    /\ outages' = outages + 1
    /\ dead' = (dead \/ (service = "anomaly-ai" /\ phase = "serving"))
    /\ UNCHANGED <<service, startup, ended, kubelet, schema, stale>>

DatabaseComes ==
    /\ ~db_up
    /\ db_up' = TRUE
    /\ stale' = 0
    /\ UNCHANGED <<service, process, ended, kubelet, outages, schema>>

\* anomaly-ai: the first call on a dead connection fails, and the pool lets go of
\* it (pool_recycle alone would keep it for an hour). The readiness probe may be
\* that call; here it is a user's.
MeetDeadConnection ==
    /\ dead
    /\ db_up
    /\ dead' = FALSE
    /\ UNCHANGED <<service, startup, ended, kubelet, database, schema, stale>>

\* Something is to be done before time goes on.
Due ==
    \/ phase = "connecting" /\ (db_up \/ due = 0)
    \/ phase = "waiting" /\ due = 0
    \/ phase # "exited" /\ probe_in = 0

LessOne(n) == IF n > 0 THEN n - 1 ELSE 0

Tick ==
    /\ phase # "exited"
    /\ ~Due
    /\ due' = LessOne(due)
    /\ probe_in' = LessOne(probe_in)
    /\ stale' = IF in_service /\ ~db_up THEN stale + 1 ELSE 0
    /\ UNCHANGED <<service, phase, attempt, hung, dead, ended, started, failures,
                   unready, in_service, database, schema>>

Startup == Connect \/ MigrationFails \/ NextAttempt \/ GiveUp
              \/ ConnectionFatal \/ LifespanRaises \/ LoseTheRace

Next ==
    \/ Startup
    \/ Restart \/ StartupProbe \/ Probe
    \/ DatabaseGoes \/ DatabaseComes \/ MeetDeadConnection
    \/ Tick

Spec == Init /\ [][Next]_vars

\* The process runs, the kubelet restarts and probes, time passes. Nothing makes
\* the database come back.
FairSpec ==
    /\ Spec
    /\ WF_vars(Startup)
    /\ WF_vars(Restart)
    /\ WF_vars(StartupProbe \/ Probe)
    /\ WF_vars(Tick)

-----------------------------------------------------------------------------
(* Properties. *)

\* Every variable stays in its range; the kubelet's counters stay below their
\* thresholds, and a pod without a process is neither probed nor in service.
TypeOK ==
    /\ service \in Services
    /\ phase \in Phase
    /\ attempt \in 0..MaxAttempts
    /\ due \in Nat
    /\ hung \in BOOLEAN
    /\ dead \in BOOLEAN
    /\ ended \in {"never", "gave_up", "killed"}
    /\ started \in BOOLEAN
    /\ probe_in \in 0..ProbePeriod
    /\ failures \in 0..(StartupThreshold(service) - 1)
    /\ unready \in 0..ProbeThreshold
    /\ in_service \in BOOLEAN
    /\ db_up \in BOOLEAN
    /\ schema \in BOOLEAN
    /\ outages \in 0..MaxOutages
    /\ stale \in Nat
    /\ started => phase = "serving"
    /\ in_service => started
    /\ dead => service = "anomaly-ai" /\ phase = "serving"

\* "don't start up blind" (Program.cs:91): a pod that gets traffic has its
\* tables, also when its container was restarted in the middle of an outage.
NeverBlind == in_service => schema

\* "If the DB goes down, /ready fails -> k8s removes the pod from the load
\* balancer" (Program.cs:48): no later than three probes after the database
\* went away.
TrafficStopsInTime == stale <= ProbeThreshold * ProbePeriod

\* "(does not kill it)": once a pod has started, no outage of its database,
\* however long and however often, restarts it (RUNBOOK.md:171).
OutageNeverRestarts == [][started => started']_vars

\* The startup probe is more patient than the retries: a container is killed
\* during its start only if a call to the database hung. When every call is
\* refused at once, all ten attempts and their waits fit into the probe's time
\* and the process fails by its own message (Program.cs:65-94,
\* events-api/templates/deployment.yaml:36-41).
KilledOnlyIfHung == ended = "killed" => hung \/ phase # "exited"

\* However late the database comes, and however many containers ended until
\* then, a lost race for the tables included: once it stays, the pod gets
\* traffic and keeps it.
LateDatabaseIsNoTrouble == <>[]db_up => <>[]in_service

=============================================================================
