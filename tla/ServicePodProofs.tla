--------------------------- MODULE ServicePodProofs ---------------------------
(***************************************************************************)
(* Theorems about a service's pod, for every set of services, every time   *)
(* after which a call may fail, and any number of outages.                 *)
(***************************************************************************)
EXTENDS ServicePod, TLAPS

\* A process that listens has reached its database once.
ServesTables == phase = "serving" => schema

\* The failures counted in a row account for the time traffic has gone to a pod
\* without a database: after each of them comes at most one more period.
Accounted ==
    /\ in_service => unready < ProbeThreshold
    /\ db_up \/ ~in_service => stale = 0
    /\ in_service => stale + probe_in <= ProbePeriod * (unready + 1)

PodInv == TypeOK /\ ServesTables /\ Accounted

\* The end of a container, whatever brought it about.
LEMMA EndKeepsInv ==
    ASSUME PodInv, NEW how \in {"gave_up", "killed"}, End(how), schema' \in BOOLEAN
    PROVE  PodInv'
<1>1. TypeOK'
  <2>1. /\ service' \in Services /\ outages' \in 0..MaxOutages
        /\ db_up' \in BOOLEAN /\ schema' \in BOOLEAN /\ hung' \in BOOLEAN
    BY DEF PodInv, TypeOK, End, database
  <2>2. /\ phase' \in Phase /\ attempt' \in 0..MaxAttempts /\ due' \in Nat
        /\ ended' \in {"never", "gave_up", "killed"}
        /\ probe_in' \in 0..ProbePeriod /\ unready' \in 0..ProbeThreshold
        /\ stale' \in Nat
    BY DEF End, Phase, MaxAttempts, ProbePeriod, ProbeThreshold
  <2>3. failures' \in 0..(StartupThreshold(service') - 1)
    BY DEF End, StartupThreshold
  <2>4. started' = FALSE /\ in_service' = FALSE /\ dead' = FALSE
    BY DEF End
  <2> QED
    BY <2>1, <2>2, <2>3, <2>4 DEF TypeOK
<1>2. ServesTables' /\ Accounted'
  BY DEF ServesTables, Accounted, End
<1> QED
  BY <1>1, <1>2 DEF PodInv

\* What a pod starts with.
LEMMA InitTypes ==
    ASSUME Init
    PROVE  PodInv
<1> USE DEF PodInv, process, startup, kubelet, database, Phase, MaxAttempts,
            StartupPeriod, ProbePeriod, ProbeThreshold
<1>1. due \in Nat /\ 0 \in 0..MaxOutages
  <2>1. service \in Services /\ due \in FailsAfter[service]
    BY Zenon DEF Init
  <2> QED
    BY <2>1, ServicePodAssumption
<1>2. hung \in BOOLEAN
  <2>1. hung = (due > 0)
    BY Zenon DEF Init
  <2> QED
    BY <2>1
<1>3. /\ service \in Services /\ phase = "connecting" /\ attempt = 1
      /\ dead = FALSE /\ ended = "never" /\ started = FALSE /\ probe_in = 5
      /\ failures = 0 /\ unready = 0 /\ in_service = FALSE /\ db_up \in BOOLEAN
      /\ schema = FALSE /\ outages = 0 /\ stale = 0
  BY Zenon DEF Init
<1>4. /\ phase \in Phase /\ attempt \in 0..10 /\ probe_in \in 0..10
      /\ failures \in 0..(StartupThreshold(service) - 1) /\ unready \in 0..3
      /\ ended \in {"never", "gave_up", "killed"}
      /\ outages \in 0..MaxOutages /\ stale \in Nat
  BY <1>1, <1>3 DEF StartupThreshold
<1>5. TypeOK
  BY <1>1, <1>2, <1>3, <1>4 DEF TypeOK
<1>6. ServesTables /\ Accounted
  BY <1>3 DEF ServesTables, Accounted
<1> QED
  BY <1>5, <1>6

\* The invariant the theorems below rest on: the types, and what the startup
\* code and the kubelet's counters keep true (Program.cs:58-94,
\* deployment.yaml:36-53).
THEOREM PodInvHolds == Spec => []PodInv
<1> USE DEF PodInv, process, startup, kubelet, database, Phase, MaxAttempts,
            StartupPeriod, ProbePeriod, ProbeThreshold
<1>1. Init => PodInv
  BY InitTypes
<1>2. PodInv /\ [Next]_vars => PodInv'
  <2> SUFFICES ASSUME PodInv, [Next]_vars
               PROVE  PodInv'
    OBVIOUS
  <2>1. CASE Connect
    BY <2>1 DEF Connect, TypeOK, ServesTables, Accounted, StartupThreshold
  <2>2. CASE MigrationFails
    BY <2>2 DEF MigrationFails, CallFails, Backoff, TypeOK, ServesTables, Accounted,
                StartupThreshold
  <2>3. CASE NextAttempt
    <3>1. due' \in Nat
      BY <2>3, ServicePodAssumption DEF NextAttempt, TypeOK
    <3> QED
      BY <2>3, <3>1 DEF NextAttempt, TypeOK, ServesTables, Accounted, StartupThreshold
  <2>4. CASE GiveUp \/ ConnectionFatal \/ LifespanRaises \/ LoseTheRace
    <3>1. End("gave_up") /\ schema' \in {schema, TRUE}
      BY <2>4 DEF GiveUp, ConnectionFatal, LifespanRaises, LoseTheRace
    <3>2. schema' \in BOOLEAN
      BY <3>1 DEF TypeOK
    <3> QED
      BY <3>1, <3>2, EndKeepsInv
  <2>5. CASE Restart
    <3>1. due' \in Nat
      BY <2>5, ServicePodAssumption DEF Restart, Starting, TypeOK
    <3> QED
      BY <2>5, <3>1 DEF Restart, Starting, TypeOK, ServesTables, Accounted,
                        StartupThreshold
  <2>6. CASE StartupProbe
    <3>1. CASE End("killed") /\ UNCHANGED schema
      <4>1. schema' \in BOOLEAN
        BY <3>1 DEF TypeOK
      <4> QED
        BY <3>1, <4>1, EndKeepsInv
    <3>2. ~in_service
      BY <2>6 DEF StartupProbe, TypeOK
    <3>3. ASSUME Healthy, started' = TRUE, failures' = 0, probe_in' = 0,
                 UNCHANGED <<service, process, ended, unready, in_service, database,
                             schema, stale>>
          PROVE  PodInv'
      BY <3>2, <3>3 DEF Healthy, TypeOK, ServesTables, Accounted, StartupThreshold
    <3>4. ASSUME failures + 1 < StartupThreshold(service),
                 failures' = failures + 1, probe_in' = StartupPeriod,
                 UNCHANGED <<service, process, ended, started, unready, in_service,
                             database, schema, stale>>
          PROVE  PodInv'
      BY <3>2, <3>4 DEF TypeOK, ServesTables, Accounted, StartupThreshold
    <3> QED
      BY <2>6, <3>1, <3>3, <3>4 DEF StartupProbe
  <2>7. CASE Probe
    <3>1. phase = "serving" /\ Healthy
      BY <2>7 DEF Probe, TypeOK, Healthy
    <3>2. /\ failures' = 0 /\ probe_in' = 10
          /\ Readiness
          /\ stale' = IF in_service' THEN stale ELSE 0
          /\ dead' = (dead /\ ~db_up)
          /\ UNCHANGED <<service, startup, ended, started, database, schema>>
      BY <2>7, <3>1 DEF Probe
    <3>3. started
      BY <2>7 DEF Probe
    <3>4. probe_in = 0
      BY <2>7 DEF Probe
    <3>5. ServesTables'
      BY <3>2 DEF ServesTables
    <3>6. TypeOK'
      <4>1. unready' \in 0..ProbeThreshold
        BY <3>2 DEF Readiness, TypeOK
      <4>2. in_service' \in BOOLEAN
        BY <3>2, Zenon DEF Readiness, TypeOK
      <4>3. dead' \in BOOLEAN
        BY <3>2, Zenon DEF TypeOK
      <4>4. dead' => dead
        BY <3>2
      <4>5. stale' \in Nat
        BY <3>2 DEF TypeOK
      <4> QED
        BY <3>1, <3>2, <3>3, <4>1, <4>2, <4>3, <4>4, <4>5 DEF TypeOK, StartupThreshold
    <3>7. Accounted'
      <4>1. CASE Ready
        <5>1. db_up' /\ unready' = 0 /\ stale = 0
          BY <3>2, <4>1 DEF Readiness, Ready, Accounted
        <5> QED
          BY <3>2, <5>1 DEF Accounted
      <4>2. CASE ~Ready
        <5>1. /\ unready' = IF unready < 3 THEN unready + 1 ELSE unready
              /\ in_service' => in_service /\ unready' < 3
          BY <3>2, <4>2 DEF Readiness
        <5>2. /\ unready \in 0..3 /\ stale \in Nat
              /\ in_service => stale + 0 <= 10 * (unready + 1)
              /\ db_up \/ ~in_service => stale = 0
          BY <3>4 DEF TypeOK, Accounted
        <5>3. db_up' = db_up
          BY <3>2
        <5> QED
          BY <3>2, <5>1, <5>2, <5>3 DEF Accounted
      <4> QED
        BY <4>1, <4>2
    <3> QED
      BY <3>5, <3>6, <3>7
  <2>8. CASE DatabaseGoes
    <3>1. dead' \in BOOLEAN
      BY <2>8, Zenon DEF DatabaseGoes, TypeOK
    <3>2. dead' => service = "anomaly-ai" /\ phase = "serving"
      BY <2>8 DEF DatabaseGoes, TypeOK
    <3>3. outages' \in 0..MaxOutages
      BY <2>8, ServicePodAssumption DEF DatabaseGoes, TypeOK
    <3>4. /\ UNCHANGED <<service, startup, ended, kubelet, schema, stale>>
          /\ db_up /\ db_up' = FALSE
      BY <2>8 DEF DatabaseGoes
    <3> QED
      BY <3>1, <3>2, <3>3, <3>4 DEF TypeOK, ServesTables, Accounted, StartupThreshold
  <2>9. CASE DatabaseComes
    BY <2>9 DEF DatabaseComes, TypeOK, ServesTables, Accounted, StartupThreshold
  <2>10. CASE MeetDeadConnection
    BY <2>10 DEF MeetDeadConnection, TypeOK, ServesTables, Accounted, StartupThreshold
  <2>11. CASE Tick
    BY <2>11 DEF Tick, Due, LessOne, TypeOK, ServesTables, Accounted, StartupThreshold
  <2>12. CASE UNCHANGED vars
    BY <2>12 DEF vars, TypeOK, ServesTables, Accounted, StartupThreshold
  <2> QED
    BY <2>1, <2>2, <2>3, <2>4, <2>5, <2>6, <2>7, <2>8, <2>9, <2>10, <2>11, <2>12
       DEF Next, Startup
<1> QED
  BY <1>1, <1>2, PTL DEF Spec

\* The types, and what of a pod cannot be while its process is not there.
THEOREM TypesHold == Spec => []TypeOK
<1>1. PodInv => TypeOK
  BY DEF PodInv
<1> QED
  BY <1>1, PodInvHolds, PTL

\* A pod that gets traffic has its tables (Program.cs:60-94).
THEOREM NeverServesBlind == Spec => []NeverBlind
<1>1. PodInv => NeverBlind
  BY DEF PodInv, TypeOK, ServesTables, NeverBlind
<1> QED
  BY <1>1, PodInvHolds, PTL

\* Traffic stops at most three probe periods after the database went away,
\* however the outages fall between the probes (deployment.yaml:48-53).
THEOREM StopsInTime == Spec => []TrafficStopsInTime
<1>1. PodInv => TrafficStopsInTime
  BY DEF PodInv, TypeOK, Accounted, TrafficStopsInTime, ProbeThreshold, ProbePeriod
<1> QED
  BY <1>1, PodInvHolds, PTL

\* No outage restarts a pod that has started (Program.cs:44-45): only the
\* startup probe and the process's own start end a container.
THEOREM NeverRestarted == Spec => OutageNeverRestarts
<1>1. PodInv /\ [Next]_vars => (started => started')
  <2> SUFFICES ASSUME PodInv, [Next]_vars, started
               PROVE  started'
    OBVIOUS
  <2>1. phase = "serving" /\ Healthy
    BY DEF PodInv, TypeOK, Healthy
  <2> QED
    BY <2>1 DEF Next, Startup, Connect, MigrationFails, NextAttempt, GiveUp,
                ConnectionFatal, LifespanRaises, LoseTheRace, CallFails, Restart, StartupProbe,
                Probe, DatabaseGoes, DatabaseComes, MeetDeadConnection, Tick,
                vars, kubelet
<1>2. PodInv /\ [Next]_vars => [started => started']_vars
  BY <1>1
<1> QED
  BY <1>2, PodInvHolds, PTL DEF Spec, OutageNeverRestarts

-----------------------------------------------------------------------------
(* The startup probe against the retries. *)

\* How long the container has been starting, by the probe that looks at it.
Elapsed == StartupPeriod * failures + (StartupPeriod - probe_in)

\* As long as no call has hung, a container that is starting has spent only the
\* waits of its retries, 2 + 4 + ... seconds so far, and one of a service that
\* does not retry has spent nothing.
Patient ==
    /\ phase = "exited" => failures = 0
    /\ phase \in {"connecting", "waiting"} =>
          /\ ~started
          /\ attempt >= 1
          /\ ~hung =>
                /\ service # "events-api" => phase = "connecting" /\ Elapsed = 0
                /\ phase = "connecting" => /\ due = 0
                                           /\ Elapsed <= (attempt - 1) * attempt
                /\ phase = "waiting" => Elapsed + due <= attempt * (attempt + 1)

\* The probe's time is longer than all the waits together.
LEMMA ProbeOutlastsRetries ==
    ASSUME TypeOK, Patient, ~hung, phase \in {"connecting", "waiting"}, probe_in = 0
    PROVE  failures + 1 < StartupThreshold(service)
<1> USE DEF Elapsed, StartupPeriod
<1>1. /\ attempt \in 1..10 /\ due \in Nat
      /\ failures \in Nat
  BY DEF TypeOK, Patient, MaxAttempts, StartupThreshold
<1>2. CASE service = "events-api"
  <2>1. Elapsed <= attempt * (attempt + 1)
    BY <1>1 DEF Patient
  <2>2. attempt * (attempt + 1) <= 110
    BY <1>1
  <2> QED
    BY <1>1, <1>2, <2>1, <2>2 DEF StartupThreshold
<1>3. CASE service # "events-api"
  BY <1>1, <1>3 DEF Patient, StartupThreshold
<1> QED
  BY <1>2, <1>3

\* The startup probe never kills a container whose calls were all refused at
\* once: it gives up by itself before (Program.cs:65-94,
\* events-api/templates/deployment.yaml:36-41).
THEOREM KilledOnlyForHanging == Spec => []KilledOnlyIfHung
<1>1. Init => Patient /\ KilledOnlyIfHung
  <2> SUFFICES ASSUME Init
               PROVE  Patient /\ KilledOnlyIfHung
    OBVIOUS
  <2>1. PodInv
    BY InitTypes
  <2>2. /\ phase = "connecting" /\ attempt = 1 /\ started = FALSE /\ probe_in = 5
        /\ ended = "never" /\ failures = 0
    BY Zenon DEF Init, StartupPeriod
  <2>3. ~hung => ~(due > 0)
    BY Zenon DEF Init
  <2>4. due \in Nat
    BY <2>1 DEF PodInv, TypeOK
  <2> QED
    BY <2>2, <2>3, <2>4 DEF Patient, KilledOnlyIfHung, Elapsed, StartupPeriod
<1>2. PodInv /\ PodInv' /\ Patient /\ KilledOnlyIfHung /\ [Next]_vars
        => Patient' /\ KilledOnlyIfHung'
  <2> SUFFICES ASSUME PodInv, PodInv', Patient, KilledOnlyIfHung, [Next]_vars
               PROVE  Patient' /\ KilledOnlyIfHung'
    OBVIOUS
  <2> USE DEF process, startup, kubelet, database
  <2>0. /\ attempt \in 0..10 /\ due \in Nat /\ failures \in Nat
        /\ probe_in \in 0..10 /\ hung \in BOOLEAN
    BY DEF PodInv, TypeOK, MaxAttempts, ProbePeriod, StartupThreshold
  <2>1. CASE Connect
    BY <2>1 DEF Connect, Patient, KilledOnlyIfHung
  <2>2. CASE MigrationFails
    <3>1. /\ service = "events-api" /\ phase = "connecting"
          /\ phase' = "waiting" /\ due' = 2 * attempt
          /\ UNCHANGED <<service, attempt, hung, ended, started, probe_in, failures>>
      BY <2>2 DEF MigrationFails, CallFails, Backoff
    <3>2. ~started /\ attempt >= 1 /\ (~hung => Elapsed <= (attempt - 1) * attempt)
      BY <3>1 DEF Patient
    <3>3. (attempt - 1) * attempt + 2 * attempt = attempt * (attempt + 1)
      BY <2>0
    <3>4. ~hung => Elapsed' + due' <= attempt * (attempt + 1)
      BY <2>0, <3>1, <3>2, <3>3 DEF Elapsed, StartupPeriod
    <3> QED
      BY <3>1, <3>2, <3>4 DEF Patient, KilledOnlyIfHung
  <2>3. CASE NextAttempt
    <3>1. /\ phase = "waiting" /\ due = 0
          /\ phase' = "connecting" /\ attempt' = attempt + 1
          /\ due' \in Nat /\ hung' = (hung \/ due' > 0)
          /\ UNCHANGED <<service, ended, started, probe_in, failures>>
      BY <2>3 DEF NextAttempt, PodInv, TypeOK
    <3>2. /\ ~started /\ attempt >= 1
          /\ ~hung => /\ Elapsed + due <= attempt * (attempt + 1)
                      /\ service = "events-api"
      BY <3>1 DEF Patient
    <3>3. ~hung' => ~hung /\ due' = 0
      <4>1. ~hung' => ~hung /\ ~(due' > 0)
        BY <3>1, Zenon
      <4> QED
        BY <3>1, <4>1
    <3>4. (attempt' - 1) * attempt' = attempt * (attempt + 1)
      BY <2>0, <3>1
    <3>5. ~hung' => Elapsed' <= (attempt' - 1) * attempt'
      BY <2>0, <3>1, <3>2, <3>3, <3>4 DEF Elapsed, StartupPeriod
    <3> QED
      BY <2>0, <3>1, <3>2, <3>3, <3>5 DEF Patient, KilledOnlyIfHung
  <2>4. CASE GiveUp \/ ConnectionFatal \/ LifespanRaises \/ LoseTheRace
    <3>1. End("gave_up")
      BY <2>4 DEF GiveUp, ConnectionFatal, LifespanRaises, LoseTheRace
    <3> QED
      BY <3>1 DEF End, Patient, KilledOnlyIfHung
  <2>5. CASE Restart
    <3>1. /\ phase' = "connecting" /\ attempt' = 1 /\ due' \in Nat
          /\ hung' = (due' > 0) /\ probe_in' = 5
          /\ phase = "exited"
          /\ UNCHANGED <<service, started, failures>>
      BY <2>5 DEF Restart, Starting, PodInv, TypeOK, StartupPeriod
    <3>2. ~started
      BY <3>1 DEF PodInv, TypeOK
    <3>3. failures = 0
      BY <3>1 DEF Patient
    <3>4. ~hung' => due' = 0
      <4>1. ~hung' => ~(due' > 0)
        BY <3>1, Zenon
      <4> QED
        BY <3>1, <4>1
    <3> QED
      BY <3>1, <3>2, <3>3, <3>4 DEF Patient, KilledOnlyIfHung, Elapsed, StartupPeriod
  <2>6. CASE StartupProbe
    <3>1. /\ phase # "exited" /\ probe_in = 0 /\ ~started
      BY <2>6 DEF StartupProbe
    <3>2. CASE Healthy
      BY <2>6, <3>2 DEF StartupProbe, Healthy, Patient, KilledOnlyIfHung
    <3>3. CASE ~Healthy
      <4>1. phase \in {"connecting", "waiting"}
        BY <3>1, <3>3 DEF Healthy, PodInv, TypeOK, Phase
      <4>2. CASE failures + 1 = StartupThreshold(service)
        <5>1. End("killed")
          BY <2>6, <3>3, <4>2, <2>0 DEF StartupProbe
        <5>2. hung
          BY <3>1, <4>1, <4>2, <2>0, ProbeOutlastsRetries DEF PodInv, StartupThreshold
        <5> QED
          BY <5>1, <5>2 DEF End, Patient, KilledOnlyIfHung
      <4>3. CASE failures + 1 # StartupThreshold(service)
        <5>1. /\ failures' = failures + 1 /\ probe_in' = 5
              /\ UNCHANGED <<service, phase, attempt, due, hung, ended, started>>
          BY <2>6, <3>3, <4>3 DEF StartupProbe, StartupPeriod
        <5>2. Elapsed' = Elapsed
          BY <2>0, <3>1, <5>1 DEF Elapsed, StartupPeriod
        <5> QED
          BY <2>0, <3>1, <5>1, <5>2 DEF Patient, KilledOnlyIfHung
      <4> QED
        BY <4>2, <4>3
    <3> QED
      BY <3>2, <3>3
  <2>7. CASE Probe
    <3>1. phase = "serving" /\ Healthy
      BY <2>7 DEF Probe, PodInv, TypeOK, Healthy
    <3>2. UNCHANGED <<startup, ended>>
      BY <2>7, <3>1 DEF Probe
    <3> QED
      BY <3>1, <3>2 DEF Patient, KilledOnlyIfHung
  <2>8. CASE DatabaseGoes \/ DatabaseComes \/ MeetDeadConnection
    <3>1. UNCHANGED <<service, startup, ended, started, probe_in, failures>>
      BY <2>8 DEF DatabaseGoes, DatabaseComes, MeetDeadConnection
    <3> QED
      BY <3>1 DEF Patient, KilledOnlyIfHung, Elapsed
  <2>9. CASE Tick
    <3>1. /\ phase # "exited" /\ probe_in > 0
          /\ ~(phase = "connecting" /\ due = 0) /\ ~(phase = "waiting" /\ due = 0)
          /\ probe_in' = probe_in - 1
          /\ due' = IF due > 0 THEN due - 1 ELSE 0
          /\ UNCHANGED <<service, phase, attempt, hung, ended, started, failures>>
      BY <2>0, <2>9 DEF Tick, Due, LessOne
    <3>2. CASE phase \in {"connecting", "waiting"} /\ ~hung
      <4>1. phase = "waiting" /\ due > 0 /\ service = "events-api"
        BY <2>0, <3>1, <3>2 DEF Patient
      <4>2. Elapsed' + due' = Elapsed + due
        BY <2>0, <3>1, <4>1 DEF Elapsed, StartupPeriod
      <4> QED
        BY <3>1, <4>1, <4>2 DEF Patient, KilledOnlyIfHung
    <3>3. CASE ~(phase \in {"connecting", "waiting"} /\ ~hung)
      BY <3>1, <3>3 DEF Patient, KilledOnlyIfHung
    <3> QED
      BY <3>2, <3>3
  <2>10. CASE UNCHANGED vars
    BY <2>10 DEF vars, Patient, KilledOnlyIfHung, Elapsed
  <2> QED
    BY <2>1, <2>2, <2>3, <2>4, <2>5, <2>6, <2>7, <2>8, <2>9, <2>10 DEF Next, Startup
<1> QED
  BY <1>1, <1>2, PodInvHolds, PTL DEF Spec

=============================================================================
