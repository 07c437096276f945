------------------------- MODULE EngineLifecycleProofs -------------------------
(***************************************************************************)
(* Every step of RemediationEngine is a step of IncidentLifecycle, or one  *)
(* it does not see: the design rules at the head of core/engine.py hold of *)
(* the orchestrator for every set of signals, every answer of the ports    *)
(* and every choice of ports that may raise. (That no incident stays open  *)
(* for ever rests on fairness and is model-checked.)                       *)
(***************************************************************************)
EXTENDS EngineImplementsLifecycle, EngineRecordProofs

-----------------------------------------------------------------------------
(* The refinement mapping. *)

Status  == [id \in Ids |-> StatusOf(id)]
Touched == [id \in Ids |-> Len(cluster[id])]
Told    == [id \in Ids |-> Len(alerts[id])]

\* An incident in process is open, and its id is fresh.
LEMMA OpenInHand ==
    ASSUME TypeInv, MutationInv, pc \notin {"idle", "next"}
    PROVE  created \in Ids /\ Status[created] = "open"
<1>1. /\ incident # None /\ incident.id = created
      /\ created \in Ids /\ store[created] = None
  BY IncidentInHand
<1> QED
  BY <1>1 DEF Status, StatusOf, Saved, InProcess

\* As long as the same incident stays in process, no status changes.
LEMMA SameStatus ==
    ASSUME UNCHANGED <<created, store>>,
           \/ UNCHANGED incident
           \/ incident # None /\ incident' # None /\ incident'.id = incident.id
    PROVE  Status' = Status
<1>1. \A id \in Ids : StatusOf(id)' = StatusOf(id)
  BY DEF StatusOf, Saved, InProcess
<1> QED
  BY <1>1 DEF Status

\* Steps between the ports that neither change the cluster nor tell anyone.
LEMMA Unseen ==
    ASSUME UNCHANGED <<created, store, alerts, cluster>>,
           \/ UNCHANGED incident
           \/ incident # None /\ incident' # None /\ incident'.id = incident.id
    PROVE  UNCHANGED Lifecycle!vars
<1>1. Status' = Status /\ Touched' = Touched /\ Told' = Told
  BY SameStatus DEF Touched, Told
<1> QED
  BY <1>1 DEF Lifecycle!vars, Status, Touched, Told

\* _new_incident opens an incident (engine.py:107-109).
LEMMA BeginOpens ==
    ASSUME TypeInv, TypeInv', MutationInv, Begin
    PROVE  Lifecycle!Next
<1>1. /\ incident = None /\ created \in Nat /\ created' = created + 1
      /\ incident'.id = created + 1 /\ incident' # None
      /\ UNCHANGED <<store, alerts, cluster>>
  BY DEF Begin, NewIncident, TypeInv, TypeOK
<1>2. PICK i \in Ids : i = created + 1
  <2>1. Len(pending') \in Nat /\ created + 1 + Len(pending') <= MaxIncidents
    BY <1>1, EngineAssumption DEF TypeInv, TypeOK
  <2> QED
    BY <1>1, <2>1, EngineAssumption DEF Ids
<1>3. store[i] = None
  BY <1>1, <1>2 DEF MutationInv, FreshId, Saved
<1>4. Status[i] = "unseen"
  BY <1>1, <1>2, <1>3 DEF Status, StatusOf, Saved, InProcess
<1>5. Status' = [Status EXCEPT ![i] = "open"]
  <2>1. StatusOf(i)' = "open"
    BY <1>1, <1>2, <1>3 DEF StatusOf, Saved, InProcess
  <2>2. \A id \in Ids : id # i => StatusOf(id)' = StatusOf(id)
    BY <1>1, <1>2 DEF StatusOf, Saved, InProcess, Ids
  <2> QED
    BY <2>1, <2>2 DEF Status
<1>6. Touched' = Touched /\ Told' = Told
  BY <1>1 DEF Touched, Told
<1>7. Lifecycle!Open(i)
  BY <1>2, <1>4, <1>5, <1>6 DEF Lifecycle!Open, Status, Touched, Told
<1> QED
  BY <1>2, <1>7 DEF Lifecycle!Next, Lifecycle!Step

\* The actuator's call changes the world for an open incident, once, and before a
\* human is told of it (engine.py:133-147).
LEMMA ActTouches ==
    ASSUME TypeInv, TypeInv', MutationInv, RecordInv, pc = "act",
           NEW attempt \in Executions(incident, DryRun), Act(attempt)
    PROVE  Lifecycle!Next \/ UNCHANGED Lifecycle!vars
<1>1. PICK i \in Ids : i = created
  BY OpenInHand
<1>2. /\ incident # None /\ incident \in Incident /\ incident.id = i
      /\ incident.diagnosis # None /\ Status[i] = "open"
      /\ alerts[i] = << >> /\ cluster[i] = << >>
  BY <1>1, IncidentInHand, OpenInHand, NothingYet DEF RecordInv, InProcessInv, Reached
<1>3. /\ incident' # None /\ incident'.id = i
      /\ UNCHANGED <<created, store, alerts>>
      /\ cluster' = [cluster EXCEPT ![i] = @ \o attempt.effects]
  <2>1. /\ UNCHANGED <<created, store, alerts>>
        /\ cluster' = [cluster EXCEPT ![i] = @ \o attempt.effects]
        /\ incident' # None
    BY <1>2 DEF Act, Close, HandOff, Proceed, TypeInv, TypeOK
  <2>2. ~Finish
    BY DEF Finish
  <2>3. Enriches(incident, incident')
    BY <2>2, ProcessEnriches DEF Process
  <2> QED
    BY <1>2, <2>1, <2>3 DEF Enriches
<1>4. Status' = Status /\ Told' = Told
  BY <1>2, <1>3, SameStatus DEF Told
<1>5. attempt.effects \in {<< >>, <<OperationOf(incident)>>}
  BY <1>2, ExecutionsType, EngineAssumption
<1>6. Touched' = [Touched EXCEPT ![i] = Len(attempt.effects)]
  <2>1. cluster \in [Ids -> Seq(Operation)]
    BY DEF TypeInv, TypeOK
  <2>2. cluster'[i] = << >> \o attempt.effects
    BY <1>2, <1>3, <2>1
  <2>3. << >> \o attempt.effects = attempt.effects
    BY <1>5
  <2>4. Len(cluster'[i]) = Len(attempt.effects)
    BY <2>2, <2>3, Zenon
  <2>5. \A id \in Ids : id # i => cluster'[id] = cluster[id]
    BY <1>3, <2>1
  <2>6. \A id \in Ids :
           Len(cluster'[id]) = IF id = i THEN Len(attempt.effects) ELSE Len(cluster[id])
    BY <2>4, <2>5, Zenon
  <2> QED
    BY <2>6 DEF Touched
<1>7. Touched[i] = 0 /\ Told[i] = 0
  BY <1>2 DEF Touched, Told
<1>8. CASE attempt.effects = << >>
  <2>1. Touched' = Touched
    BY <1>6, <1>7, <1>8 DEF Touched
  <2> QED
    BY <1>4, <2>1 DEF Lifecycle!vars, Status, Touched, Told
<1>9. CASE attempt.effects = <<OperationOf(incident)>>
  <2>1. Len(attempt.effects) = 1
    BY <1>9
  <2>2. Lifecycle!Touch(i)
    BY <1>2, <1>4, <1>6, <1>7, <2>1 DEF Lifecycle!Touch, Status, Touched, Told
  <2> QED
    BY <2>2 DEF Lifecycle!Next, Lifecycle!Step
<1> QED
  BY <1>5, <1>8, <1>9

\* The other stages are not seen (engine.py:111-170).
LEMMA StagesUnseen ==
    ASSUME TypeInv, TypeInv', MutationInv, RecordInv,
           \/ \E d \in Diagnoses : Diagnose(d)
           \/ \E v \in Verdicts : Gate(v)
           \/ \E v \in Verification : Verify(v)
           \/ \E r \in Replays : Replay(r)
    PROVE  UNCHANGED Lifecycle!vars
<1>1. Process /\ ~Finish /\ UNCHANGED <<created, store, alerts, cluster>>
      /\ pc \notin {"idle", "next"} /\ pc' \notin {"idle", "next"}
  BY DEF Process, Finish, Diagnose, Gate, Verify, Replay, Close, HandOff, Proceed
<1>2. incident # None /\ incident' # None
  BY <1>1 DEF TypeInv, TypeOK
<1>3. incident'.id = incident.id
  BY <1>1, ProcessEnriches DEF Enriches
<1> QED
  BY <1>1, <1>2, <1>3, Unseen

\* Delivering the first alert of the incident in process counts for one
\* (engine.py:178).
LEMMA DeliveryTold ==
    ASSUME TypeInv, NEW i \in Ids, incident.id = i, alerts[i] = << >>
    PROVE  [id \in Ids |-> Len(Deliver[id])] = [Told EXCEPT ![i] = 1]
<1>1. alerts \in [Ids -> Seq(Alert)]
  BY DEF TypeInv, TypeOK
<1>2. Deliver[i] = Append(<< >>, AlertNow)
  BY <1>1 DEF Deliver
<1>3. Len(Append(<< >>, AlertNow)) = 1
  OBVIOUS
<1>4. Len(Deliver[i]) = 1
  BY <1>2, <1>3, Zenon
<1>5. \A id \in Ids : id # i => Deliver[id] = alerts[id]
  BY <1>1 DEF Deliver
<1>6. \A id \in Ids : Len(Deliver[id]) = IF id = i THEN 1 ELSE Len(alerts[id])
  BY <1>4, <1>5, Zenon
<1> QED
  BY <1>6 DEF Told

\* _do_escalate tells a human, once (engine.py:176-179).
LEMMA EscalateTells ==
    ASSUME TypeInv, TypeInv', MutationInv, RecordInv, Escalate
    PROVE  Lifecycle!Next
<1>1. PICK i \in Ids : i = created
  BY OpenInHand DEF Escalate
<1>2. /\ incident # None /\ incident \in Incident /\ incident.id = i
      /\ Status[i] = "open" /\ alerts[i] = << >>
  BY <1>1, IncidentInHand, OpenInHand DEF Escalate, RecordInv, InProcessInv
<1>3. /\ incident' # None /\ incident'.id = i
      /\ UNCHANGED <<created, store, cluster>>
      /\ alerts' = Deliver
  BY <1>2, OutcomeRecorded DEF Escalate, Outcome, TypeInv, TypeOK
<1>4. Status' = Status /\ Touched' = Touched
  BY <1>2, <1>3, SameStatus DEF Touched
<1>5. Told' = [Told EXCEPT ![i] = 1]
  BY <1>2, <1>3, DeliveryTold DEF Told
<1>6. Told[i] = 0
  BY <1>2 DEF Told
<1>7. Lifecycle!Tell(i)
  BY <1>2, <1>4, <1>5, <1>6 DEF Lifecycle!Tell, Status, Touched, Told
<1> QED
  BY <1>7 DEF Lifecycle!Next, Lifecycle!Step

\* _finish closes an incident the way that what happened to it allows
\* (engine.py:15-20, 181-191).
LEMMA FinishCloses ==
    ASSUME TypeInv, TypeInv', MutationInv, RecordInv, Finish
    PROVE  Lifecycle!Next
<1>1. PICK i \in Ids : i = created
  BY OpenInHand DEF Finish
<1>2. /\ incident # None /\ incident \in Incident /\ incident.id = i
      /\ Status[i] = "open" /\ Orderly(incident) /\ Effective(incident)
      /\ Ended(incident) /\ ToldOf(incident)
      /\ cluster[i] # << >> => Accounts(incident)
  BY <1>1, IncidentInHand, OpenInHand, Accounted DEF Finish, RecordInv, InProcessInv
<1> DEFINE new == WithPostmortem(incident, Draft(incident))
<1>3. /\ new \in Incident /\ new # None /\ new.id = i /\ new.outcome = incident.outcome
  BY <1>2, WithPostmortemType, PostmortemRecorded, NoneAssumption
<1>4. store' = [store EXCEPT ![new.id] = new] /\ incident' = None
      /\ UNCHANGED <<created, alerts, cluster>>
  BY DEF Finish
<1> HIDE DEF new
<1>5. \A id \in Ids : store'[id] = IF id = i THEN new ELSE store[id]
  BY <1>3, <1>4 DEF TypeInv, TypeOK
<1>6. Status' = [Status EXCEPT ![i] = incident.outcome]
  <2>1. StatusOf(i)' = incident.outcome
    BY <1>3, <1>5 DEF StatusOf, Saved
  <2>2. \A id \in Ids : id # i => StatusOf(id)' = StatusOf(id)
    BY <1>2, <1>4, <1>5 DEF StatusOf, Saved, InProcess
  <2> QED
    BY <2>1, <2>2 DEF Status
<1>7. Touched' = Touched /\ Told' = Told
  BY <1>4 DEF Touched, Told
<1>8. /\ CauseOf(incident) = None => Told[i] = 0
      /\ CauseOf(incident) # None => Told[i] = 1
  BY <1>2 DEF ToldOf, Told
<1>9. /\ incident.outcome \in {"resolved", "escalated", "no_action"}
      /\ incident.outcome = "resolved" => Touched[i] = 1 /\ Told[i] = 0
      /\ incident.outcome = "escalated" => Told[i] = 1
      /\ incident.outcome = "no_action" => Touched[i] = 0 /\ Told[i] = 0
  <2>1. CASE CauseOf(incident) # None
    BY <1>2, <1>8, <2>1 DEF Ended
  <2>2. CASE CauseOf(incident) = None
    <3>1. WentWell(incident)
      BY <1>2, <2>2 DEF Ended
    <3>2. CASE incident.verdict = None /\ incident.outcome = "no_action"
      <4>1. cluster[i] = << >>
        BY <1>2, <3>2 DEF Orderly, Accounts
      <4> QED
        BY <1>8, <2>2, <3>2, <4>1 DEF Touched
    <3>3. CASE incident.action_result # None /\ incident.action_result.dry_run
                 /\ incident.outcome = "no_action"
      <4>1. cluster[i] = << >>
        BY <1>2, <3>3 DEF Accounts
      <4> QED
        BY <1>8, <2>2, <3>3, <4>1 DEF Touched
    <3>4. CASE incident.replay_result # None /\ incident.outcome = "resolved"
      <4>1. incident.action_result # None /\ incident.action_result.executed
        BY <1>2, <3>4 DEF Orderly
      <4>2. cluster[i] # << >>
        BY <1>2, <4>1 DEF Effective
      <4>3. cluster[i] \in Seq(Operation) /\ Len(cluster[i]) <= 1
        BY DEF MutationInv, ChangedAtMostOnce, TypeInv, TypeOK
      <4>4. Len(cluster[i]) = 1
        <5>1. Len(cluster[i]) \in Nat /\ Len(cluster[i]) # 0
          BY <4>2, <4>3, EmptySeq
        <5>2. \A n \in Nat : n # 0 /\ n <= 1 => n = 1
          OBVIOUS
        <5> QED
          BY <4>3, <5>1, <5>2, Zenon
      <4> QED
        BY <1>8, <2>2, <3>4, <4>4 DEF Touched
    <3> QED
      BY <3>1, <3>2, <3>3, <3>4 DEF WentWell
  <2> QED
    BY <2>1, <2>2
<1>10. Lifecycle!Close(i)
  <2>1. Lifecycle!Allowed(i, incident.outcome)
    BY <1>9 DEF Lifecycle!Allowed, Touched, Told
  <2> QED
    BY <1>2, <1>6, <1>7, <1>9, <2>1
       DEF Lifecycle!Close, Lifecycle!Closed, Status, Touched, Told
<1> QED
  BY <1>10 DEF Lifecycle!Next, Lifecycle!Step

\* A port that raises makes the loop abandon the incident in process.
LEMMA RaiseAbandons ==
    ASSUME TypeInv, TypeInv', MutationInv, RecordInv, Raise
    PROVE  Lifecycle!Next
<1>0. pc \in {"diagnose", "verify", "replay", "escalate"} /\ FaultyPorts # {}
  BY DEF Raise, PortAt
<1>1. PICK i \in Ids : i = created
  BY <1>0, OpenInHand
<1>2. /\ incident # None /\ incident.id = i /\ store[i] = None
      /\ Status[i] = "open" /\ alerts[i] = << >>
  BY <1>0, <1>1, IncidentInHand, OpenInHand DEF RecordInv, InProcessInv
<1>3. /\ incident' = None /\ UNCHANGED <<created, store, cluster>>
      /\ alerts' \in {alerts, Deliver}
  BY DEF Raise
<1>4. Status' = [Status EXCEPT ![i] = "abandoned"]
  <2>1. StatusOf(i)' = "abandoned"
    BY <1>1, <1>2, <1>3 DEF StatusOf, Saved, InProcess, Ids
  <2>2. \A id \in Ids : id # i => StatusOf(id)' = StatusOf(id)
    BY <1>2, <1>3 DEF StatusOf, Saved, InProcess
  <2> QED
    BY <2>1, <2>2 DEF Status
<1>5. Touched' = Touched /\ Told[i] = 0
  BY <1>2, <1>3 DEF Touched, Told
<1>6. Told' \in {Told, [Told EXCEPT ![i] = 1]}
  BY <1>2, <1>3, DeliveryTold DEF Told
<1>7. Lifecycle!Abandon(i)
  BY <1>0, <1>2, <1>4, <1>5, <1>6 DEF Lifecycle!Abandon, Status, Touched, Told
<1> QED
  BY <1>7 DEF Lifecycle!Next, Lifecycle!Step

\* The engine implements the lifecycle: an incident is opened once, changed for at
\* most once and before anyone is told, told of at most once, and closed the way
\* that what happened to it allows (engine.py:15-25).
THEOREM EngineImplements == Spec => Lifecycle!Spec
<1>1. Init => Lifecycle!Init
  BY DEF Init, Lifecycle!Init, StatusOf, Saved, InProcess, Ids
<1>2. TypeInv /\ TypeInv' /\ MutationInv /\ RecordInv /\ [Next]_vars
         => [Lifecycle!Next]_(Lifecycle!vars)
  <2> SUFFICES ASSUME TypeInv, TypeInv', MutationInv, RecordInv, [Next]_vars
               PROVE  Lifecycle!Next \/ UNCHANGED Lifecycle!vars
    OBVIOUS
  <2>1. CASE UNCHANGED vars
    BY <2>1, Unseen DEF vars
  <2>2. CASE (\E batch \in Batches : Detect(batch)) \/ Return
    BY <2>2, Unseen DEF Detect, Return
  <2>3. CASE Begin
    BY <2>3, BeginOpens
  <2>4. CASE \/ \E d \in Diagnoses : Diagnose(d)
             \/ \E v \in Verdicts : Gate(v)
             \/ \E v \in Verification : Verify(v)
             \/ \E r \in Replays : Replay(r)
    BY <2>4, StagesUnseen
  <2>5. CASE pc = "act" /\ \E attempt \in Executions(incident, DryRun) : Act(attempt)
    BY <2>5, ActTouches
  <2>6. CASE Escalate
    BY <2>6, EscalateTells
  <2>7. CASE Finish
    BY <2>7, FinishCloses
  <2>8. CASE Raise
    BY <2>8, RaiseAbandons
  <2> QED
    BY <2>1, <2>2, <2>3, <2>4, <2>5, <2>6, <2>7, <2>8 DEF Next, Process
<1> QED
  BY <1>1, <1>2, TypeInvHolds, MutationInvHolds, RecordInvHolds, PTL
     DEF Spec, Lifecycle!Spec

=============================================================================
