-------------------------- MODULE IncidentLifecycle --------------------------
(***************************************************************************)
(* What the remediation loop promises about incidents, without saying how  *)
(* (the design rules at the head of core/engine.py). An incident is opened *)
(* once and closed at most once. While it is open the world may be changed *)
(* for it once, and a human may be told of it once; a second time is no    *)
(* step of this specification. How it closes depends on what happened:     *)
(*                                                                         *)
(*   resolved    the world was changed for it and nobody had to be told,   *)
(*   escalated   a human was told,                                         *)
(*   no_action   neither happened.                                         *)
(*                                                                         *)
(* Only a port that raises makes the loop abandon an open incident.        *)
(***************************************************************************)
EXTENDS Naturals

CONSTANTS
    Incidents,   \* the identities of incidents
    MayAbandon   \* whether some port may raise

VARIABLES
    status,    \* where each incident stands
    touched,   \* how often the world was changed for each incident
    told       \* how often a human was told of it

vars == <<status, touched, told>>

Closed == {"resolved", "escalated", "no_action"}
Status == {"unseen", "open", "abandoned"} \union Closed

TypeOK ==
    /\ status \in [Incidents -> Status]
    /\ touched \in [Incidents -> 0..1]
    /\ told \in [Incidents -> 0..1]

Init ==
    /\ status = [i \in Incidents |-> "unseen"]
    /\ touched = [i \in Incidents |-> 0]
    /\ told = [i \in Incidents |-> 0]

Open(i) ==
    /\ status[i] = "unseen"
    /\ status' = [status EXCEPT ![i] = "open"]
    /\ UNCHANGED <<touched, told>>

Touch(i) ==
    /\ status[i] = "open"
    /\ touched[i] = 0 /\ told[i] = 0
    /\ touched' = [touched EXCEPT ![i] = 1]
    /\ UNCHANGED <<status, told>>

Tell(i) ==
    /\ status[i] = "open"
    /\ told[i] = 0
    /\ told' = [told EXCEPT ![i] = 1]
    /\ UNCHANGED <<status, touched>>

\* How an incident may close, given what happened while it was open.
Allowed(i, outcome) ==
    CASE outcome = "resolved"  -> touched[i] = 1 /\ told[i] = 0
      [] outcome = "escalated" -> told[i] = 1
      [] outcome = "no_action" -> touched[i] = 0 /\ told[i] = 0

Close(i) ==
    /\ status[i] = "open"
    /\ \E outcome \in Closed :
          /\ Allowed(i, outcome)
          /\ status' = [status EXCEPT ![i] = outcome]
    /\ UNCHANGED <<touched, told>>

\* A port raised. The escalator may have delivered what it was given.
Abandon(i) ==
    /\ MayAbandon
    /\ status[i] = "open"
    /\ status' = [status EXCEPT ![i] = "abandoned"]
    /\ \/ UNCHANGED told
       \/ told[i] = 0 /\ told' = [told EXCEPT ![i] = 1]
    /\ UNCHANGED touched

Step(i) == Open(i) \/ Touch(i) \/ Tell(i) \/ Close(i) \/ Abandon(i)

Next == \E i \in Incidents : Step(i)

Spec == Init /\ [][Next]_vars

\* No incident stays open for ever.
FairSpec == Spec /\ \A i \in Incidents : WF_vars(Close(i) \/ Abandon(i))

=============================================================================
