------------------------------- MODULE Actuator -------------------------------
(***************************************************************************)
(* KubernetesActuator (adapters/actuators/kubernetes.py), the only port    *)
(* that changes the cluster. It never raises: a failing cluster call comes *)
(* back as a result with an error. Whether a call that raised took effect  *)
(* all the same (a timeout after the pod was deleted) is not known to the  *)
(* code, so both are possible.                                             *)
(***************************************************************************)
EXTENDS RemediationModels, Functions

\* One change of the cluster. Making the same change twice is two changes: a
\* workload scaled up twice is not where scaling it up once puts it.
Operation == [action : ActionType, target : Target]

OperationOf(inc) ==
    [action |-> inc.diagnosis.proposed_action,
     target |-> TargetOf(inc.diagnosis, inc.signal)]

Result(inc, executed, dry_run, error) ==
    [action   |-> inc.diagnosis.proposed_action,
     target   |-> TargetOf(inc.diagnosis, inc.signal),
     executed |-> executed,
     dry_run  |-> dry_run,
     error    |-> error]

\* A result together with the changes the call really made, in their order.
Attempt(result, effects) == [result |-> result, effects |-> effects]

\* Mutant of Executions: the dry-run flag is only reported.
ExecutionsIgnoringDryRun(inc, dry_run) ==
    IF inc.diagnosis.proposed_action \notin Remedy
        THEN {Attempt(Result(inc, FALSE, dry_run, FALSE), << >>)}
    ELSE {Attempt(Result(inc, TRUE, dry_run, FALSE), <<OperationOf(inc)>>)}

\* Mutant of Executions: a cluster call that raised is made once more.
ExecutionsRetrying(inc, dry_run) ==
    LET once == <<OperationOf(inc)>>
    IN IF inc.diagnosis.proposed_action \notin Remedy
           THEN {Attempt(Result(inc, FALSE, dry_run, FALSE), << >>)}
       ELSE IF dry_run
           THEN {Attempt(Result(inc, FALSE, TRUE, FALSE), << >>)}
       ELSE {Attempt(Result(inc, TRUE, FALSE, FALSE), effects) :
                 effects \in {once, once \o once}}
            \union
            {Attempt(Result(inc, FALSE, FALSE, TRUE), effects) :
                 effects \in {<< >>, once, once \o once}}

\* Every way execute(incident, dry_run) can go: an action with no mapping does
\* nothing, a dry run reports and does nothing, a cluster call succeeds, or it
\* fails with or without having taken effect.
Executions(inc, dry_run) ==
    IF inc.diagnosis.proposed_action \notin Remedy
        THEN {Attempt(Result(inc, FALSE, dry_run, FALSE), << >>)}
    ELSE IF dry_run
        THEN {Attempt(Result(inc, FALSE, TRUE, FALSE), << >>)}
    ELSE {Attempt(Result(inc, TRUE, FALSE, FALSE), <<OperationOf(inc)>>)}
         \union
         {Attempt(Result(inc, FALSE, FALSE, TRUE), effects) :
              effects \in {<< >>, <<OperationOf(inc)>>}}

=============================================================================
