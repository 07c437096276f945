---------------------- MODULE EngineImplementsLifecycle ----------------------
(***************************************************************************)
(* RemediationEngine implements IncidentLifecycle. An incident's abstract  *)
(* status is read off the engine's state: the outcome of the saved copy,   *)
(* open while the engine has it in hand, and abandoned once an id was      *)
(* given out that is neither. Changes and alerts are counted, so that a    *)
(* second one for the same incident would not pass for a stutter.          *)
(***************************************************************************)
EXTENDS RemediationEngine

StatusOf(id) ==
    IF Saved(id) THEN store[id].outcome
    ELSE IF InProcess(id) THEN "open"
    ELSE IF id <= created THEN "abandoned"
    ELSE "unseen"

Lifecycle == INSTANCE IncidentLifecycle WITH
    Incidents  <- Ids,
    MayAbandon <- FaultyPorts # {},
    status     <- [id \in Ids |-> StatusOf(id)],
    touched    <- [id \in Ids |-> Len(cluster[id])],
    told       <- [id \in Ids |-> Len(alerts[id])]

\* The design rules of engine.py:15-25 as one property: each step of run_once is
\* a step the lifecycle allows, or one it does not see, and every incident
\* that is opened is closed (or abandoned, where a port may raise).
ImplementsLifecycle == Lifecycle!FairSpec

=============================================================================
