------------------------------- MODULE Replayer -------------------------------
(***************************************************************************)
(* The replayers (adapters/replayers/redpanda.py). RedpandaReplayer        *)
(* fetches the lost requests of an incident and re-processes them one by   *)
(* one, counting a record whose re-processing raises or returns False as   *)
(* failed; only the fetch may raise out of it. NoopReplayer finds nothing  *)
(* to replay.                                                              *)
(***************************************************************************)
EXTENDS RemediationModels

CONSTANT MaxLost   \* bound on the lost requests a fetch returns

ASSUME ReplayerAssumption == MaxLost \in Nat

\* The result for `attempted` records of which `succeeded` were re-applied.
Tally(attempted, succeeded) ==
    [attempted |-> attempted,
     succeeded |-> succeeded,
     failed    |-> attempted - succeeded]

\* NoopReplayer.replay
NoopReplay == Tally(0, 0)

\* Every result RedpandaReplayer.replay can return.
Replays == UNION {{Tally(n, ok) : ok \in 0..n} : n \in 0..MaxLost}

=============================================================================
