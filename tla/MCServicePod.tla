----------------------------- MODULE MCServicePod -----------------------------
(* ServicePod for TLC: the charts' own figures, all three services. *)
EXTENDS ServicePod

\* A refused connection, or a name that does not resolve, fails at once. One
\* that is not answered fails after SqlClient's default connect timeout, the
\* context of catalog-api's main (the Mongo driver looks for a server until
\* then), or the kernel's own limit, since anomaly-ai sets none.
MCFailsAfter ==
    [s \in Service |-> CASE s = "events-api"  -> {0, 15}
                         [] s = "catalog-api" -> {10}
                         [] s = "anomaly-ai"  -> {0, 127}]

=============================================================================
