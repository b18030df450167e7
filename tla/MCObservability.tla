-------------------------- MODULE MCObservability --------------------------
(***************************************************************************)
(* Instances of Observability for TLC.                                     *)
(***************************************************************************)
EXTENDS Observability

On(comps) == [on |-> TRUE, comps |-> comps]

\* PowerStore, where the metrics have a certificate too: everything, without
\* cert-manager, metrics only, and disabled.
PowerStoreModules ==
    {On(<<"otel-collector", "cert-manager", "metrics">>), On(<<"otel-collector", "metrics">>),
     On(<<"metrics", "cert-manager">>), [on |-> FALSE, comps |-> << >>]}
=============================================================================
