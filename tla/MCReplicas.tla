----------------------------- MODULE MCReplicas -----------------------------
(***************************************************************************)
(* The objects that matter for a deletion, and a cleaner of each process   *)
(* that goes after a copy the plan does not have.                          *)
(***************************************************************************)
EXTENDS Replicas

CONSTANTS helmRelease, ociRepository, copy

MCKeys == {helmRelease, ociRepository, copy}
MCOwned == {helmRelease, ociRepository}
MCBefore == {<<helmRelease, ociRepository>>}

Object(k, deps) == [key |-> k, dependsOn |-> deps, policy |-> "delete"]

MCPlans == {[objects |-> << Object(ociRepository, {}), Object(helmRelease, {1}) >>,
             cleaners |-> << {copy} >>]}

=============================================================================
