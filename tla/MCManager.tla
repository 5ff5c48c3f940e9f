----------------------------- MODULE MCManager ------------------------------
(***************************************************************************)
(* Manager configured the way flux_controller.go does it, cut down to one  *)
(* copied secret: the copy in the control plane first, then OCIRepository, *)
(* then the HelmRelease that depends on it.  A second plan stands for a    *)
(* changed ProviderConfig: another copy, the first one now an orphan.  A   *)
(* third has no copy and an object under the orphan policy, which the      *)
(* manager supports and flux_controller.go does not use.                   *)
(***************************************************************************)
EXTENDS Manager

CONSTANTS helmRelease, ociRepository, copyA, copyB

MCKeys == {helmRelease, ociRepository, copyA, copyB}
MCOwned == {helmRelease, ociRepository}
MCBefore == {<<helmRelease, ociRepository>>}

Object(k, deps, pol) == [key |-> k, dependsOn |-> deps, policy |-> pol]

CopyPlan(copy, stale) ==
    [objects |-> << Object(copy, {}, "delete"),
                    Object(ociRepository, {}, "delete"),
                    Object(helmRelease, {2}, "delete") >>,
     cleaners |-> << stale >>]

OrphanPlan ==
    [objects |-> << Object(ociRepository, {}, "delete"),
                    Object(helmRelease, {1}, "delete"),
                    Object(copyA, {}, "orphan") >>,
     cleaners |-> << {copyB}, {} >>]

AllPlans == {CopyPlan(copyA, {copyB}), CopyPlan(copyB, {copyA}), OrphanPlan}

=============================================================================
