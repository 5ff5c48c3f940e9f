------------------------------ MODULE Teardown ------------------------------
(***************************************************************************)
(* What the service provider promises about the Kubernetes objects it      *)
(* owns, with no manager, no passes and no results in it.                  *)
(*                                                                         *)
(* Objects come and go in the clusters.  One bit, cleared, is the promise  *)
(* itself: "everything that is owned is gone".  While it stands no owned   *)
(* object exists, and none is created before it is withdrawn.  An object   *)
(* others depend on is only removed once those dependents are gone.        *)
(*                                                                         *)
(* Manager maps cleared to "Delete returned and AllDeleted says yes";      *)
(* FluxReconciler maps it to "the finalizer of the Flux object is off".    *)
(***************************************************************************)

CONSTANTS
    Keys,    \* the objects that may exist in the clusters
    Owned,   \* those that must be gone when cleared is announced
    Before   \* pairs <<d, k>>: d depends on k, so k may go only after d

VARIABLES
    api,     \* api[k]: "absent", "present", or "terminating" (finalizers left)
    cleared  \* the promise

vars == <<api, cleared>>

ObjectStates == {"absent", "present", "terminating"}

Init ==
    /\ api \in [Keys -> ObjectStates]
    /\ cleared = FALSE

\* The provider creates an object; never while the promise stands.
Create(k) ==
    /\ ~cleared
    /\ api[k] = "absent"
    /\ api' = [api EXCEPT ![k] = "present"]
    /\ UNCHANGED cleared

\* The provider deletes an object: at once, or as soon as finalizers are done.
Remove(k) ==
    /\ api[k] # "absent"
    /\ \A d \in Keys : <<d, k>> \in Before => api[d] = "absent"
    /\ \E s \in {"terminating", "absent"} : api' = [api EXCEPT ![k] = s]
    /\ UNCHANGED cleared

\* The last finalizer of a terminating object is taken off.
Vanish(k) ==
    /\ api[k] = "terminating"
    /\ api' = [api EXCEPT ![k] = "absent"]
    /\ UNCHANGED cleared

\* Somebody else creates or deletes an object that is not owned.
Meddle(k) ==
    /\ k \notin Owned
    /\ \E s \in ObjectStates : api' = [api EXCEPT ![k] = s]
    /\ UNCHANGED cleared

Announce ==
    /\ \A k \in Owned : api[k] = "absent"
    /\ cleared' = TRUE
    /\ UNCHANGED api

Withdraw ==
    /\ cleared' = FALSE
    /\ UNCHANGED api

Next ==
    \/ \E k \in Keys : Create(k) \/ Remove(k) \/ Vanish(k) \/ Meddle(k)
    \/ Announce
    \/ Withdraw

Spec == Init /\ [][Next]_vars

=============================================================================
