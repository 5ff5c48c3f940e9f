------------------------------ MODULE Manager -------------------------------
(***************************************************************************)
(* The object manager of pkg/flux/manager.go: an ordered list of objects   *)
(* spread over clusters, each with dependencies and a deletion policy, and *)
(* a list of orphan cleaners.  Apply creates or updates every object;      *)
(* Delete deletes every object whose dependents are gone; both then run    *)
(* the cleaners.  Nothing is remembered between two calls: what a Delete   *)
(* call concludes it concludes from the API requests of that call alone.   *)
(*                                                                         *)
(* Each API request of a call is a step of its own, so the clusters change *)
(* between a check and the deletion that follows it.  (CreateOrUpdate's    *)
(* Get and write are one step: the write carries what the Get returned and *)
(* is refused if the object changed in between.)  Requests may fail,       *)
(* may take effect and still report an error (the answer is lost), the     *)
(* process may crash in the middle of a call, and objects nobody owns are  *)
(* created and deleted by others.  Each of these spends one of MaxUpsets.  *)
(*                                                                         *)
(* Left out: object contents and labels (FluxReconciler adds them) and the *)
(* wording of errors.                                                      *)
(***************************************************************************)
EXTENDS Naturals, Sequences

CONSTANTS
    Keys,       \* identities of API objects (cluster, kind, namespace, name)
    Owned,      \* keys created by this manager only
    Before,     \* <<d, k>>: the object d is declared to depend on k
    Plans,      \* what a manager may be configured with
    MaxUpsets   \* bound on failures, lost answers, crashes, foreign writes

Policies == {"delete", "orphan"}

\* A configured object: where it lives, the positions of the objects it
\* depends on, and its deletion policy.
ManagedObject == [key: Keys, dependsOn: SUBSET Nat, policy: Policies]

\* What a manager is built from: the objects of its clusters in the order in
\* which the clusters and objects were added, and for each cleaner the keys it
\* would regard as orphans.
Plan == [objects: Seq(ManagedObject), cleaners: Seq(SUBSET Keys)]

ASSUME OwnedAssumption == Owned \subseteq Keys
ASSUME BeforeAssumption == Before \subseteq Owned \X Keys
ASSUME UpsetsAssumption == MaxUpsets \in Nat
ASSUME PlansAssumption == Plans \subseteq Plan

\* A plan manages every owned object, and with the policy that deletes it.
Complete(p) ==
    \A k \in Owned : \E i \in DOMAIN p.objects :
        p.objects[i].key = k /\ p.objects[i].policy = "delete"

\* A plan declares the dependencies in Before.
Declared(p) ==
    \A d \in Owned, k \in Keys : <<d, k>> \in Before =>
        \A i \in DOMAIN p.objects : p.objects[i].key = k =>
            \E j \in DOMAIN p.objects :
                p.objects[j].key = d /\ i \in p.objects[j].dependsOn

\* No cleaner goes after an object that something owned depends on.
CleanersSpare(p) ==
    \A d \in Owned, k \in Keys : <<d, k>> \in Before =>
        \A c \in DOMAIN p.cleaners : k \notin p.cleaners[c]

ASSUME PlansFit == \A p \in Plans : Complete(p) /\ Declared(p) /\ CleanersSpare(p)

VARIABLES
    api,      \* the clusters: api[k] is "absent", "present" or "terminating"
    leaving,  \* the caller wants everything gone, and calls Delete only
    phase,    \* where the call is: "idle", "objects", "cleaners", "returned"
    isDeletion, \* the parameter of reconcileObjects
    plan,     \* the configuration of this call's manager
    pos,      \* position of the object reconcileObject works on
    seen,     \* positions of the dependents already looked up for it
    blocked,  \* one of these lookups returned an error
    results,  \* the results so far
    cleaner,  \* index of the running cleaner
    orphans,  \* what its List returned and is not yet deleted
    listed,   \* the running cleaner has done its List
    cleanupErr, \* the error of a cleaner that gave up
    upsets    \* what is left of MaxUpsets

passVars == <<isDeletion, plan, pos, seen, blocked, results, cleaner, orphans,
              listed, cleanupErr>>
vars == <<api, leaving, phase, passVars, upsets>>

ObjectStates == {"absent", "present", "terminating"}
OperationResults == {"created", "updated", "none", "deleted",
                     "deletionRequested", "deletionFailed"}
Result == [op: OperationResults, err: BOOLEAN]
OperationResultOrphaned == "deleted"
NoPlan == [objects |-> <<>>, cleaners |-> <<>>]

TypeOK ==
    /\ api \in [Keys -> ObjectStates]
    /\ leaving \in BOOLEAN
    /\ phase \in {"idle", "objects", "cleaners", "returned"}
    /\ isDeletion \in BOOLEAN
    /\ plan \in Plans \cup {NoPlan}
    /\ pos \in Nat \ {0}
    /\ seen \subseteq Nat
    /\ blocked \in BOOLEAN
    /\ results \in Seq(Result)
    /\ cleaner \in Nat \ {0}
    /\ orphans \subseteq Keys
    /\ listed \in BOOLEAN
    /\ cleanupErr \in BOOLEAN
    /\ upsets \in 0 .. MaxUpsets

\* getDependents, for the object at position i.
Dependents(i) == {j \in DOMAIN plan.objects : i \in plan.objects[j].dependsOn}

Current == plan.objects[pos]
Unseen == Dependents(pos) \ seen

\* Mutant: a requested deletion counts as done.
AllDeletedOrRequested(rs) ==
    \A i \in DOMAIN rs : rs[i].op \in {"deleted", "deletionRequested"}

AllDeleted(rs) == \A i \in DOMAIN rs : rs[i].op = "deleted"

-----------------------------------------------------------------------------
(* Calls *)

\* Mutant: the loop over the objects starts one too early.
ResetToZero ==
    /\ isDeletion' = FALSE /\ plan' = NoPlan /\ pos' = 0
    /\ seen' = {} /\ blocked' = FALSE /\ results' = <<>>
    /\ cleaner' = 1 /\ orphans' = {} /\ listed' = FALSE /\ cleanupErr' = FALSE

\* The state between two calls; a new manager is built for each of them.
Reset ==
    /\ isDeletion' = FALSE
    /\ plan' = NoPlan
    /\ pos' = 1
    /\ seen' = {}
    /\ blocked' = FALSE
    /\ results' = <<>>
    /\ cleaner' = 1
    /\ orphans' = {}
    /\ listed' = FALSE
    /\ cleanupErr' = FALSE

Init ==
    /\ api \in [Keys -> ObjectStates]
    /\ leaving = FALSE
    /\ phase = "idle"
    /\ isDeletion = FALSE
    /\ plan = NoPlan
    /\ pos = 1
    /\ seen = {}
    /\ blocked = FALSE
    /\ results = <<>>
    /\ cleaner = 1
    /\ orphans = {}
    /\ listed = FALSE
    /\ cleanupErr = FALSE
    /\ upsets = MaxUpsets

\* NewManager, AddCluster, AddCleaner, then Apply or Delete.
Call(del, p) ==
    /\ phase = "idle"
    /\ phase' = "objects"
    /\ isDeletion' = del
    /\ plan' = p
    /\ UNCHANGED <<api, pos, seen, blocked, results, cleaner, orphans, listed,
                   cleanupErr>>

-----------------------------------------------------------------------------
(* reconcileObject *)

AtObject == phase = "objects" /\ pos \in DOMAIN plan.objects

\* Mutant: what was found out for one object is kept for the next.
ConcludeKeepingSeen(op, err) ==
    /\ results' = Append(results, [op |-> op, err |-> err])
    /\ pos' = pos + 1
    /\ blocked' = FALSE
    /\ UNCHANGED <<phase, isDeletion, plan, seen, cleaner, orphans, listed,
                   cleanupErr>>

\* Mutant: the first error ends the loop over the objects.
ConcludeOrStop(op, err) ==
    /\ results' = Append(results, [op |-> op, err |-> err])
    /\ pos' = IF err THEN Len(plan.objects) + 1 ELSE pos + 1
    /\ seen' = {} /\ blocked' = FALSE
    /\ UNCHANGED <<phase, isDeletion, plan, cleaner, orphans, listed,
                   cleanupErr>>

\* reconcileObject returns: its result is appended and the loop goes on.
Conclude(op, err) ==
    /\ results' = Append(results, [op |-> op, err |-> err])
    /\ pos' = pos + 1
    /\ seen' = {}
    /\ blocked' = FALSE
    /\ UNCHANGED <<phase, isDeletion, plan, cleaner, orphans, listed,
                   cleanupErr>>

\* controllerutil.CreateOrUpdate: an object that is still terminating is
\* updated and goes on terminating.  An unchanged object counts as updated.
CreateOrUpdate ==
    /\ AtObject /\ ~isDeletion
    /\ api' = [api EXCEPT ![Current.key] = IF @ = "absent" THEN "present" ELSE @]
    /\ Conclude(IF api[Current.key] = "absent" THEN "created" ELSE "updated",
                FALSE)

\* The object's reconcile function returns an error, because the source of a
\* copy is missing, say, and nothing is written.
ReconcileFails ==
    /\ AtObject /\ ~isDeletion
    /\ UNCHANGED api
    /\ Conclude("none", TRUE)

\* The request fails, or only the answer to one that took effect.
CreateOrUpdateFails ==
    /\ AtObject /\ ~isDeletion
    /\ \/ UNCHANGED api
       \/ /\ api[Current.key] = "absent"
          /\ api' = [api EXCEPT ![Current.key] = "present"]
    /\ Conclude("none", TRUE)

\* Mutant: a dependent that is being deleted counts as gone.
CheckForPresentDependent(fails) ==
    /\ AtObject /\ isDeletion
    /\ \E j \in Unseen :
        /\ \A i \in Unseen : j <= i
        /\ seen' = seen \cup {j}
        /\ blocked' = (blocked \/ fails \/ api[plan.objects[j].key] = "present")
    /\ UNCHANGED <<api, phase, isDeletion, plan, pos, results, cleaner, orphans,
                   listed, cleanupErr>>

\* Mutant: "not found" is an error like any other.
CheckForDependentStrictly(fails) ==
    /\ AtObject /\ isDeletion
    /\ \E j \in Unseen :
        /\ \A i \in Unseen : j <= i
        /\ seen' = seen \cup {j}
        /\ blocked' = TRUE
    /\ UNCHANGED <<api, phase, isDeletion, plan, pos, results, cleaner, orphans,
                   listed, cleanupErr>>

\* One Get of checkForDependents.  Only "not found" is a success.
CheckForDependent(fails) ==
    /\ AtObject /\ isDeletion
    /\ \E j \in Unseen :
        /\ \A i \in Unseen : j <= i
        /\ seen' = seen \cup {j}
        /\ blocked' = (blocked \/ fails \/ api[plan.objects[j].key] # "absent")
    /\ UNCHANGED <<api, phase, isDeletion, plan, pos, results, cleaner, orphans,
                   listed, cleanupErr>>

\* checkForDependents returned an error: nothing is deleted.
StillDependedOn ==
    /\ AtObject /\ isDeletion /\ Unseen = {} /\ blocked
    /\ UNCHANGED api
    /\ Conclude("none", TRUE)

MayDelete == AtObject /\ isDeletion /\ Unseen = {} /\ ~blocked

OrphanObject ==
    /\ MayDelete /\ Current.policy = "orphan"
    /\ UNCHANGED api
    /\ Conclude(OperationResultOrphaned, FALSE)

\* What the API server makes of a delete request.
Deletes(k) ==
    \E s \in {"terminating", "absent"} :
        /\ s = "terminating" \/ api[k] = "present"
        /\ api' = [api EXCEPT ![k] = s]

DeleteObject ==
    /\ MayDelete /\ Current.policy = "delete"
    /\ \/ /\ api[Current.key] = "absent"
          /\ UNCHANGED api
          /\ Conclude("deleted", FALSE)
       \/ /\ api[Current.key] # "absent"
          /\ Deletes(Current.key)
          /\ Conclude("deletionRequested", FALSE)

\* The request or only its answer is lost.
DeleteObjectFails ==
    /\ MayDelete /\ Current.policy = "delete"
    /\ \/ UNCHANGED api
       \/ api[Current.key] # "absent" /\ Deletes(Current.key)
    /\ Conclude("deletionRequested", TRUE)

EndObjects ==
    /\ phase = "objects" /\ pos \notin DOMAIN plan.objects
    /\ phase' = "cleaners"
    /\ UNCHANGED <<api, passVars>>

-----------------------------------------------------------------------------
(* OrphanCleaner.Cleanup *)

AtCleaner == phase = "cleaners" /\ cleaner \in DOMAIN plan.cleaners

\* The keys of this cleaner that its List may return: those with the label.
Orphans == {k \in plan.cleaners[cleaner] : api[k] # "absent"}

ListOrphans(found) ==
    /\ AtCleaner /\ ~listed
    /\ listed' = TRUE
    /\ orphans' = found
    /\ UNCHANGED <<api, phase, isDeletion, plan, pos, seen, blocked, results,
                   cleaner, cleanupErr>>

\* A cleaner that cannot list ends the call: later cleaners do not run.
ListOrphansFails ==
    /\ AtCleaner /\ ~listed
    /\ cleanupErr' = TRUE
    /\ phase' = "returned"
    /\ UNCHANGED <<api, isDeletion, plan, pos, seen, blocked, results, cleaner,
                   orphans, listed>>

\* A listed object is deleted; "not found" is ignored, any other error becomes
\* a result and the cleaner goes on.
DeleteOrphan(k) ==
    /\ AtCleaner /\ k \in orphans
    /\ orphans' = orphans \ {k}
    /\ IF api[k] = "absent" THEN UNCHANGED api ELSE Deletes(k)
    /\ UNCHANGED <<phase, isDeletion, plan, pos, seen, blocked, results,
                   cleaner, listed, cleanupErr>>

DeleteOrphanFails(k) ==
    /\ AtCleaner /\ k \in orphans
    /\ orphans' = orphans \ {k}
    /\ \/ UNCHANGED api
       \/ api[k] # "absent" /\ Deletes(k)
    /\ results' = Append(results, [op |-> "deletionFailed", err |-> TRUE])
    /\ UNCHANGED <<phase, isDeletion, plan, pos, seen, blocked, cleaner, listed,
                   cleanupErr>>

EndCleaner ==
    /\ AtCleaner /\ listed /\ orphans = {}
    /\ cleaner' = cleaner + 1
    /\ listed' = FALSE
    /\ UNCHANGED <<api, phase, isDeletion, plan, pos, seen, blocked, results,
                   orphans, cleanupErr>>

\* reconcileObjects returns.
EndCleaners ==
    /\ phase = "cleaners" /\ cleaner \notin DOMAIN plan.cleaners
    /\ phase' = "returned"
    /\ UNCHANGED <<api, passVars>>

-----------------------------------------------------------------------------
(* The caller and the rest of the world *)

\* The caller's test before it lets go of the finalizer.
Verdict ==
    /\ phase = "returned" /\ isDeletion
    /\ AllDeleted(results) /\ ~cleanupErr

\* The caller has taken note of the results and drops the manager.
Take ==
    /\ phase = "returned"
    /\ phase' = "idle"
    /\ leaving' = (leaving /\ ~Verdict)
    /\ Reset
    /\ UNCHANGED <<api, upsets>>

StartApply(p) == ~leaving /\ Call(FALSE, p) /\ UNCHANGED <<leaving, upsets>>
StartDelete(p) == leaving /\ Call(TRUE, p) /\ UNCHANGED <<leaving, upsets>>

RequestDeletion ==
    /\ ~leaving
    /\ leaving' = TRUE
    /\ UNCHANGED <<api, phase, passVars, upsets>>

Vanish(k) ==
    /\ api[k] = "terminating"
    /\ api' = [api EXCEPT ![k] = "absent"]
    /\ UNCHANGED <<leaving, phase, passVars, upsets>>

Upset == upsets > 0 /\ upsets' = upsets - 1 /\ UNCHANGED leaving

Meddle(k) ==
    /\ Upset
    /\ k \notin Owned
    /\ \E s \in ObjectStates \ {api[k]} : api' = [api EXCEPT ![k] = s]
    /\ UNCHANGED <<phase, passVars>>

\* What happens to the contents of objects and to their sources.
MeddleElsewhere == Upset /\ UNCHANGED <<api, phase, passVars>>

Crash ==
    /\ Upset
    /\ phase # "idle"
    /\ phase' = "idle"
    /\ Reset
    /\ UNCHANGED api

\* The steps of a call that meets no trouble.
Work ==
    /\ \/ CreateOrUpdate \/ CheckForDependent(FALSE) \/ StillDependedOn
       \/ ReconcileFails
       \/ OrphanObject \/ DeleteObject \/ EndObjects
       \/ AtCleaner /\ \E found \in SUBSET Orphans : ListOrphans(found)
       \/ \E k \in orphans : DeleteOrphan(k)
       \/ EndCleaner \/ EndCleaners
    /\ UNCHANGED <<leaving, upsets>>

Trouble ==
    /\ \/ CreateOrUpdateFails \/ CheckForDependent(TRUE) \/ DeleteObjectFails
       \/ ListOrphansFails
       \/ \E k \in orphans : DeleteOrphanFails(k)
    /\ Upset

Next ==
    \/ \E p \in Plans : StartApply(p) \/ StartDelete(p)
    \/ Work
    \/ Trouble
    \/ Take
    \/ RequestDeletion
    \/ \E k \in Keys : Vanish(k) \/ Meddle(k)
    \/ MeddleElsewhere
    \/ Crash

Spec == Init /\ [][Next]_vars

(***************************************************************************)
(* The worker runs on, the caller calls again while it is leaving (its     *)
(* requeue interval, or the runtime's retry after an error), finalizers    *)
(* of terminating objects are eventually done.                             *)
(***************************************************************************)
Fairness ==
    /\ WF_vars(Work)
    /\ WF_vars(Take)
    /\ WF_vars(\E p \in Plans : StartDelete(p))
    /\ \A k \in Keys : WF_vars(Vanish(k))

FairSpec == Spec /\ Fairness

-----------------------------------------------------------------------------
(* Properties *)

\* Between two calls nothing is left of the last one.
IdleClean ==
    phase = "idle" =>
        pos = 1 /\ seen = {} /\ results = <<>> /\ orphans = {} /\ ~isDeletion

Configured == phase # "idle" => plan \in Plans

\* A single failing object does not keep the call from attempting the others:
\* a call that returns has a result for every configured object
\* (manager.go:94-99; only cleaners end a call early).
EveryObjectAttempted ==
    /\ phase = "objects" => Len(results) = pos - 1
    /\ phase \in {"cleaners", "returned"} =>
        Len(results) >= Len(plan.objects)

\* The loop over the objects is over before the cleaners start.
ObjectsDone == phase \in {"cleaners", "returned"} => pos \notin DOMAIN plan.objects

\* The objects a Delete call has seen gone are gone.
DeletedAreGone ==
    (phase # "idle" /\ isDeletion) =>
        \A i \in DOMAIN plan.objects :
            (/\ i < pos
             /\ results[i].op = "deleted"
             /\ plan.objects[i].policy = "delete"
             /\ plan.objects[i].key \in Owned)
            => api[plan.objects[i].key] = "absent"

\* So are the dependents it has looked up without finding one.
SeenAreGone ==
    (phase = "objects" /\ isDeletion /\ ~blocked) =>
        \A j \in seen \cap DOMAIN plan.objects :
            plan.objects[j].key \in Owned => api[plan.objects[j].key] = "absent"

\* A cleaner works on its own orphans only.
OrphansAreListed ==
    /\ phase = "objects" => orphans = {}
    /\ phase = "cleaners" => \A k \in orphans :
        cleaner \in DOMAIN plan.cleaners /\ k \in plan.cleaners[cleaner]

\* What a call knows stays true until it is used: everything above together.
\* This is the inductive invariant behind VerdictSound and PromiseKept; a
\* Delete call may act on answers that are many requests old, and while it
\* runs only its own manager could make them wrong (manager.go:89-184).
CallInv ==
    /\ IdleClean
    /\ Configured
    /\ EveryObjectAttempted
    /\ ObjectsDone
    /\ DeletedAreGone
    /\ SeenAreGone
    /\ OrphansAreListed

\* When Delete returns, reports every object as deleted and no cleaner error,
\* then no owned object is left: results gathered over many requests, with
\* crashes, lost answers and finalizers in between, are not stale when the
\* caller acts on them (manager.go:218 as used by flux_controller.go:88).
VerdictSound == Verdict => \A k \in Owned : api[k] = "absent"

\* The manager keeps the promise of Teardown: objects are created only before
\* they are declared gone, an object goes only after those that depend on it,
\* whatever requests fail or get lost (manager.go:113-184).
T == INSTANCE Teardown WITH cleared <- Verdict
PromiseKept == T!Spec

\* Deletion terminates: once everything is to go, repeated Delete calls end in
\* the verdict that lets the caller release its finalizer.
EventuallyReleased == leaving ~> ~leaving

=============================================================================
