------------------------------ MODULE Replicas ------------------------------
(***************************************************************************)
(* Two processes of the run command during a rolling update: the old one   *)
(* is stopped once the new one runs.  Each has a worker of its own for the *)
(* Flux object, so two calls of the object manager (Manager) may be under  *)
(* way on the same objects, one applying what the other deletes, unless    *)
(* leader election keeps one of the processes waiting.  It is off by       *)
(* default.                                                                *)
(*                                                                         *)
(* A process that loses its lease exits at once, and so does its call; a   *)
(* request it has sent is taken to be answered or lost by the time the     *)
(* other process gets the lease.  The lease of a dead process expires.     *)
(***************************************************************************)
EXTENDS Naturals, Sequences

CONSTANTS
    Keys, Owned, Before, Plans,  \* as in Manager
    MaxUpsets,       \* bound on failing requests, crashes, lost leases
    LeaderElection   \* the flag --leader-elect

ASSUME LeaderElectionAssumption == LeaderElection \in BOOLEAN

Processes == {"old", "new"}

VARIABLES
    api,     \* state of each object, as in Manager
    stage,   \* of the Flux object: "live", "deleting", "gone"
    upsets,  \* what is left of MaxUpsets
    running, \* the processes that run
    leader,  \* the holder of the lease, or "none"
    \* the call of the old process, as in Manager
    phase, isDeletion, plan, pos, seen, blocked, results, cleaner, orphans,
    listed, cleanupErr,
    \* the call of the new process
    phase2, isDeletion2, plan2, pos2, seen2, blocked2, results2, cleaner2,
    orphans2, listed2, cleanupErr2

oldVars == <<phase, isDeletion, plan, pos, seen, blocked, results, cleaner,
             orphans, listed, cleanupErr>>
newVars == <<phase2, isDeletion2, plan2, pos2, seen2, blocked2, results2,
             cleaner2, orphans2, listed2, cleanupErr2>>
processVars == <<running, leader>>
vars == <<api, stage, upsets, processVars, oldVars, newVars>>

O == INSTANCE Manager WITH leaving <- (stage = "deleting")
N == INSTANCE Manager WITH
        leaving <- (stage = "deleting"),
        phase <- phase2, isDeletion <- isDeletion2, plan <- plan2, pos <- pos2,
        seen <- seen2, blocked <- blocked2, results <- results2,
        cleaner <- cleaner2, orphans <- orphans2, listed <- listed2,
        cleanupErr <- cleanupErr2

ASSUME KeysAssumption == Owned \subseteq Keys /\ Before \subseteq Owned \X Keys
ASSUME UpsetsAssumption == MaxUpsets \in Nat
ASSUME PlansAssumption == Plans \subseteq O!Plan
ASSUME PlansFit ==
    \A p \in Plans : O!Complete(p) /\ O!Declared(p) /\ O!CleanersSpare(p)

TypeOK ==
    /\ O!TypeOK
    /\ N!TypeOK
    /\ stage \in {"live", "deleting", "gone"}
    /\ running \subseteq Processes
    /\ leader \in Processes \cup {"none"}

Init ==
    /\ stage = "live"
    /\ O!Init
    /\ phase2 = "idle" /\ isDeletion2 = FALSE /\ plan2 = N!NoPlan /\ pos2 = 1
    /\ seen2 = {} /\ blocked2 = FALSE /\ results2 = <<>> /\ cleaner2 = 1
    /\ orphans2 = {} /\ listed2 = FALSE /\ cleanupErr2 = FALSE
    /\ running = {"old"}
    /\ leader = "none"

-----------------------------------------------------------------------------
(* The processes *)

\* Mutant: the flag is not handed to the manager.
MayActAlways(r) == r \in running

\* The controllers of a process only start when it is elected.
MayAct(r) == r \in running /\ (LeaderElection => leader = r)

Acquire(r) ==
    /\ LeaderElection
    /\ r \in running /\ leader = "none"
    /\ leader' = r
    /\ UNCHANGED <<api, stage, upsets, running, oldVars, newVars>>

Surge ==
    /\ running = {"old"}
    /\ running' = Processes
    /\ UNCHANGED <<api, stage, upsets, leader, oldVars, newVars>>

\* Mutant: a process takes its lease along.
HolderStays(r) == UNCHANGED leader

\* The lease is not released by a process that ends, but not renewed either.
Expire(r) == leader' = IF leader = r THEN "none" ELSE leader

DropCall(r) ==
    IF r = "old" THEN O!Reset /\ phase' = "idle" /\ UNCHANGED newVars
                 ELSE N!Reset /\ phase2' = "idle" /\ UNCHANGED oldVars

\* The old process is told to stop when the new one runs.
Retire ==
    /\ running = Processes
    /\ running' = {"new"}
    /\ DropCall("old")
    /\ Expire("old")
    /\ UNCHANGED <<api, stage, upsets>>

\* A process crashes or loses its lease, which ends it too; it starts again.
Restart(r) ==
    /\ r \in running
    /\ upsets > 0 /\ upsets' = upsets - 1
    /\ DropCall(r)
    /\ Expire(r)
    /\ UNCHANGED <<api, stage, running>>

-----------------------------------------------------------------------------
(* Their calls *)

Reconcile(r) ==
    /\ MayAct(r)
    /\ UNCHANGED <<stage, processVars>>
    /\ \E p \in Plans :
        IF r = "old"
        THEN /\ UNCHANGED newVars
             /\ \/ stage = "live" /\ O!StartApply(p)
                \/ O!StartDelete(p)
        ELSE /\ UNCHANGED oldVars
             /\ \/ stage = "live" /\ N!StartApply(p)
                \/ N!StartDelete(p)

\* A process without the lease has no call under way.
Work(r) ==
    /\ UNCHANGED <<stage, processVars>>
    /\ IF r = "old" THEN O!Work /\ UNCHANGED newVars
                    ELSE N!Work /\ UNCHANGED oldVars

Trouble(r) ==
    /\ UNCHANGED <<stage, processVars>>
    /\ IF r = "old" THEN O!Trouble /\ UNCHANGED newVars
                    ELSE N!Trouble /\ UNCHANGED oldVars

\* The finalizer goes with the verdict.
Take(r) ==
    /\ UNCHANGED processVars
    /\ IF r = "old"
       THEN /\ stage' = IF O!Verdict THEN "gone" ELSE stage
            /\ O!Take /\ UNCHANGED newVars
       ELSE /\ stage' = IF N!Verdict THEN "gone" ELSE stage
            /\ N!Take /\ UNCHANGED oldVars

RequestDeletion ==
    /\ stage = "live"
    /\ stage' = "deleting"
    /\ UNCHANGED <<api, upsets, processVars, oldVars, newVars>>

Vanish(k) ==
    /\ api[k] = "terminating"
    /\ api' = [api EXCEPT ![k] = "absent"]
    /\ UNCHANGED <<stage, upsets, processVars, oldVars, newVars>>

-----------------------------------------------------------------------------

Process(r) == Acquire(r) \/ Reconcile(r) \/ Work(r) \/ Trouble(r) \/ Take(r) \/ Restart(r)

Next ==
    \/ \E r \in Processes : Process(r)
    \/ Surge
    \/ Retire
    \/ RequestDeletion
    \/ \E k \in Keys : Vanish(k)

Spec == Init /\ [][Next]_vars

\* As for Manager, and a lease that nobody holds is taken.
Fairness ==
    /\ \A r \in Processes : WF_vars(Reconcile(r)) /\ WF_vars(Work(r)) /\ WF_vars(Take(r))
    /\ WF_vars(\E r \in Processes : Acquire(r))
    /\ \A k \in Keys : WF_vars(Vanish(k))

FairSpec == Spec /\ Fairness

-----------------------------------------------------------------------------
(* Properties *)

\* While a rolling update, lost leases and crashes move the work from one
\* process to another in the middle of a call, the promise is kept: nothing is
\* created after the finalizer is gone, no dependency goes before its dependent
\* (manager.go:113-184 under main.go:311).
T == INSTANCE Teardown WITH cleared <- (stage = "gone")
PromiseKept == T!Spec

\* Deletion terminates although the process that began it may be replaced.
EventuallyReleased == stage = "deleting" ~> stage = "gone"

\* docs/overview/manager-pattern.md:88 says of the deletion of a Flux object:
\* "No orphaned Flux deployments remain on the ManagedControlPlane".  So once
\* the finalizer is gone, no owned object exists.
NothingLeft == stage = "gone" => \A k \in Owned : api[k] = "absent"

=============================================================================
