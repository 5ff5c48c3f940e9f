--------------------------- MODULE ReplicasProofs ---------------------------
(***************************************************************************)
(* Proofs about Replicas.  With leader election one process at most has a  *)
(* call under way, so what Manager's lemmas say of a single call holds of  *)
(* both processes in turn, wherever the work passes from one to the other. *)
(***************************************************************************)
EXTENDS Replicas, TLAPS

OP == INSTANCE ManagerProofs WITH leaving <- (stage = "deleting")
NP == INSTANCE ManagerProofs WITH
        leaving <- (stage = "deleting"),
        phase <- phase2, isDeletion <- isDeletion2, plan <- plan2, pos <- pos2,
        seen <- seen2, blocked <- blocked2, results <- results2,
        cleaner <- cleaner2, orphans <- orphans2, listed <- listed2,
        cleanupErr <- cleanupErr2

-----------------------------------------------------------------------------
(* The calls of the processes are calls of Manager *)

LEMMA OldFits ==
    /\ Owned \subseteq Keys
    /\ Before \subseteq Owned \X Keys
    /\ MaxUpsets \in Nat
    /\ Plans \subseteq OP!Plan
    /\ \A p \in Plans : OP!Complete(p) /\ OP!Declared(p) /\ OP!CleanersSpare(p)
  BY KeysAssumption, UpsetsAssumption, PlansAssumption, PlansFit
     DEF O!Plan, O!ManagedObject, O!Policies, O!Complete, O!Declared, O!CleanersSpare,
         OP!Plan, OP!ManagedObject, OP!Policies, OP!Complete, OP!Declared, OP!CleanersSpare

LEMMA NewFits ==
    /\ Owned \subseteq Keys
    /\ Before \subseteq Owned \X Keys
    /\ MaxUpsets \in Nat
    /\ Plans \subseteq NP!Plan
    /\ \A p \in Plans : NP!Complete(p) /\ NP!Declared(p) /\ NP!CleanersSpare(p)
  BY KeysAssumption, UpsetsAssumption, PlansAssumption, PlansFit
     DEF O!Plan, O!ManagedObject, O!Policies, O!Complete, O!Declared, O!CleanersSpare,
         NP!Plan, NP!ManagedObject, NP!Policies, NP!Complete, NP!Declared, NP!CleanersSpare

LEMMA OldWorks ==
    ASSUME O!Work
    PROVE  OP!Work
  BY DEF O!Work, O!CreateOrUpdate, O!ReconcileFails,
         O!CheckForDependent, O!StillDependedOn,
         O!OrphanObject, O!DeleteObject, O!EndObjects, O!ListOrphans, O!Orphans,
         O!DeleteOrphan, O!EndCleaner, O!EndCleaners, O!AtObject, O!AtCleaner,
         O!MayDelete, O!Current, O!Unseen, O!Dependents, O!Conclude, O!Deletes,
         O!passVars, O!OperationResultOrphaned,
         OP!Work, OP!CreateOrUpdate, OP!ReconcileFails,
         OP!CheckForDependent, OP!StillDependedOn,
         OP!OrphanObject, OP!DeleteObject, OP!EndObjects, OP!ListOrphans, OP!Orphans,
         OP!DeleteOrphan, OP!EndCleaner, OP!EndCleaners, OP!AtObject, OP!AtCleaner,
         OP!MayDelete, OP!Current, OP!Unseen, OP!Dependents, OP!Conclude, OP!Deletes,
         OP!passVars, OP!OperationResultOrphaned

LEMMA OldFails ==
    ASSUME O!Trouble
    PROVE  OP!Trouble
  BY DEF O!Trouble, O!CreateOrUpdateFails, O!CheckForDependent,
         O!DeleteObjectFails, O!ListOrphansFails, O!DeleteOrphanFails, O!AtObject,
         O!AtCleaner, O!MayDelete, O!Current, O!Unseen, O!Dependents, O!Conclude,
         O!Deletes, O!Upset,
         OP!Trouble, OP!CreateOrUpdateFails, OP!CheckForDependent,
         OP!DeleteObjectFails, OP!ListOrphansFails, OP!DeleteOrphanFails, OP!AtObject,
         OP!AtCleaner, OP!MayDelete, OP!Current, OP!Unseen, OP!Dependents, OP!Conclude,
         OP!Deletes, OP!Upset

LEMMA NewWorks ==
    ASSUME N!Work
    PROVE  NP!Work
  BY DEF N!Work, N!CreateOrUpdate, N!ReconcileFails,
         N!CheckForDependent, N!StillDependedOn,
         N!OrphanObject, N!DeleteObject, N!EndObjects, N!ListOrphans, N!Orphans,
         N!DeleteOrphan, N!EndCleaner, N!EndCleaners, N!AtObject, N!AtCleaner,
         N!MayDelete, N!Current, N!Unseen, N!Dependents, N!Conclude, N!Deletes,
         N!passVars, N!OperationResultOrphaned,
         NP!Work, NP!CreateOrUpdate, NP!ReconcileFails,
         NP!CheckForDependent, NP!StillDependedOn,
         NP!OrphanObject, NP!DeleteObject, NP!EndObjects, NP!ListOrphans, NP!Orphans,
         NP!DeleteOrphan, NP!EndCleaner, NP!EndCleaners, NP!AtObject, NP!AtCleaner,
         NP!MayDelete, NP!Current, NP!Unseen, NP!Dependents, NP!Conclude, NP!Deletes,
         NP!passVars, NP!OperationResultOrphaned

LEMMA NewFails ==
    ASSUME N!Trouble
    PROVE  NP!Trouble
  BY DEF N!Trouble, N!CreateOrUpdateFails, N!CheckForDependent,
         N!DeleteObjectFails, N!ListOrphansFails, N!DeleteOrphanFails, N!AtObject,
         N!AtCleaner, N!MayDelete, N!Current, N!Unseen, N!Dependents, N!Conclude,
         N!Deletes, N!Upset,
         NP!Trouble, NP!CreateOrUpdateFails, NP!CheckForDependent,
         NP!DeleteObjectFails, NP!ListOrphansFails, NP!DeleteOrphanFails, NP!AtObject,
         NP!AtCleaner, NP!MayDelete, NP!Current, NP!Unseen, NP!Dependents, NP!Conclude,
         NP!Deletes, NP!Upset

LEMMA OldMoves ==
    ASSUME Reconcile("old") \/ Work("old") \/ Trouble("old") \/ Take("old")
    PROVE  OP!Next /\ UNCHANGED <<newVars, processVars>>
  <1>1. CASE Reconcile("old")
    BY <1>1 DEF Reconcile, O!StartApply, O!StartDelete, O!Call,
                OP!StartApply, OP!StartDelete, OP!Call, OP!Next
  <1>2. CASE Work("old")
    BY <1>2, OldWorks DEF Work, OP!Next
  <1>3. CASE Trouble("old")
    BY <1>3, OldFails DEF Trouble, OP!Next
  <1>4. CASE Take("old")
    <2>1. OP!Take
      BY <1>4 DEF Take, O!Take, OP!Take, O!Reset, OP!Reset, O!NoPlan,
                  OP!NoPlan, O!Verdict, OP!Verdict, O!AllDeleted, OP!AllDeleted
    <2>. QED  BY <1>4, <2>1 DEF Take, OP!Next
  <1>. QED  BY <1>1, <1>2, <1>3, <1>4

LEMMA OldKeepsTypes ==
    ASSUME OP!TypeOK, OP!Next
    PROVE  OP!TypeOK'
  BY OldFits, OP!TypeStep

LEMMA OldKeepsInv ==
    ASSUME OP!TypeOK, OP!CallInv, OP!Next
    PROVE  OP!CallInv'
  BY OldFits, OP!CallInvStep

LEMMA OldDropsCall ==
    ASSUME DropCall("old")
    PROVE  OP!PassTypes' /\ OP!CallInv' /\ phase' = "idle" /\ UNCHANGED newVars
  <1>1. OP!Reset /\ phase' = "idle" /\ UNCHANGED newVars
    BY DEF DropCall, O!Reset, OP!Reset, O!NoPlan, OP!NoPlan
  <1>. QED  BY <1>1, OldFits, OP!ResetType, OP!ResetInv

LEMMA OldWaitsTypes ==
    ASSUME OP!TypeOK, UNCHANGED oldVars
    PROVE  OP!PassTypes'
  BY DEF oldVars, OP!TypeOK, OP!PassTypes

LEMMA OldWaitsInv ==
    ASSUME OP!CallInv, phase = "idle", UNCHANGED oldVars
    PROVE  OP!CallInv'
  BY DEF oldVars, OP!CallInv, OP!IdleClean, OP!Configured, OP!EveryObjectAttempted,
         OP!ObjectsDone, OP!DeletedAreGone, OP!SeenAreGone, OP!OrphansAreListed

LEMMA OldUndisturbed ==
    ASSUME OP!TypeOK, OP!CallInv, UNCHANGED oldVars,
           \/ UNCHANGED api
           \/ \E k \in Keys : api' = [api EXCEPT ![k] = "absent"]
    PROVE  OP!CallInv'
  <1>1. OP!OwnedStayGone
    BY KeysAssumption DEF OP!OwnedStayGone, OP!TypeOK
  <1>2. UNCHANGED <<phase, OP!passVars>>
    BY DEF oldVars, OP!passVars
  <1>. QED  BY <1>1, <1>2, OldFits, OP!OutsideInv

LEMMA NewMoves ==
    ASSUME Reconcile("new") \/ Work("new") \/ Trouble("new") \/ Take("new")
    PROVE  NP!Next /\ UNCHANGED <<oldVars, processVars>>
  <1>1. CASE Reconcile("new")
    BY <1>1 DEF Reconcile, N!StartApply, N!StartDelete, N!Call,
                NP!StartApply, NP!StartDelete, NP!Call, NP!Next
  <1>2. CASE Work("new")
    BY <1>2, NewWorks DEF Work, NP!Next
  <1>3. CASE Trouble("new")
    BY <1>3, NewFails DEF Trouble, NP!Next
  <1>4. CASE Take("new")
    <2>1. NP!Take
      BY <1>4 DEF Take, N!Take, NP!Take, N!Reset, NP!Reset, N!NoPlan,
                  NP!NoPlan, N!Verdict, NP!Verdict, N!AllDeleted, NP!AllDeleted
    <2>. QED  BY <1>4, <2>1 DEF Take, NP!Next
  <1>. QED  BY <1>1, <1>2, <1>3, <1>4

LEMMA NewKeepsTypes ==
    ASSUME NP!TypeOK, NP!Next
    PROVE  NP!TypeOK'
  BY NewFits, NP!TypeStep

LEMMA NewKeepsInv ==
    ASSUME NP!TypeOK, NP!CallInv, NP!Next
    PROVE  NP!CallInv'
  BY NewFits, NP!CallInvStep

LEMMA NewDropsCall ==
    ASSUME DropCall("new")
    PROVE  NP!PassTypes' /\ NP!CallInv' /\ phase2' = "idle" /\ UNCHANGED oldVars
  <1>1. NP!Reset /\ phase2' = "idle" /\ UNCHANGED oldVars
    BY DEF DropCall, N!Reset, NP!Reset, N!NoPlan, NP!NoPlan
  <1>. QED  BY <1>1, NewFits, NP!ResetType, NP!ResetInv

LEMMA NewWaitsTypes ==
    ASSUME NP!TypeOK, UNCHANGED newVars
    PROVE  NP!PassTypes'
  BY DEF newVars, NP!TypeOK, NP!PassTypes

LEMMA NewWaitsInv ==
    ASSUME NP!CallInv, phase2 = "idle", UNCHANGED newVars
    PROVE  NP!CallInv'
  BY DEF newVars, NP!CallInv, NP!IdleClean, NP!Configured, NP!EveryObjectAttempted,
         NP!ObjectsDone, NP!DeletedAreGone, NP!SeenAreGone, NP!OrphansAreListed

LEMMA NewUndisturbed ==
    ASSUME NP!TypeOK, NP!CallInv, UNCHANGED newVars,
           \/ UNCHANGED api
           \/ \E k \in Keys : api' = [api EXCEPT ![k] = "absent"]
    PROVE  NP!CallInv'
  <1>1. NP!OwnedStayGone
    BY KeysAssumption DEF NP!OwnedStayGone, NP!TypeOK
  <1>2. UNCHANGED <<phase2, NP!passVars>>
    BY DEF newVars, NP!passVars
  <1>. QED  BY <1>1, <1>2, NewFits, NP!OutsideInv

-----------------------------------------------------------------------------
(* Types *)

\* TypeOK, in terms of the modules with the proofs.
TypesOK ==
    /\ OP!TypeOK /\ NP!TypeOK
    /\ stage \in {"live", "deleting", "gone"}
    /\ running \subseteq Processes
    /\ leader \in Processes \cup {"none"}

\* A process's call moves.
Moves(r) == Reconcile(r) \/ Work(r) \/ Trouble(r) \/ Take(r)

\* Everything but the calls: processes start, get the lease, are stopped; the
\* Flux object is to go; finalizers are done.
Drops(r) ==
    /\ DropCall(r) /\ Expire(r)
    /\ UNCHANGED <<api, stage>>
    /\ upsets' \in 0 .. MaxUpsets

Outside ==
    /\ UNCHANGED <<oldVars, newVars, upsets>>
    /\ \/ UNCHANGED api
       \/ UNCHANGED stage /\ \E k \in Keys : T!Vanish(k)
    /\ \/ UNCHANGED <<stage, leader>>
       \/ UNCHANGED stage /\ leader = "none"
       \/ UNCHANGED leader /\ stage = "live" /\ stage' = "deleting"

LEMMA StepKinds ==
    ASSUME TypesOK, [Next]_vars
    PROVE  (\E r \in Processes : Moves(r) \/ Drops(r)) \/ Outside
  <1>1. ASSUME NEW r \in Processes, Process(r)
        PROVE  (\E q \in Processes : Moves(q) \/ Drops(q)) \/ Outside
    <2>1. CASE Acquire(r)
      BY <2>1 DEF Acquire, Outside
    <2>2. CASE Restart(r)
      BY <2>2, UpsetsAssumption DEF Restart, Drops, TypesOK, OP!TypeOK
    <2>. QED  BY <1>1, <2>1, <2>2 DEF Process, Moves
  <1>2. CASE Surge \/ UNCHANGED vars
    BY <1>2 DEF Surge, Outside, vars, processVars
  <1>3. CASE Retire
    BY <1>3 DEF Retire, Drops, Processes, TypesOK, OP!TypeOK
  <1>4. CASE RequestDeletion \/ \E k \in Keys : Vanish(k)
    BY <1>4 DEF RequestDeletion, Vanish, Outside, T!Vanish, processVars
  <1>. QED  BY <1>1, <1>2, <1>3, <1>4 DEF Next

\* What the steps do to the processes and the Flux object keeps its type.
LEMMA WorldTypes ==
    ASSUME TypesOK, [Next]_vars
    PROVE  /\ stage' \in {"live", "deleting", "gone"}
           /\ running' \subseteq Processes
           /\ leader' \in Processes \cup {"none"}
  <1>. USE DEF TypesOK, Processes, processVars
  <1>1. ASSUME NEW r \in Processes, Process(r)
        PROVE  /\ stage' \in {"live", "deleting", "gone"}
               /\ running' \subseteq Processes
               /\ leader' \in Processes \cup {"none"}
    <2>1. CASE Acquire(r) \/ Restart(r)
      BY <2>1 DEF Acquire, Restart, Expire
    <2>2. CASE Reconcile(r) \/ Work(r) \/ Trouble(r)
      BY <2>2 DEF Reconcile, Work, Trouble
    <2>3. CASE Take(r)
      BY <2>3 DEF Take
    <2>. QED  BY <1>1, <2>1, <2>2, <2>3 DEF Process
  <1>2. CASE Surge \/ Retire
    BY <1>2 DEF Surge, Retire, Expire
  <1>3. CASE RequestDeletion \/ (\E k \in Keys : Vanish(k)) \/ UNCHANGED vars
    BY <1>3 DEF RequestDeletion, Vanish, vars
  <1>. QED  BY <1>1, <1>2, <1>3 DEF Next

\* Both calls see the same clusters.
SharedOK == api \in [Keys -> OP!ObjectStates] /\ upsets \in 0 .. MaxUpsets

LEMMA CallTypes ==
    /\ OP!TypeOK <=> SharedOK /\ OP!PassTypes
    /\ NP!TypeOK <=> SharedOK /\ NP!PassTypes
  BY DEF SharedOK, OP!TypeOK, OP!PassTypes, NP!TypeOK, NP!PassTypes, OP!ObjectStates,
         NP!ObjectStates

LEMMA CallTypesKept ==
    /\ (OP!TypeOK)' <=> SharedOK' /\ (OP!PassTypes)'
    /\ (NP!TypeOK)' <=> SharedOK' /\ (NP!PassTypes)'
  BY DEF SharedOK, OP!TypeOK, OP!PassTypes, NP!TypeOK, NP!PassTypes, OP!ObjectStates,
         NP!ObjectStates

LEMMA TypesStep ==
    ASSUME TypesOK, [Next]_vars
    PROVE  TypesOK'
  <1>1. CASE Moves("old")
    <2>1. OP!TypeOK' /\ NP!PassTypes'
      BY <1>1, OldMoves, OldKeepsTypes, NewWaitsTypes DEF Moves, TypesOK
    <2>. QED  BY <2>1, CallTypesKept, WorldTypes DEF TypesOK
  <1>2. CASE Moves("new")
    <2>1. NP!TypeOK' /\ OP!PassTypes'
      BY <1>2, NewMoves, NewKeepsTypes, OldWaitsTypes DEF Moves, TypesOK
    <2>. QED  BY <2>1, CallTypesKept, WorldTypes DEF TypesOK
  <1>3. ASSUME NEW r \in Processes, Drops(r) PROVE TypesOK'
    <2>1. OP!PassTypes' /\ NP!PassTypes'
      BY <1>3, OldDropsCall, NewDropsCall, OldWaitsTypes, NewWaitsTypes
         DEF Drops, TypesOK, Processes
    <2>2. SharedOK'
      BY <1>3, CallTypes DEF Drops, TypesOK, SharedOK
    <2>. QED  BY <2>1, <2>2, CallTypesKept, WorldTypes DEF TypesOK
  <1>4. CASE Outside
    <2>1. OP!PassTypes' /\ NP!PassTypes'
      BY <1>4, OldWaitsTypes, NewWaitsTypes DEF Outside, TypesOK
    <2>2. SharedOK'
      BY <1>4, CallTypes DEF Outside, TypesOK, SharedOK, T!Vanish, OP!ObjectStates
    <2>. QED  BY <2>1, <2>2, CallTypesKept, WorldTypes DEF TypesOK
  <1>. QED  BY <1>1, <1>2, <1>3, <1>4, StepKinds DEF Processes

LEMMA TypesInit == Init => TypesOK
  <1>. SUFFICES ASSUME Init PROVE TypesOK
    OBVIOUS
  <1>1. api \in [Keys -> OP!ObjectStates] /\ upsets \in 0 .. MaxUpsets
    BY UpsetsAssumption DEF Init, O!Init, O!ObjectStates, OP!ObjectStates
  <1>2. OP!PassTypes
    <2>. USE DEF Init, O!Init
    <2>1. results \in Seq(OP!Result) /\ seen \subseteq Nat /\ orphans \subseteq Keys
      OBVIOUS
    <2>2. plan = OP!NoPlan
      BY DEF O!NoPlan, OP!NoPlan
    <2>3. /\ isDeletion \in BOOLEAN /\ blocked \in BOOLEAN
          /\ listed \in BOOLEAN /\ cleanupErr \in BOOLEAN
      OBVIOUS
    <2>4. phase = "idle" /\ pos = 1 /\ cleaner = 1
      OBVIOUS
    <2>. HIDE DEF Init, O!Init
    <2>5. pos \in Nat \ {0} /\ cleaner \in Nat \ {0}
      BY <2>4
    <2>. QED  BY <2>1, <2>2, <2>3, <2>4, <2>5 DEF OP!PassTypes
  <1>3. NP!PassTypes
    <2>. USE DEF Init
    <2>1. results2 \in Seq(NP!Result) /\ seen2 \subseteq Nat /\ orphans2 \subseteq Keys
      OBVIOUS
    <2>2. plan2 = NP!NoPlan
      BY DEF N!NoPlan, NP!NoPlan
    <2>3. /\ isDeletion2 \in BOOLEAN /\ blocked2 \in BOOLEAN
          /\ listed2 \in BOOLEAN /\ cleanupErr2 \in BOOLEAN
      OBVIOUS
    <2>4. phase2 = "idle" /\ pos2 = 1 /\ cleaner2 = 1
      OBVIOUS
    <2>. HIDE DEF Init, O!Init
    <2>5. pos2 \in Nat \ {0} /\ cleaner2 \in Nat \ {0}
      BY <2>4
    <2>. QED  BY <2>1, <2>2, <2>3, <2>4, <2>5 DEF NP!PassTypes
  <1>. QED  BY <1>1, <1>2, <1>3, CallTypes DEF SharedOK, TypesOK, Init, Processes

\* Both calls, the processes and the lease keep their types across any number of
\* crashes and handovers, with leader election or without it.
THEOREM ReplicasTypeCorrect == Spec => []TypeOK
  <1>1. TypesOK => TypeOK
    BY DEF TypesOK, TypeOK, O!TypeOK, OP!TypeOK, N!TypeOK, NP!TypeOK, O!ObjectStates,
           OP!ObjectStates, N!ObjectStates, NP!ObjectStates, O!NoPlan, OP!NoPlan,
           N!NoPlan, NP!NoPlan, O!Result, OP!Result, N!Result, NP!Result,
           O!OperationResults, OP!OperationResults, N!OperationResults,
           NP!OperationResults
  <1>. QED  BY <1>1, TypesInit, TypesStep, PTL DEF Spec

-----------------------------------------------------------------------------
(* One call at a time *)

\* Only the holder of the lease has a call under way, and none for an object that
\* is gone; what a call has learnt is true.
ElectedOK ==
    /\ TypesOK
    /\ OP!CallInv /\ NP!CallInv
    /\ phase # "idle" => leader = "old" /\ stage # "gone"
    /\ phase2 # "idle" => leader = "new" /\ stage # "gone"
    /\ stage = "gone" => \A k \in Owned : api[k] = "absent"

\* A process whose call moves holds the lease, the other is idle.
LEMMA OnlyLeaderMoves ==
    ASSUME LeaderElection, ElectedOK
    PROVE  /\ Moves("old") => leader = "old" /\ phase2 = "idle" /\ stage # "gone"
           /\ Moves("new") => leader = "new" /\ phase = "idle" /\ stage # "gone"
  <1>1. /\ Reconcile("old") => leader = "old" /\ stage # "gone"
        /\ Reconcile("new") => leader = "new" /\ stage # "gone"
    BY DEF Reconcile, MayAct, O!StartApply, O!StartDelete, N!StartApply, N!StartDelete
  <1>2. ElectedOK /\ (O!Work \/ O!Trouble \/ O!Take) => phase # "idle"
    BY DEF O!Work, O!Trouble, O!Take, O!CreateOrUpdate, O!ReconcileFails,
           O!CheckForDependent, O!StillDependedOn, O!OrphanObject, O!DeleteObject, O!EndObjects,
           O!DeleteOrphan, O!EndCleaner, O!EndCleaners, O!CreateOrUpdateFails,
           O!DeleteObjectFails, O!ListOrphansFails, O!DeleteOrphanFails, O!AtObject,
           O!AtCleaner, O!MayDelete
  <1>3. ElectedOK /\ (N!Work \/ N!Trouble \/ N!Take) => phase2 # "idle"
    BY DEF N!Work, N!Trouble, N!Take, N!CreateOrUpdate, N!ReconcileFails,
           N!CheckForDependent, N!StillDependedOn, N!OrphanObject, N!DeleteObject, N!EndObjects,
           N!DeleteOrphan, N!EndCleaner, N!EndCleaners, N!CreateOrUpdateFails,
           N!DeleteObjectFails, N!ListOrphansFails, N!DeleteOrphanFails, N!AtObject,
           N!AtCleaner, N!MayDelete
  <1>4. /\ Moves("old") => leader = "old" /\ stage # "gone"
        /\ Moves("new") => leader = "new" /\ stage # "gone"
    BY <1>1, <1>2, <1>3 DEF Moves, Work, Trouble, Take, ElectedOK
  <1>. QED  BY <1>4 DEF ElectedOK

\* A call that takes the finalizer off has seen everything go.
LEMMA TakeIsSound ==
    ASSUME ElectedOK, NEW r \in Processes, Take(r)
    PROVE  /\ UNCHANGED api
           /\ IF r = "old" THEN phase' = "idle" ELSE phase2' = "idle"
           /\ \/ stage' = stage
              \/ stage' = "gone" /\ \A k \in Owned : api[k] = "absent"
  <1>1. OP!VerdictSound /\ NP!VerdictSound
    BY OldFits, NewFits, OP!VerdictFollows, NP!VerdictFollows DEF ElectedOK, TypesOK
  <1>2. O!Verdict => OP!Verdict
    BY DEF O!Verdict, OP!Verdict, O!AllDeleted, OP!AllDeleted
  <1>3. N!Verdict => NP!Verdict
    BY DEF N!Verdict, NP!Verdict, N!AllDeleted, NP!AllDeleted
  <1>. QED
    BY <1>1, <1>2, <1>3 DEF Take, O!Take, N!Take, OP!VerdictSound, NP!VerdictSound

LEMMA ElectedStep ==
    ASSUME LeaderElection, ElectedOK, [Next]_vars
    PROVE  ElectedOK'
  <1>0. TypesOK'
    BY TypesStep DEF ElectedOK
  <1>1. CASE Moves("old")
    <2>1. leader = "old" /\ phase2 = "idle" /\ stage # "gone"
      BY <1>1, OnlyLeaderMoves
    <2>2. OP!Next /\ UNCHANGED <<newVars, processVars>>
      BY <1>1, OldMoves DEF Moves
    <2>3. OP!CallInv' /\ NP!CallInv'
      BY <2>1, <2>2, OldKeepsInv, NewWaitsInv DEF ElectedOK, TypesOK
    <2>4. leader' = "old" /\ phase2' = "idle"
      BY <2>1, <2>2 DEF processVars, newVars
    <2>5. CASE Take("old")
      BY <1>0, <2>3, <2>4, <2>5, TakeIsSound DEF ElectedOK, Processes
    <2>6. CASE UNCHANGED stage
      BY <1>0, <2>1, <2>3, <2>4, <2>6 DEF ElectedOK
    <2>. QED  BY <1>1, <2>5, <2>6 DEF Moves, Reconcile, Work, Trouble
  <1>2. CASE Moves("new")
    <2>1. leader = "new" /\ phase = "idle" /\ stage # "gone"
      BY <1>2, OnlyLeaderMoves
    <2>2. NP!Next /\ UNCHANGED <<oldVars, processVars>>
      BY <1>2, NewMoves DEF Moves
    <2>3. OP!CallInv' /\ NP!CallInv'
      BY <2>1, <2>2, NewKeepsInv, OldWaitsInv DEF ElectedOK, TypesOK
    <2>4. leader' = "new" /\ phase' = "idle"
      BY <2>1, <2>2 DEF processVars, oldVars
    <2>5. CASE Take("new")
      BY <1>0, <2>3, <2>4, <2>5, TakeIsSound DEF ElectedOK, Processes
    <2>6. CASE UNCHANGED stage
      BY <1>0, <2>1, <2>3, <2>4, <2>6 DEF ElectedOK
    <2>. QED  BY <1>2, <2>5, <2>6 DEF Moves, Reconcile, Work, Trouble
  <1>3. CASE Drops("old")
    <2>1. OP!CallInv' /\ phase' = "idle" /\ UNCHANGED newVars
      BY <1>3, OldDropsCall DEF Drops
    <2>2. NP!CallInv'
      BY <1>3, <2>1, NewUndisturbed DEF Drops, ElectedOK, TypesOK
    <2>3. UNCHANGED <<api, stage, phase2>> /\ (leader = "new" => leader' = "new")
      BY <1>3, <2>1 DEF Drops, Expire, newVars
    <2>. QED  BY <1>0, <2>1, <2>2, <2>3 DEF ElectedOK
  <1>4. CASE Drops("new")
    <2>1. NP!CallInv' /\ phase2' = "idle" /\ UNCHANGED oldVars
      BY <1>4, NewDropsCall DEF Drops
    <2>2. OP!CallInv'
      BY <1>4, <2>1, OldUndisturbed DEF Drops, ElectedOK, TypesOK
    <2>3. UNCHANGED <<api, stage, phase>> /\ (leader = "old" => leader' = "old")
      BY <1>4, <2>1 DEF Drops, Expire, oldVars
    <2>. QED  BY <1>0, <2>1, <2>2, <2>3 DEF ElectedOK
  <1>5. CASE Outside
    <2>1. OP!CallInv' /\ NP!CallInv'
      BY <1>5, OldUndisturbed, NewUndisturbed DEF Outside, T!Vanish, ElectedOK, TypesOK
    <2>2. UNCHANGED <<phase, phase2>>
      BY <1>5 DEF Outside, oldVars, newVars
    <2>3. \A k \in Owned : api[k] = "absent" => api'[k] = "absent"
      BY <1>5, KeysAssumption DEF Outside, T!Vanish, ElectedOK, TypesOK, OP!TypeOK
    <2>4. stage' # "gone" <=> stage # "gone"
      BY <1>5 DEF Outside
    <2>5. leader' = leader \/ leader = "none"
      BY <1>5 DEF Outside
    <2>. QED  BY <1>0, <2>1, <2>2, <2>3, <2>4, <2>5 DEF ElectedOK
  <1>. QED  BY <1>1, <1>2, <1>3, <1>4, <1>5, StepKinds DEF ElectedOK, Processes

LEMMA ElectedInit == Init => ElectedOK
  <1>. SUFFICES ASSUME Init PROVE ElectedOK
    OBVIOUS
  <1>1. OP!CallInv
    BY DEF Init, O!Init, OP!CallInv, OP!IdleClean, OP!Configured,
           OP!EveryObjectAttempted, OP!ObjectsDone, OP!DeletedAreGone, OP!SeenAreGone,
           OP!OrphansAreListed
  <1>2. NP!CallInv
    BY DEF Init, NP!CallInv, NP!IdleClean, NP!Configured,
           NP!EveryObjectAttempted, NP!ObjectsDone, NP!DeletedAreGone, NP!SeenAreGone,
           NP!OrphansAreListed
  <1>. QED  BY <1>1, <1>2, TypesInit DEF ElectedOK, Init, O!Init

LEMMA ElectedHolds == LeaderElection => (Spec => []ElectedOK)
  <1>. SUFFICES ASSUME LeaderElection PROVE Spec => []ElectedOK
    OBVIOUS
  <1>. QED  BY ElectedInit, ElectedStep, PTL DEF Spec

\* With leader election nothing owned is left once the finalizer is off, whichever
\* process took it off and whatever the other was doing when it was stopped
\* (main.go:311, flux_controller.go:85-90).  Without it the run replicas_default
\* finds the opposite.
THEOREM ElectedLeaveNothing == LeaderElection => (Spec => []NothingLeft)
  <1>1. ElectedOK => NothingLeft
    BY DEF ElectedOK, NothingLeft
  <1>. QED  BY <1>1, ElectedHolds, PTL

-----------------------------------------------------------------------------
(* The processes together implement Teardown *)

\* What Manager does in a call of the old process is allowed while the finalizer
\* is on.
LEMMA OldStepAllowed ==
    ASSUME [OP!T!Next]_OP!T!vars, stage # "gone", UNCHANGED stage
    PROVE  [T!Next]_T!vars
  <1>. USE DEF T!Next, T!vars
  <1>1. ASSUME NEW k \in Keys, OP!T!Create(k) PROVE T!Create(k)
    BY <1>1 DEF OP!T!Create, T!Create
  <1>2. ASSUME NEW k \in Keys, OP!T!Remove(k) PROVE T!Remove(k)
    BY <1>2 DEF OP!T!Remove, T!Remove
  <1>3. ASSUME NEW k \in Keys, OP!T!Vanish(k) PROVE T!Vanish(k)
    BY <1>3 DEF OP!T!Vanish, T!Vanish
  <1>4. ASSUME NEW k \in Keys, OP!T!Meddle(k) PROVE T!Meddle(k)
    BY <1>4 DEF OP!T!Meddle, T!Meddle, OP!T!ObjectStates, T!ObjectStates
  <1>5. (OP!T!Announce \/ OP!T!Withdraw \/ UNCHANGED OP!T!vars) => UNCHANGED api
    BY DEF OP!T!Announce, OP!T!Withdraw, OP!T!vars
  <1>. QED  BY <1>1, <1>2, <1>3, <1>4, <1>5 DEF OP!T!Next

\* What Manager does in a call of the new process is allowed while the finalizer
\* is on.
LEMMA NewStepAllowed ==
    ASSUME [NP!T!Next]_NP!T!vars, stage # "gone", UNCHANGED stage
    PROVE  [T!Next]_T!vars
  <1>. USE DEF T!Next, T!vars
  <1>1. ASSUME NEW k \in Keys, NP!T!Create(k) PROVE T!Create(k)
    BY <1>1 DEF NP!T!Create, T!Create
  <1>2. ASSUME NEW k \in Keys, NP!T!Remove(k) PROVE T!Remove(k)
    BY <1>2 DEF NP!T!Remove, T!Remove
  <1>3. ASSUME NEW k \in Keys, NP!T!Vanish(k) PROVE T!Vanish(k)
    BY <1>3 DEF NP!T!Vanish, T!Vanish
  <1>4. ASSUME NEW k \in Keys, NP!T!Meddle(k) PROVE T!Meddle(k)
    BY <1>4 DEF NP!T!Meddle, T!Meddle, NP!T!ObjectStates, T!ObjectStates
  <1>5. (NP!T!Announce \/ NP!T!Withdraw \/ UNCHANGED NP!T!vars) => UNCHANGED api
    BY DEF NP!T!Announce, NP!T!Withdraw, NP!T!vars
  <1>. QED  BY <1>1, <1>2, <1>3, <1>4, <1>5 DEF NP!T!Next

LEMMA StepAllowed ==
    ASSUME LeaderElection, ElectedOK, ElectedOK', [Next]_vars
    PROVE  [T!Next]_T!vars
  <1>1. CASE Moves("old")
    <2>1. CASE UNCHANGED stage
      <3>1. [OP!T!Next]_OP!T!vars
        <4>1. [OP!Next]_OP!vars
          BY <1>1, OldMoves DEF Moves
        <4>. QED  BY <4>1, OldFits, OP!StepSimulates DEF ElectedOK, TypesOK
      <3>. QED  BY <1>1, <2>1, <3>1, OnlyLeaderMoves, OldStepAllowed
    <2>2. CASE Take("old")
      BY <2>1, <2>2, TakeIsSound DEF Processes, T!Next, T!Announce
    <2>. QED  BY <1>1, <2>1, <2>2 DEF Moves, Reconcile, Work, Trouble
  <1>2. CASE Moves("new")
    <2>1. CASE UNCHANGED stage
      <3>1. [NP!T!Next]_NP!T!vars
        <4>1. [NP!Next]_NP!vars
          BY <1>2, NewMoves DEF Moves
        <4>. QED  BY <4>1, NewFits, NP!StepSimulates DEF ElectedOK, TypesOK
      <3>. QED  BY <1>2, <2>1, <3>1, OnlyLeaderMoves, NewStepAllowed
    <2>2. CASE Take("new")
      BY <2>1, <2>2, TakeIsSound DEF Processes, T!Next, T!Announce
    <2>. QED  BY <1>2, <2>1, <2>2 DEF Moves, Reconcile, Work, Trouble
  <1>3. ASSUME NEW r \in Processes, Drops(r) PROVE UNCHANGED T!vars
    BY <1>3 DEF Drops, T!vars
  <1>4. CASE Outside
    BY <1>4 DEF Outside, T!Next, T!vars, T!Vanish
  <1>. QED  BY <1>1, <1>2, <1>3, <1>4, StepKinds DEF ElectedOK, Processes

\* With leader election the promise is kept across rolling updates, lost leases
\* and crashes: the controller that takes over starts from the clusters alone,
\* and no request of the other is under way (main.go:306-324, manager.go:113-184).
THEOREM ElectedKeepPromise == LeaderElection => (Spec => PromiseKept)
  <1>. SUFFICES ASSUME LeaderElection PROVE Spec => PromiseKept
    OBVIOUS
  <1>1. Init => T!Init
    BY DEF Init, O!Init, T!Init, O!ObjectStates, T!ObjectStates
  <1>2. ElectedOK /\ ElectedOK' /\ [Next]_vars => [T!Next]_T!vars
    BY StepAllowed
  <1>. QED  BY <1>1, <1>2, ElectedHolds, PTL DEF Spec, PromiseKept, T!Spec

=============================================================================
