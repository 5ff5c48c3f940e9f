--------------------------- MODULE ManagerProofs ----------------------------
(***************************************************************************)
(* Proofs about Manager, for any sets of keys and plans that meet its      *)
(* assumptions and any number of upsets: the types, the inductive          *)
(* invariant CallInv, the soundness of the deletion verdict, and that the  *)
(* manager implements Teardown.                                            *)
(***************************************************************************)
EXTENDS Manager, TLAPS

\* What a plan's objects and cleaners are made of.
LEMMA PlanTypes ==
    ASSUME NEW p \in Plans \cup {NoPlan}
    PROVE  /\ p.objects \in Seq(ManagedObject)
           /\ p.cleaners \in Seq(SUBSET Keys)
           /\ \A i \in DOMAIN p.objects :
                /\ i \in Nat \ {0}
                /\ p.objects[i].key \in Keys
                /\ p.objects[i].dependsOn \subseteq Nat
                /\ p.objects[i].policy \in Policies
  <1>1. p.objects \in Seq(ManagedObject) /\ p.cleaners \in Seq(SUBSET Keys)
    <2>1. CASE p \in Plans
      BY <2>1, PlansAssumption DEF Plan
    <2>2. CASE p = NoPlan
      BY <2>2 DEF NoPlan
    <2>. QED  BY <2>1, <2>2
  <1>2. ASSUME NEW i \in DOMAIN p.objects
        PROVE  i \in Nat \ {0} /\ p.objects[i] \in ManagedObject
    BY <1>1
  <1>. QED  BY <1>1, <1>2 DEF ManagedObject

\* A request that deletes an object leaves the clusters well formed, and
\* touches nothing else.
LEMMA DeletesEffect ==
    ASSUME NEW k \in Keys, api \in [Keys -> ObjectStates], Deletes(k)
    PROVE  /\ api' \in [Keys -> ObjectStates]
           /\ \E s \in {"terminating", "absent"} : api' = [api EXCEPT ![k] = s]
           /\ \A x \in Keys : x # k => api'[x] = api[x]
           /\ api'[k] # "present"
  BY DEF Deletes, ObjectStates

-----------------------------------------------------------------------------
(* Types *)

\* The types of everything but the clusters, the caller and the upsets.
PassTypes ==
    /\ phase \in {"idle", "objects", "cleaners", "returned"}
    /\ isDeletion \in BOOLEAN
    /\ plan \in Plans \cup {NoPlan}
    /\ pos \in Nat \ {0}
    /\ seen \subseteq Nat
    /\ blocked \in BOOLEAN
    /\ results \in Seq(Result)
    /\ cleaner \in Nat \ {0}
    /\ orphans \subseteq Keys
    /\ listed \in BOOLEAN
    /\ cleanupErr \in BOOLEAN

\* The object a call works on is one of the plan's.
LEMMA CurrentType ==
    ASSUME TypeOK, AtObject
    PROVE  Current.key \in Keys /\ Current.policy \in Policies
  BY PlanTypes DEF TypeOK, AtObject, Current

\* Appending a result keeps the types.
LEMMA ConcludeType ==
    ASSUME TypeOK, NEW op \in OperationResults, NEW err \in BOOLEAN,
           Conclude(op, err)
    PROVE  PassTypes'
  <1>1. [op |-> op, err |-> err] \in Result
    BY DEF Result
  <1>2. results' \in Seq(Result)
    BY <1>1 DEF Conclude, TypeOK
  <1>3. pos' \in Nat \ {0}
    BY DEF Conclude, TypeOK
  <1>4. blocked' \in BOOLEAN
    BY DEF Conclude
  <1>5. seen' \subseteq Nat
    BY DEF Conclude
  <1>6. UNCHANGED <<phase, isDeletion, plan, cleaner, orphans, listed, cleanupErr>>
    BY DEF Conclude
  <1>. QED  BY <1>2, <1>3, <1>4, <1>5, <1>6 DEF TypeOK, PassTypes

\* Between two calls everything has its initial value.
LEMMA ResetType ==
    ASSUME Reset, phase' \in {"idle", "objects", "cleaners", "returned"}
    PROVE  PassTypes'
  <1>1. results' \in Seq(Result) /\ plan' \in Plans \cup {NoPlan}
    BY DEF Reset
  <1>2. pos' \in Nat \ {0} /\ cleaner' \in Nat \ {0}
    BY DEF Reset
  <1>3. /\ isDeletion' \in BOOLEAN /\ blocked' \in BOOLEAN
        /\ listed' \in BOOLEAN /\ cleanupErr' \in BOOLEAN
    BY DEF Reset
  <1>4. seen' \subseteq Nat /\ orphans' \subseteq Keys
    BY DEF Reset
  <1>. QED  BY <1>1, <1>2, <1>3, <1>4 DEF PassTypes

\* Steps of a call that meets no trouble keep the types.
LEMMA WorkType ==
    ASSUME TypeOK, Work
    PROVE  TypeOK'
  <1>. USE DEF ObjectStates
  <1>. SUFFICES api' \in [Keys -> ObjectStates] /\ PassTypes'
    BY DEF Work, TypeOK, PassTypes
  <1>1. CASE CreateOrUpdate
    BY <1>1, ConcludeType, CurrentType DEF CreateOrUpdate, OperationResults, TypeOK
  <1>2. CASE CheckForDependent(FALSE)
    <2>1. Unseen \subseteq Nat
      BY <1>2, PlanTypes DEF Unseen, Dependents, TypeOK
    <2>. QED  BY <1>2, <2>1 DEF CheckForDependent, TypeOK, PassTypes
  <1>3. CASE StillDependedOn
    BY <1>3, ConcludeType DEF StillDependedOn, OperationResults, TypeOK
  <1>4. CASE OrphanObject
    BY <1>4, ConcludeType
       DEF OrphanObject, OperationResultOrphaned, OperationResults, TypeOK
  <1>5. CASE DeleteObject
    BY <1>5, ConcludeType, CurrentType, DeletesEffect
       DEF DeleteObject, MayDelete, OperationResults, TypeOK
  <1>6. CASE EndObjects
    BY <1>6 DEF EndObjects, TypeOK, PassTypes, passVars
  <1>7. CASE AtCleaner /\ \E found \in SUBSET Orphans : ListOrphans(found)
    <2>1. Orphans \subseteq Keys
      BY <1>7, PlanTypes DEF AtCleaner, Orphans, TypeOK
    <2>. QED  BY <1>7, <2>1 DEF ListOrphans, TypeOK, PassTypes
  <1>8. ASSUME NEW k \in orphans, DeleteOrphan(k)
        PROVE  api' \in [Keys -> ObjectStates] /\ PassTypes'
    <2>1. k \in Keys
      BY DEF TypeOK
    <2>. QED  BY <1>8, <2>1, DeletesEffect DEF DeleteOrphan, TypeOK, PassTypes
  <1>9. CASE EndCleaner
    <2>1. cleaner' \in Nat \ {0}
      BY <1>9 DEF EndCleaner, TypeOK
    <2>2. listed' \in BOOLEAN
      BY <1>9 DEF EndCleaner
    <2>. QED  BY <1>9, <2>1, <2>2 DEF EndCleaner, TypeOK, PassTypes
  <1>10. CASE EndCleaners
    BY <1>10 DEF EndCleaners, TypeOK, PassTypes, passVars
  <1>11. CASE ReconcileFails
    BY <1>11, ConcludeType DEF ReconcileFails, OperationResults, TypeOK
  <1>. QED
    BY <1>1, <1>2, <1>3, <1>4, <1>5, <1>6, <1>7, <1>8, <1>9, <1>10, <1>11 DEF Work

\* So do failures and lost answers.
LEMMA TroubleType ==
    ASSUME TypeOK, Trouble
    PROVE  TypeOK'
  <1>. USE DEF ObjectStates
  <1>. SUFFICES api' \in [Keys -> ObjectStates] /\ PassTypes'
    BY UpsetsAssumption DEF Trouble, Upset, TypeOK, PassTypes
  <1>1. CASE CreateOrUpdateFails
    BY <1>1, ConcludeType, CurrentType
       DEF CreateOrUpdateFails, OperationResults, TypeOK
  <1>2. CASE CheckForDependent(TRUE)
    <2>1. Unseen \subseteq Nat
      BY <1>2, PlanTypes DEF Unseen, Dependents, TypeOK
    <2>. QED  BY <1>2, <2>1 DEF CheckForDependent, TypeOK, PassTypes
  <1>3. CASE DeleteObjectFails
    BY <1>3, ConcludeType, CurrentType, DeletesEffect
       DEF DeleteObjectFails, MayDelete, OperationResults, TypeOK
  <1>4. CASE ListOrphansFails
    BY <1>4 DEF ListOrphansFails, TypeOK, PassTypes
  <1>5. ASSUME NEW k \in orphans, DeleteOrphanFails(k)
        PROVE  api' \in [Keys -> ObjectStates] /\ PassTypes'
    <2>1. k \in Keys
      BY DEF TypeOK
    <2>2. api' \in [Keys -> ObjectStates]
      BY <1>5, <2>1, DeletesEffect DEF DeleteOrphanFails, TypeOK
    <2>3. results' \in Seq(Result)
      BY <1>5 DEF DeleteOrphanFails, TypeOK, Result, OperationResults
    <2>. QED  BY <1>5, <2>2, <2>3 DEF DeleteOrphanFails, TypeOK, PassTypes
  <1>. QED  BY <1>1, <1>2, <1>3, <1>4, <1>5 DEF Trouble

\* Every step keeps the types.
LEMMA TypeStep == TypeOK /\ [Next]_vars => TypeOK'
  <1>. SUFFICES ASSUME TypeOK, [Next]_vars PROVE TypeOK'
    OBVIOUS
  <1>. USE DEF ObjectStates
  <1>1. ASSUME NEW p \in Plans, StartApply(p) \/ StartDelete(p) PROVE TypeOK'
    BY <1>1 DEF StartApply, StartDelete, Call, TypeOK
  <1>2. CASE Work
    BY <1>2, WorkType
  <1>3. CASE Trouble
    BY <1>3, TroubleType
  <1>4. CASE Take
    BY <1>4, ResetType DEF Take, TypeOK, PassTypes
  <1>5. CASE RequestDeletion
    BY <1>5 DEF RequestDeletion, TypeOK, passVars
  <1>6. ASSUME NEW k \in Keys, Vanish(k) \/ Meddle(k) PROVE TypeOK'
    <2>1. CASE Vanish(k)
      BY <2>1 DEF Vanish, TypeOK, passVars
    <2>2. CASE Meddle(k)
      <3>1. api' \in [Keys -> ObjectStates] /\ upsets' \in 0 .. MaxUpsets
        BY <2>2, UpsetsAssumption DEF Meddle, Upset, TypeOK
      <3>. QED  BY <2>2, <3>1 DEF Meddle, Upset, TypeOK, passVars
    <2>. QED  BY <1>6, <2>1, <2>2
  <1>7. CASE Crash
    BY <1>7, ResetType, UpsetsAssumption DEF Crash, Upset, TypeOK, PassTypes
  <1>8. CASE MeddleElsewhere
    BY <1>8, UpsetsAssumption DEF MeddleElsewhere, Upset, TypeOK, passVars
  <1>9. CASE UNCHANGED vars
    BY <1>9 DEF vars, passVars, TypeOK
  <1>. QED
    BY <1>1, <1>2, <1>3, <1>4, <1>5, <1>6, <1>7, <1>8, <1>9 DEF Next

\* Every variable keeps its type, whatever the keys, the plans and the number
\* of upsets.
THEOREM TypeCorrect == Spec => []TypeOK
  <1>1. Init => TypeOK
    <2>1. Init => /\ api \in [Keys -> ObjectStates]
                  /\ phase \in {"idle", "objects", "cleaners", "returned"}
                  /\ plan \in Plans \cup {NoPlan}
                  /\ pos \in Nat \ {0} /\ cleaner \in Nat \ {0}
                  /\ results \in Seq(Result)
                  /\ seen \subseteq Nat /\ orphans \subseteq Keys
                  /\ upsets \in 0 .. MaxUpsets
      BY UpsetsAssumption DEF Init
    <2>2. Init => /\ leaving \in BOOLEAN /\ isDeletion \in BOOLEAN
                  /\ blocked \in BOOLEAN /\ listed \in BOOLEAN
                  /\ cleanupErr \in BOOLEAN
      BY DEF Init
    <2>. QED  BY <2>1, <2>2 DEF TypeOK
  <1>. QED  BY <1>1, TypeStep, PTL DEF Spec

-----------------------------------------------------------------------------
(* The inductive invariant *)

\* What makes old answers safe to act on: no owned object reappears.
OwnedStayGone == \A k \in Owned : api[k] = "absent" => api'[k] = "absent"

\* Deleting an object brings none back.
LEMMA DeletesStayGone ==
    ASSUME TypeOK, NEW k \in Keys, Deletes(k)
    PROVE  (api[k] # "absent") => OwnedStayGone
  BY OwnedAssumption DEF Deletes, OwnedStayGone, TypeOK

\* A step outside the call that brings no owned object back.
LEMMA OutsideInv ==
    ASSUME TypeOK, CallInv, OwnedStayGone, UNCHANGED <<phase, passVars>>
    PROVE  CallInv'
  <1>1. IdleClean' /\ Configured' /\ EveryObjectAttempted' /\ ObjectsDone'
        /\ OrphansAreListed'
    BY DEF CallInv, IdleClean, Configured, EveryObjectAttempted, ObjectsDone,
           OrphansAreListed, passVars
  <1>2. DeletedAreGone'
    BY DEF CallInv, DeletedAreGone, OwnedStayGone, passVars
  <1>3. SeenAreGone'
    BY DEF CallInv, SeenAreGone, OwnedStayGone, passVars
  <1>. QED  BY <1>1, <1>2, <1>3 DEF CallInv

\* reconcileObject returns, reporting an object as deleted only if it is gone.
LEMMA ConcludeInv ==
    ASSUME TypeOK, CallInv, AtObject,
           NEW op \in OperationResults, NEW err \in BOOLEAN, Conclude(op, err),
           isDeletion => OwnedStayGone,
           (/\ isDeletion /\ op = "deleted"
            /\ Current.policy = "delete" /\ Current.key \in Owned)
              => api'[Current.key] = "absent"
    PROVE  CallInv'
  <1>1. /\ pos \in Nat \ {0} /\ pos' = pos + 1 /\ seen' = {}
        /\ UNCHANGED <<phase, isDeletion, plan, cleaner, orphans>>
        /\ phase = "objects" /\ pos \in DOMAIN plan.objects
        /\ plan.objects \in Seq(ManagedObject)
    BY PlanTypes DEF Conclude, AtObject, TypeOK
  <1>2. /\ Len(results) = pos - 1
        /\ results \in Seq(Result)
    BY <1>1 DEF CallInv, EveryObjectAttempted, TypeOK
  <1>3. [op |-> op, err |-> err] \in Result
    BY DEF Result
  <1>4. /\ Len(results') = pos
        /\ \A i \in 1 .. pos - 1 : results'[i] = results[i]
        /\ results'[pos] = [op |-> op, err |-> err]
    BY <1>1, <1>2, <1>3 DEF Conclude
  <1>5. IdleClean' /\ Configured' /\ ObjectsDone' /\ OrphansAreListed'
    BY <1>1 DEF CallInv, IdleClean, Configured, ObjectsDone, OrphansAreListed
  <1>6. EveryObjectAttempted'
    BY <1>1, <1>4 DEF EveryObjectAttempted
  <1>7. SeenAreGone'
    BY <1>1 DEF SeenAreGone
  <1>8. DeletedAreGone'
    <2>. SUFFICES ASSUME isDeletion, NEW i \in DOMAIN plan.objects, i < pos + 1,
                         results'[i].op = "deleted",
                         plan.objects[i].policy = "delete",
                         plan.objects[i].key \in Owned
                  PROVE  api'[plan.objects[i].key] = "absent"
      BY <1>1 DEF DeletedAreGone
    <2>1. i \in Nat \ {0}
      BY <1>1
    <2>2. CASE i = pos
      <3>1. results'[i].op = op
        BY <1>4, <2>2
      <3>. QED  BY <2>2, <3>1 DEF Current
    <2>3. CASE i # pos
      <3>1. i < pos /\ i \in 1 .. pos - 1
        BY <1>1, <2>1, <2>3
      <3>2. results[i].op = "deleted"
        BY <1>4, <3>1
      <3>3. api[plan.objects[i].key] = "absent"
        BY <1>1, <3>1, <3>2 DEF CallInv, DeletedAreGone
      <3>. QED  BY <3>3 DEF OwnedStayGone
    <2>. QED  BY <2>2, <2>3
  <1>. QED  BY <1>5, <1>6, <1>7, <1>8 DEF CallInv

\* One Get of checkForDependents.
LEMMA CheckInv ==
    ASSUME TypeOK, CallInv, NEW fails \in BOOLEAN, CheckForDependent(fails)
    PROVE  CallInv'
  <1>1. UNCHANGED <<api, phase, isDeletion, plan, pos, results, cleaner,
                    orphans, listed, cleanupErr>>
    BY DEF CheckForDependent
  <1>2. phase = "objects"
    BY DEF CheckForDependent, AtObject
  <1>3. IdleClean' /\ Configured' /\ EveryObjectAttempted' /\ ObjectsDone'
        /\ DeletedAreGone' /\ OrphansAreListed'
    BY <1>1, <1>2 DEF CallInv, IdleClean, Configured, EveryObjectAttempted,
           ObjectsDone, DeletedAreGone, OrphansAreListed
  <1>4. PICK j \in Unseen : 
          /\ seen' = seen \cup {j}
          /\ blocked' = (blocked \/ fails \/ api[plan.objects[j].key] # "absent")
    BY DEF CheckForDependent
  <1>5. ~blocked' => ~blocked /\ api[plan.objects[j].key] = "absent"
    BY <1>4
  <1>6. SeenAreGone'
    BY <1>1, <1>2, <1>4, <1>5 DEF CallInv, SeenAreGone
  <1>. QED  BY <1>3, <1>6 DEF CallInv

\* The loop over the objects and the loop over the cleaners end.
LEMMA EndsInv ==
    ASSUME TypeOK, CallInv, EndObjects \/ EndCleaners \/ ListOrphansFails
    PROVE  CallInv'
  <1>1. /\ UNCHANGED <<api, isDeletion, plan, pos, seen, blocked, results,
                       cleaner, orphans>>
        /\ phase \in {"objects", "cleaners"}
        /\ phase' \in {"cleaners", "returned"}
    BY DEF EndObjects, EndCleaners, ListOrphansFails, AtCleaner, passVars
  <1>2. pos \notin DOMAIN plan.objects
    BY DEF EndObjects, EndCleaners, ListOrphansFails, AtCleaner, CallInv,
           ObjectsDone
  <1>3. Len(results) >= Len(plan.objects)
    <2>1. CASE phase = "objects"
      <3>1. Len(results) = pos - 1 /\ pos \in Nat \ {0}
        BY <2>1 DEF CallInv, EveryObjectAttempted, TypeOK
      <3>2. plan.objects \in Seq(ManagedObject)
        BY PlanTypes DEF TypeOK
      <3>. QED  BY <1>2, <3>1, <3>2
    <2>2. CASE phase = "cleaners"
      BY <2>2 DEF CallInv, EveryObjectAttempted
    <2>. QED  BY <1>1, <2>1, <2>2
  <1>4. IdleClean' /\ Configured' /\ EveryObjectAttempted' /\ ObjectsDone'
    BY <1>1, <1>2, <1>3
       DEF CallInv, IdleClean, Configured, EveryObjectAttempted, ObjectsDone
  <1>5. DeletedAreGone' /\ SeenAreGone'
    BY <1>1 DEF CallInv, DeletedAreGone, SeenAreGone
  <1>6. OrphansAreListed'
    BY DEF EndObjects, EndCleaners, ListOrphansFails, AtCleaner, passVars,
           CallInv, OrphansAreListed
  <1>. QED  BY <1>4, <1>5, <1>6 DEF CallInv

\* A cleaner at work.
LEMMA CleanerInv ==
    ASSUME TypeOK, CallInv,
           \/ \E found \in SUBSET Orphans : AtCleaner /\ ListOrphans(found)
           \/ \E k \in orphans : DeleteOrphan(k) \/ DeleteOrphanFails(k)
           \/ EndCleaner
    PROVE  CallInv'
  <1>1. /\ phase = "cleaners" /\ phase' = "cleaners" /\ AtCleaner
        /\ UNCHANGED <<isDeletion, plan, pos, seen, blocked>>
    BY DEF ListOrphans, DeleteOrphan, DeleteOrphanFails, EndCleaner, AtCleaner
  <1>2. IdleClean' /\ Configured' /\ ObjectsDone' /\ SeenAreGone'
    BY <1>1 DEF CallInv, IdleClean, Configured, ObjectsDone, SeenAreGone
  <1>3. results \in Seq(Result) /\ plan.objects \in Seq(ManagedObject)
        /\ pos \in Nat \ {0} /\ pos \notin DOMAIN plan.objects
        /\ Len(results) >= Len(plan.objects)
    BY <1>1, PlanTypes DEF TypeOK, CallInv, ObjectsDone, EveryObjectAttempted
  <1>4. /\ Len(results') >= Len(results)
        /\ Len(results') \in Nat /\ Len(results) \in Nat
        /\ \A i \in 1 .. Len(results) : results'[i] = results[i]
    <2>1. CASE results' = results
      BY <1>3, <2>1
    <2>2. CASE results' = Append(results, [op |-> "deletionFailed", err |-> TRUE])
      <3>1. [op |-> "deletionFailed", err |-> TRUE] \in Result
        BY DEF Result, OperationResults
      <3>. QED  BY <1>3, <2>2, <3>1
    <2>. QED
      BY <2>1, <2>2 DEF ListOrphans, DeleteOrphan, DeleteOrphanFails, EndCleaner
  <1>5. EveryObjectAttempted'
    BY <1>1, <1>3, <1>4 DEF EveryObjectAttempted
  <1>6. OwnedStayGone
    <2>1. ASSUME NEW k \in orphans, DeleteOrphan(k) \/ DeleteOrphanFails(k)
          PROVE  OwnedStayGone
      <3>1. k \in Keys
        BY DEF TypeOK
      <3>. QED
        BY <2>1, <3>1, DeletesStayGone
           DEF DeleteOrphan, DeleteOrphanFails, OwnedStayGone
    <2>. QED  BY <2>1 DEF ListOrphans, EndCleaner, OwnedStayGone
  <1>7. DeletedAreGone'
    BY <1>1, <1>3, <1>4, <1>6 DEF CallInv, DeletedAreGone, OwnedStayGone
  <1>8. OrphansAreListed'
    <2>1. CASE \E found \in SUBSET Orphans : AtCleaner /\ ListOrphans(found)
      BY <1>1, <2>1 DEF ListOrphans, Orphans, AtCleaner, OrphansAreListed
    <2>2. CASE \E k \in orphans : DeleteOrphan(k) \/ DeleteOrphanFails(k)
      BY <1>1, <2>2
         DEF DeleteOrphan, DeleteOrphanFails, CallInv, OrphansAreListed
    <2>3. CASE EndCleaner
      BY <1>1, <2>3 DEF EndCleaner, OrphansAreListed
    <2>. QED  BY <2>1, <2>2, <2>3
  <1>. QED  BY <1>2, <1>5, <1>7, <1>8 DEF CallInv

\* reconcileObject, applying.
LEMMA ApplyInv ==
    ASSUME TypeOK, CallInv, CreateOrUpdate \/ ReconcileFails \/ CreateOrUpdateFails
    PROVE  CallInv'
  <1>1. AtObject /\ ~isDeletion
    BY DEF CreateOrUpdate, ReconcileFails, CreateOrUpdateFails
  <1>2. CASE CreateOrUpdate
    BY <1>1, <1>2, ConcludeInv DEF CreateOrUpdate, OperationResults
  <1>3. CASE CreateOrUpdateFails
    BY <1>1, <1>3, ConcludeInv DEF CreateOrUpdateFails, OperationResults
  <1>4. CASE ReconcileFails
    BY <1>1, <1>4, ConcludeInv DEF ReconcileFails, OperationResults
  <1>. QED  BY <1>2, <1>3, <1>4

\* reconcileObject, deleting.
LEMMA DeleteInv ==
    ASSUME TypeOK, CallInv,
           StillDependedOn \/ OrphanObject \/ DeleteObject \/ DeleteObjectFails
    PROVE  CallInv'
  <1>1. AtObject /\ Current.key \in Keys
    BY CurrentType DEF StillDependedOn, OrphanObject, DeleteObject,
                       DeleteObjectFails, MayDelete
  <1>2. ASSUME UNCHANGED api PROVE OwnedStayGone
    BY <1>2 DEF OwnedStayGone
  <1>3. CASE StillDependedOn
    BY <1>1, <1>2, <1>3, ConcludeInv DEF StillDependedOn, OperationResults
  <1>4. CASE OrphanObject
    <2>1. "deleted" \in OperationResults /\ Current.policy # "delete"
      BY <1>4 DEF OrphanObject, OperationResults
    <2>. QED  BY <1>1, <1>2, <1>4, <2>1, ConcludeInv
              DEF OrphanObject, OperationResultOrphaned
  <1>5. CASE DeleteObject
    <2>1. CASE /\ api[Current.key] = "absent"
               /\ UNCHANGED api
               /\ Conclude("deleted", FALSE)
      BY <1>1, <1>2, <2>1, ConcludeInv DEF OperationResults
    <2>2. CASE /\ api[Current.key] # "absent"
               /\ Deletes(Current.key)
               /\ Conclude("deletionRequested", FALSE)
      BY <1>1, <2>2, DeletesStayGone, ConcludeInv DEF OperationResults
    <2>. QED  BY <1>5, <2>1, <2>2 DEF DeleteObject
  <1>6. CASE DeleteObjectFails
    BY <1>1, <1>2, <1>6, DeletesStayGone, ConcludeInv
       DEF DeleteObjectFails, OperationResults
  <1>. QED  BY <1>3, <1>4, <1>5, <1>6

\* A call starts with nothing known.
LEMMA CallStarts ==
    ASSUME TypeOK, CallInv, NEW p \in Plans, StartApply(p) \/ StartDelete(p)
    PROVE  CallInv'
  <1>1. /\ phase = "idle" /\ phase' = "objects" /\ plan' = p
        /\ UNCHANGED <<pos, seen, results, orphans>>
    BY DEF StartApply, StartDelete, Call
  <1>2. pos = 1 /\ seen = {} /\ results = <<>> /\ orphans = {}
    BY <1>1 DEF CallInv, IdleClean
  <1>3. Configured' /\ EveryObjectAttempted' /\ IdleClean' /\ ObjectsDone'
        /\ OrphansAreListed' /\ SeenAreGone'
    BY <1>1, <1>2 DEF Configured, EveryObjectAttempted, IdleClean, ObjectsDone,
                      OrphansAreListed, SeenAreGone
  <1>4. DeletedAreGone'
    <2>1. \A i \in DOMAIN p.objects : i \in Nat \ {0}
      BY PlanTypes
    <2>. QED  BY <1>1, <1>2, <2>1 DEF DeletedAreGone
  <1>. QED  BY <1>3, <1>4 DEF CallInv

\* A call is over: Take, or a crash.
LEMMA ResetInv ==
    ASSUME Reset, phase' = "idle"
    PROVE  CallInv'
  BY DEF Reset, CallInv, IdleClean, Configured, EveryObjectAttempted,
         ObjectsDone, DeletedAreGone, SeenAreGone, OrphansAreListed

\* Every step keeps what a call relies on.
LEMMA CallInvStep == TypeOK /\ CallInv /\ [Next]_vars => CallInv'
  <1>. SUFFICES ASSUME TypeOK, CallInv, [Next]_vars PROVE CallInv'
    OBVIOUS
  <1>1. ASSUME NEW p \in Plans, StartApply(p) \/ StartDelete(p) PROVE CallInv'
    BY <1>1, CallStarts
  <1>2. CASE Work
    BY <1>2, ApplyInv, DeleteInv, CheckInv, EndsInv, CleanerInv DEF Work
  <1>3. CASE Trouble
    BY <1>3, ApplyInv, DeleteInv, CheckInv, EndsInv, CleanerInv DEF Trouble
  <1>4. CASE Take
    BY <1>4, ResetInv DEF Take
  <1>5. CASE RequestDeletion \/ MeddleElsewhere
    BY <1>5, OutsideInv DEF RequestDeletion, MeddleElsewhere, OwnedStayGone
  <1>6. ASSUME NEW k \in Keys, Vanish(k) \/ Meddle(k) PROVE CallInv'
    <2>1. OwnedStayGone
      BY <1>6, OwnedAssumption DEF Vanish, Meddle, OwnedStayGone, TypeOK
    <2>. QED  BY <1>6, <2>1, OutsideInv DEF Vanish, Meddle
  <1>7. CASE Crash
    BY <1>7, ResetInv DEF Crash
  <1>8. CASE UNCHANGED vars
    BY <1>8, OutsideInv DEF vars, OwnedStayGone
  <1>. QED
    BY <1>1, <1>2, <1>3, <1>4, <1>5, <1>6, <1>7, <1>8 DEF Next

\* What a call relies on holds throughout, for any plans and any number of
\* failures, crashes and foreign writes.
THEOREM CallInvariant == Spec => []CallInv
  <1>1. Init => CallInv
    BY DEF Init, CallInv, IdleClean, Configured, EveryObjectAttempted,
           ObjectsDone, DeletedAreGone, SeenAreGone, OrphansAreListed
  <1>. QED  BY <1>1, CallInvStep, TypeCorrect, PTL DEF Spec

-----------------------------------------------------------------------------
(* The deletion verdict *)

\* What a call knows suffices for its verdict.
LEMMA VerdictFollows == TypeOK /\ CallInv => VerdictSound
  <1>. SUFFICES ASSUME TypeOK, CallInv, Verdict, NEW k \in Owned
                PROVE  api[k] = "absent"
    BY DEF VerdictSound
  <1>1. phase = "returned" /\ isDeletion /\ plan \in Plans
    BY DEF Verdict, CallInv, Configured
  <1>2. PICK i \in DOMAIN plan.objects :
          plan.objects[i].key = k /\ plan.objects[i].policy = "delete"
    BY <1>1, PlansFit DEF Complete
  <1>3. /\ plan.objects \in Seq(ManagedObject) /\ pos \in Nat \ {0}
        /\ pos \notin DOMAIN plan.objects
        /\ results \in Seq(Result) /\ Len(results) >= Len(plan.objects)
    BY <1>1, PlanTypes DEF TypeOK, CallInv, ObjectsDone, EveryObjectAttempted
  <1>4. i < pos /\ i \in DOMAIN results
    BY <1>3
  <1>5. results[i].op = "deleted"
    BY <1>4 DEF Verdict, AllDeleted
  <1>. QED  BY <1>1, <1>2, <1>4, <1>5 DEF CallInv, DeletedAreGone

\* When Delete reports everything as deleted and no cleaner gave up, no owned
\* object exists: the caller may release its finalizer.
THEOREM VerdictIsSound == Spec => []VerdictSound
  BY TypeCorrect, CallInvariant, VerdictFollows, PTL

\* A failing object does not keep a call from the objects after it.
THEOREM AttemptsEvery == Spec => []EveryObjectAttempted
  <1>1. CallInv => EveryObjectAttempted
    BY DEF CallInv
  <1>. QED  BY <1>1, CallInvariant, PTL

-----------------------------------------------------------------------------
(* The manager implements Teardown *)

\* An object that something owned depends on is deleted by reconcileObject only
\* after the lookups found every such dependent gone.
LEMMA DependentsGone ==
    ASSUME TypeOK, CallInv, MayDelete,
           NEW d \in Keys, <<d, Current.key>> \in Before
    PROVE  api[d] = "absent"
  <1>1. /\ phase = "objects" /\ pos \in DOMAIN plan.objects
        /\ isDeletion /\ ~blocked /\ Unseen = {}
    BY DEF MayDelete, AtObject
  <1>2. plan \in Plans /\ d \in Owned /\ Current.key \in Keys
    BY <1>1, BeforeAssumption, CurrentType
       DEF CallInv, Configured, MayDelete
  <1>3. PICK j \in DOMAIN plan.objects :
          plan.objects[j].key = d /\ pos \in plan.objects[j].dependsOn
    BY <1>1, <1>2, PlansFit DEF Current, Declared
  <1>4. j \in seen
    BY <1>1, <1>3 DEF Unseen, Dependents
  <1>. QED  BY <1>1, <1>2, <1>3, <1>4 DEF CallInv, SeenAreGone

\* While there is no verdict it does not change.
LEMMA VerdictUnchanged ==
    ASSUME ~Verdict, ~Verdict'
    PROVE  Verdict' = Verdict
  BY DEF Verdict

\* A delete request by reconcileObject is a Remove.
LEMMA DeleteSimulates ==
    ASSUME TypeOK, CallInv, MayDelete, api[Current.key] # "absent",
           Deletes(Current.key), UNCHANGED phase
    PROVE  T!Next
  <1>1. phase = "objects" /\ Current.key \in Keys
    BY CurrentType DEF MayDelete, AtObject
  <1>2. ~Verdict /\ ~Verdict'
    BY <1>1 DEF Verdict
  <1>3. \A d \in Keys : <<d, Current.key>> \in Before => api[d] = "absent"
    BY DependentsGone
  <1>4. \E s \in {"terminating", "absent"} : api' = [api EXCEPT ![Current.key] = s]
    BY <1>1, DeletesEffect DEF TypeOK
  <1>5. T!Remove(Current.key)
    BY <1>2, <1>3, <1>4, VerdictUnchanged DEF T!Remove
  <1>. QED  BY <1>1, <1>5 DEF T!Next

\* So is one by a cleaner: nothing owned depends on its orphans.
LEMMA CleanSimulates ==
    ASSUME TypeOK, CallInv, NEW k \in orphans, AtCleaner,
           api[k] # "absent", Deletes(k), UNCHANGED phase
    PROVE  T!Next
  <1>1. phase = "cleaners" /\ k \in Keys /\ plan \in Plans
    BY DEF AtCleaner, TypeOK, CallInv, Configured
  <1>2. ~Verdict /\ ~Verdict'
    BY <1>1 DEF Verdict
  <1>3. cleaner \in DOMAIN plan.cleaners /\ k \in plan.cleaners[cleaner]
    BY <1>1 DEF CallInv, OrphansAreListed
  <1>4. \A d \in Keys : <<d, k>> \notin Before
    BY <1>1, <1>3, BeforeAssumption, PlansFit DEF CleanersSpare
  <1>5. \E s \in {"terminating", "absent"} : api' = [api EXCEPT ![k] = s]
    BY <1>1, DeletesEffect DEF TypeOK
  <1>6. T!Remove(k)
    BY <1>2, <1>4, <1>5, VerdictUnchanged DEF T!Remove
  <1>. QED  BY <1>1, <1>6 DEF T!Next

\* A creation is a Create.
LEMMA CreateSimulates ==
    ASSUME TypeOK, AtObject, api[Current.key] = "absent",
           api' = [api EXCEPT ![Current.key] = "present"], UNCHANGED phase
    PROVE  T!Next
  <1>1. phase = "objects" /\ Current.key \in Keys
    BY CurrentType DEF AtObject
  <1>2. ~Verdict /\ ~Verdict'
    BY <1>1 DEF Verdict
  <1>3. T!Create(Current.key)
    BY <1>2, VerdictUnchanged DEF T!Create
  <1>. QED  BY <1>1, <1>3 DEF T!Next

\* A step that changes no cluster and gives no verdict.
LEMMA QuietSimulates ==
    ASSUME UNCHANGED api, ~Verdict'
    PROVE  [T!Next]_T!vars
  <1>1. CASE Verdict
    <2>1. Verdict' = FALSE
      BY DEF Verdict
    <2>. QED  BY <2>1 DEF T!Withdraw, T!Next
  <1>2. CASE ~Verdict
    BY <1>2, VerdictUnchanged DEF T!vars
  <1>. QED  BY <1>1, <1>2

\* The work of a call maps to Create, Remove, Announce or nothing.
LEMMA WorkSimulates ==
    ASSUME TypeOK, CallInv, TypeOK', CallInv', Work
    PROVE  [T!Next]_T!vars
  <1>1. CASE CreateOrUpdate
    <2>1. CASE api[Current.key] = "absent"
      <3>1. /\ AtObject /\ UNCHANGED phase
            /\ api' = [api EXCEPT ![Current.key] = "present"]
        BY <1>1, <2>1, CurrentType DEF CreateOrUpdate, Conclude, TypeOK
      <3>. QED  BY <2>1, <3>1, CreateSimulates
    <2>2. CASE api[Current.key] # "absent"
      <3>1. UNCHANGED api /\ phase' = "objects"
        BY <1>1, <2>2, CurrentType
           DEF CreateOrUpdate, Conclude, AtObject, TypeOK
      <3>. QED  BY <3>1, QuietSimulates DEF Verdict
    <2>. QED  BY <2>1, <2>2
  <1>2. CASE \/ CheckForDependent(FALSE) \/ StillDependedOn
           \/ OrphanObject \/ ReconcileFails
    <2>1. UNCHANGED api /\ phase' = "objects"
      BY <1>2 DEF CheckForDependent, StillDependedOn, OrphanObject, ReconcileFails,
                  MayDelete, AtObject, Conclude
    <2>. QED  BY <2>1, QuietSimulates DEF Verdict
  <1>3. CASE DeleteObject
    <2>1. MayDelete /\ phase' = "objects" /\ UNCHANGED phase
      BY <1>3 DEF DeleteObject, MayDelete, AtObject, Conclude
    <2>2. CASE UNCHANGED api
      BY <2>1, <2>2, QuietSimulates DEF Verdict
    <2>3. CASE api[Current.key] # "absent" /\ Deletes(Current.key)
      BY <2>1, <2>3, DeleteSimulates
    <2>. QED  BY <1>3, <2>2, <2>3 DEF DeleteObject
  <1>4. CASE EndObjects \/ EndCleaner \/ \E found \in SUBSET Orphans : ListOrphans(found)
    <2>1. UNCHANGED api /\ phase' = "cleaners"
      BY <1>4 DEF EndObjects, ListOrphans, EndCleaner, AtCleaner
    <2>. QED  BY <2>1, QuietSimulates DEF Verdict
  <1>5. ASSUME NEW k \in orphans, DeleteOrphan(k)
        PROVE  [T!Next]_T!vars
    <2>1. AtCleaner /\ phase' = "cleaners" /\ UNCHANGED phase
      BY <1>5 DEF DeleteOrphan, AtCleaner
    <2>2. CASE UNCHANGED api
      BY <2>1, <2>2, QuietSimulates DEF Verdict
    <2>3. CASE api[k] # "absent" /\ Deletes(k)
      BY <2>1, <2>3, CleanSimulates
    <2>. QED  BY <1>5, <2>2, <2>3 DEF DeleteOrphan
  <1>6. CASE EndCleaners
    <2>1. UNCHANGED api /\ phase = "cleaners"
      BY <1>6 DEF EndCleaners
    <2>2. CASE Verdict'
      <3>1. \A k \in Owned : api[k] = "absent"
        <4>1. (TypeOK /\ CallInv)' => VerdictSound'
          BY VerdictFollows, PTL
        <4>. QED  BY <2>1, <2>2, <4>1 DEF VerdictSound
      <3>2. Verdict' = TRUE
        BY <2>2 DEF Verdict
      <3>3. T!Announce
        BY <2>1, <3>1, <3>2 DEF T!Announce
      <3>4. T!Next
        BY <3>3 DEF T!Next
      <3>. QED  BY <3>4
    <2>3. CASE ~Verdict'
      BY <2>1, <2>3, QuietSimulates
    <2>. QED  BY <2>2, <2>3
  <1>. QED  BY <1>1, <1>2, <1>3, <1>4, <1>5, <1>6 DEF Work

\* Failed requests map to the same steps.
LEMMA TroubleSimulates ==
    ASSUME TypeOK, CallInv, Trouble
    PROVE  [T!Next]_T!vars
  <1>1. CASE CreateOrUpdateFails
    <2>1. AtObject /\ phase' = "objects" /\ UNCHANGED phase
      BY <1>1 DEF CreateOrUpdateFails, AtObject, Conclude
    <2>2. CASE UNCHANGED api
      BY <2>1, <2>2, QuietSimulates DEF Verdict
    <2>3. CASE /\ api[Current.key] = "absent"
               /\ api' = [api EXCEPT ![Current.key] = "present"]
      BY <2>1, <2>3, CreateSimulates
    <2>. QED  BY <1>1, <2>2, <2>3 DEF CreateOrUpdateFails
  <1>2. CASE CheckForDependent(TRUE)
    <2>1. UNCHANGED api /\ phase' = "objects"
      BY <1>2 DEF CheckForDependent, AtObject
    <2>. QED  BY <2>1, QuietSimulates DEF Verdict
  <1>3. CASE DeleteObjectFails
    <2>1. MayDelete /\ phase' = "objects" /\ UNCHANGED phase
      BY <1>3 DEF DeleteObjectFails, MayDelete, AtObject, Conclude
    <2>2. CASE UNCHANGED api
      BY <2>1, <2>2, QuietSimulates DEF Verdict
    <2>3. CASE api[Current.key] # "absent" /\ Deletes(Current.key)
      BY <2>1, <2>3, DeleteSimulates
    <2>. QED  BY <1>3, <2>2, <2>3 DEF DeleteObjectFails
  <1>4. CASE ListOrphansFails
    <2>1. UNCHANGED api /\ cleanupErr' = TRUE
      BY <1>4 DEF ListOrphansFails
    <2>. QED  BY <2>1, QuietSimulates DEF Verdict
  <1>5. ASSUME NEW k \in orphans, DeleteOrphanFails(k)
        PROVE  [T!Next]_T!vars
    <2>1. AtCleaner /\ phase' = "cleaners" /\ UNCHANGED phase
      BY <1>5 DEF DeleteOrphanFails, AtCleaner
    <2>2. CASE UNCHANGED api
      BY <2>1, <2>2, QuietSimulates DEF Verdict
    <2>3. CASE api[k] # "absent" /\ Deletes(k)
      BY <2>1, <2>3, CleanSimulates
    <2>. QED  BY <1>5, <2>2, <2>3 DEF DeleteOrphanFails
  <1>. QED  BY <1>1, <1>2, <1>3, <1>4, <1>5 DEF Trouble

\* Every step of the manager maps to a step of Teardown, or to none.
LEMMA StepSimulates ==
    ASSUME TypeOK, CallInv, TypeOK', CallInv', [Next]_vars
    PROVE  [T!Next]_T!vars
  <1>1. ASSUME NEW p \in Plans, StartApply(p) \/ StartDelete(p)
        PROVE  [T!Next]_T!vars
    <2>1. UNCHANGED api /\ phase' = "objects"
      BY <1>1 DEF StartApply, StartDelete, Call
    <2>. QED  BY <2>1, QuietSimulates DEF Verdict
  <1>2. CASE Work
    BY <1>2, WorkSimulates
  <1>3. CASE Trouble
    BY <1>3, TroubleSimulates
  <1>4. CASE Take \/ Crash
    <2>1. UNCHANGED api /\ phase' = "idle"
      BY <1>4 DEF Take, Crash
    <2>. QED  BY <2>1, QuietSimulates DEF Verdict
  <1>5. CASE RequestDeletion \/ MeddleElsewhere \/ UNCHANGED vars
    <2>1. UNCHANGED <<api, phase, isDeletion, results, cleanupErr>>
      BY <1>5 DEF RequestDeletion, MeddleElsewhere, vars, passVars
    <2>2. Verdict' = Verdict
      BY <2>1 DEF Verdict
    <2>. QED  BY <2>1, <2>2 DEF T!vars
  <1>6. ASSUME NEW k \in Keys, Vanish(k) \/ Meddle(k)
        PROVE  [T!Next]_T!vars
    <2>1. UNCHANGED <<phase, isDeletion, results, cleanupErr>>
      BY <1>6 DEF Vanish, Meddle, passVars
    <2>2. Verdict' = Verdict
      BY <2>1 DEF Verdict
    <2>3. CASE Vanish(k)
      BY <2>2, <2>3 DEF Vanish, T!Vanish, T!Next
    <2>4. CASE Meddle(k)
      <3>1. T!Meddle(k)
        BY <2>2, <2>4 DEF Meddle, T!Meddle, ObjectStates, T!ObjectStates
      <3>. QED  BY <3>1 DEF T!Next
    <2>. QED  BY <1>6, <2>3, <2>4
  <1>. QED  BY <1>1, <1>2, <1>3, <1>4, <1>5, <1>6 DEF Next

\* The manager keeps the promise of Teardown: nothing owned is created while it
\* is declared gone, dependents are removed first, and "all deleted" is said
\* only when it is true.
THEOREM ManagerImplementsTeardown == Spec => PromiseKept
  <1>1. Init => T!Init
    BY DEF Init, T!Init, Verdict, ObjectStates, T!ObjectStates
  <1>2. TypeOK /\ CallInv /\ TypeOK' /\ CallInv' /\ [Next]_vars
          => [T!Next]_T!vars
    BY StepSimulates
  <1>. QED
    BY <1>1, <1>2, TypeCorrect, CallInvariant, PTL
       DEF Spec, PromiseKept, T!Spec

=============================================================================
