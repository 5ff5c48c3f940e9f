------------------------ MODULE FluxReconcilerProofs ------------------------
(***************************************************************************)
(* Proofs about FluxReconciler, for any ProviderConfigs, versions, secrets *)
(* and namespaces and any number of upsets and changes.  The calls of the  *)
(* manager are taken care of by the lemmas of ManagerProofs, for a caller  *)
(* that is leaving once the Flux object is being deleted.                  *)
(***************************************************************************)
EXTENDS FluxReconciler, SequenceTheorems, TLAPS

MP == INSTANCE ManagerProofs WITH leaving <- (stage = "deleting")

-----------------------------------------------------------------------------
(* The plans are plans that Manager is verified for *)

\* The settings that a ProviderConfig can give rise to.
ValidSettings == [fv : FluxVersion, ca : BOOLEAN]

LEMMA SettingsValid ==
    ASSUME NEW c \in ProviderConfigs, NEW v \in DOMAIN c.versions
    PROVE  Settings(c, v) \in ValidSettings
  BY ConfigAssumption DEF Settings, ValidSettings

LEMMA KeyKinds ==
    /\ Owned = {OCIRepository, HelmRelease} /\ OCIRepository # HelmRelease
    /\ OCIRepository.kind = "OCIRepository" /\ HelmRelease.kind = "HelmRelease"
    /\ \A k \in Copies : k.kind \in {"Secret", "ConfigMap"}
    /\ Copies \cap Owned = {}
    /\ Copies \cup Owned \subseteq Keys
  BY DEF Owned, OCIRepository, HelmRelease, Copies, SecretKey, ConfigMapKey, Keys

\* The copies a plan may have objects for.
LEMMA CopiesOfAreCopies ==
    ASSUME NEW s \in ValidSettings
    PROVE  CopiesOf(s) \subseteq Copies
  <1>1. s.fv.namespace \in Namespaces
    BY DEF ValidSettings, FluxVersion
  <1>. QED  BY <1>1 DEF CopiesOf, Copies

\* The objects of the first three parts of a plan are copies.
CopyObjects(s) == [key : CopiesOf(s), dependsOn : {{}}, policy : {"delete"}]

LEMMA PlanParts ==
    ASSUME NEW s \in ValidSettings
    PROVE  /\ ManagePullSecrets(s.fv.namespace, s.fv.imagePullSecrets) \in Seq(CopyObjects(s))
           /\ ManageCaConfigMap(s) \in Seq(CopyObjects(s))
           /\ ManagePullSecrets(Tenant, s.fv.chartPullSecret) \in Seq(CopyObjects(s))
  <1>1. s.fv \in FluxVersion /\ s.ca \in BOOLEAN
    BY DEF ValidSettings
  <1>2. ASSUME NEW ns \in {Tenant, s.fv.namespace}, NEW refs \in Seq(Secrets)
        PROVE  ManagePullSecrets(ns, refs) \in Seq(CopyObjects(s))
    <2>1. \A i \in 1 .. Len(refs) : SecretKey(ns, refs[i]) \in CopiesOf(s)
      <3>1. \A i \in 1 .. Len(refs) : refs[i] \in Secrets
        BY ElementOfSeq
      <3>. QED  BY <3>1 DEF CopiesOf
    <2>2. ManagePullSecrets(ns, refs) =
            [i \in 1 .. Len(refs) |-> ManagedObject(SecretKey(ns, refs[i]), {})]
      BY DEF ManagePullSecrets
    <2>3. \A i \in 1 .. Len(refs) :
            ManagedObject(SecretKey(ns, refs[i]), {}) \in CopyObjects(s)
      BY <2>1 DEF ManagedObject, CopyObjects
    <2>. QED  BY <2>2, <2>3, IsASeq, LenProperties
  <1>3. ManageCaConfigMap(s) \in Seq(CopyObjects(s))
    <2>1. ManagedObject(ConfigMapKey(s.fv.namespace), {}) \in CopyObjects(s)
      BY <1>1 DEF ManagedObject, CopiesOf, CopyObjects
    <2>2. /\ <<>> \in Seq(CopyObjects(s))
          /\ <<ManagedObject(ConfigMapKey(s.fv.namespace), {})>> \in Seq(CopyObjects(s))
      BY <2>1
    <2>. QED  BY <2>2 DEF ManageCaConfigMap
  <1>. QED  BY <1>1, <1>2, <1>3 DEF FluxVersion

LEMMA CopiesFirst ==
    ASSUME NEW s \in ValidSettings
    PROVE  LET first == ManagePullSecrets(s.fv.namespace, s.fv.imagePullSecrets)
                        \o ManageCaConfigMap(s)
                        \o ManagePullSecrets(Tenant, s.fv.chartPullSecret)
           IN  /\ first \in Seq(MP!ManagedObject)
               /\ \A i \in DOMAIN first : first[i].key \in CopiesOf(s)
  <1>. DEFINE first == ManagePullSecrets(s.fv.namespace, s.fv.imagePullSecrets)
                       \o ManageCaConfigMap(s)
                       \o ManagePullSecrets(Tenant, s.fv.chartPullSecret)
  <1>1. first \in Seq(CopyObjects(s))
    BY PlanParts, ConcatProperties
  <1>2. CopyObjects(s) \subseteq MP!ManagedObject
    BY KeyKinds, CopiesOfAreCopies DEF MP!ManagedObject, MP!Policies, CopyObjects
  <1>3. first \in Seq(MP!ManagedObject)
    BY <1>1, <1>2, SeqMonotonic
  <1>4. \A i \in DOMAIN first : first[i] \in CopyObjects(s)
    <2>. HIDE DEF first
    <2>. QED  BY <1>1, ElementOfSeq, LenProperties
  <1>. QED  BY <1>3, <1>4 DEF CopyObjects

\* What a plan's last two objects are, and that those before are copies.
LEMMA PlanObjects ==
    ASSUME NEW s \in ValidSettings
    PROVE  \E n \in Nat :
            LET objects == PlanOf(s).objects IN
            /\ objects \in Seq(MP!ManagedObject) /\ Len(objects) = n + 2
            /\ \A i \in 1 .. n : objects[i].key \in CopiesOf(s)
            /\ objects[n + 1] = ManagedObject(OCIRepository, {})
            /\ objects[n + 2] = ManagedObject(HelmRelease, {n + 1})
  <1>. DEFINE first == ManagePullSecrets(s.fv.namespace, s.fv.imagePullSecrets)
                       \o ManageCaConfigMap(s)
                       \o ManagePullSecrets(Tenant, s.fv.chartPullSecret)
              n == Len(first)
              last == ManageFluxResources(n)
  <1>1. first \in Seq(MP!ManagedObject) /\ \A i \in DOMAIN first : first[i].key \in CopiesOf(s)
    BY CopiesFirst
  <1>2. PlanOf(s).objects = first \o last
    BY DEF PlanOf
  <1>. HIDE DEF first
  <1>3. n \in Nat /\ n = Len(first) /\ DOMAIN first = 1 .. n
    BY <1>1, LenProperties
  <1>4. /\ last \in Seq(MP!ManagedObject) /\ Len(last) = 2
        /\ last[1] = ManagedObject(OCIRepository, {})
        /\ last[2] = ManagedObject(HelmRelease, {n + 1})
    <2>1. /\ ManagedObject(OCIRepository, {}) \in MP!ManagedObject
          /\ ManagedObject(HelmRelease, {n + 1}) \in MP!ManagedObject
      BY <1>3, KeyKinds DEF ManagedObject, MP!ManagedObject, MP!Policies
    <2>. QED  BY <2>1 DEF ManageFluxResources
  <1>. HIDE DEF n, last
  <1>5. /\ first \o last \in Seq(MP!ManagedObject)
        /\ Len(first \o last) = n + 2
        /\ \A i \in 1 .. n + 2 : (first \o last)[i] =
                IF i <= n THEN first[i] ELSE last[i - n]
    <2>1. /\ first \o last \in Seq(MP!ManagedObject)
          /\ Len(first \o last) = Len(first) + Len(last)
          /\ \A i \in 1 .. Len(first) + Len(last) : (first \o last)[i] =
                IF i <= Len(first) THEN first[i] ELSE last[i - Len(first)]
      BY <1>1, <1>4, ConcatProperties
    <2>. QED  BY <1>3, <1>4, <2>1
  <1>6. /\ \A i \in 1 .. n : (first \o last)[i].key \in CopiesOf(s)
        /\ (first \o last)[n + 1] = ManagedObject(OCIRepository, {})
        /\ (first \o last)[n + 2] = ManagedObject(HelmRelease, {n + 1})
    BY <1>1, <1>3, <1>4, <1>5
  <1>. QED
    BY <1>2, <1>3, <1>5, <1>6

LEMMA PlanFits ==
    ASSUME NEW s \in ValidSettings
    PROVE  /\ PlanOf(s) \in MP!Plan
           /\ MP!Complete(PlanOf(s)) /\ MP!Declared(PlanOf(s))
           /\ MP!CleanersSpare(PlanOf(s))
           /\ \A i \in DOMAIN PlanOf(s).objects :
                PlanOf(s).objects[i].key \in CopiesOf(s) \cup Owned
  <1>1. PICK n \in Nat :
            /\ PlanOf(s).objects \in Seq(MP!ManagedObject)
            /\ Len(PlanOf(s).objects) = n + 2
            /\ \A i \in 1 .. n : PlanOf(s).objects[i].key \in CopiesOf(s)
            /\ PlanOf(s).objects[n + 1] = ManagedObject(OCIRepository, {})
            /\ PlanOf(s).objects[n + 2] = ManagedObject(HelmRelease, {n + 1})
    BY PlanObjects
  <1>2. DOMAIN PlanOf(s).objects = 1 .. n + 2
    BY <1>1, LenProperties
  <1>3. \A i \in DOMAIN PlanOf(s).objects :
            \/ i \in 1 .. n /\ PlanOf(s).objects[i].key \in CopiesOf(s)
            \/ /\ i = n + 1 /\ PlanOf(s).objects[i].key = OCIRepository
               /\ PlanOf(s).objects[i].policy = "delete"
            \/ /\ i = n + 2 /\ PlanOf(s).objects[i].key = HelmRelease
               /\ PlanOf(s).objects[i].policy = "delete"
               /\ PlanOf(s).objects[i].dependsOn = {n + 1}
    BY <1>1, <1>2 DEF ManagedObject
  <1>4. MP!Complete(PlanOf(s))
    <2>1. n + 1 \in DOMAIN PlanOf(s).objects /\ n + 2 \in DOMAIN PlanOf(s).objects
      BY <1>2
    <2>. QED  BY <1>3, <2>1, KeyKinds DEF MP!Complete
  <1>5. MP!Declared(PlanOf(s))
    <2>. SUFFICES ASSUME NEW i \in DOMAIN PlanOf(s).objects,
                         PlanOf(s).objects[i].key = OCIRepository
                  PROVE  /\ n + 2 \in DOMAIN PlanOf(s).objects
                         /\ PlanOf(s).objects[n + 2].key = HelmRelease
                         /\ i \in PlanOf(s).objects[n + 2].dependsOn
      BY DEF MP!Declared, Before
    <2>1. i = n + 1
      BY <1>3, KeyKinds, CopiesOfAreCopies
    <2>. QED  BY <1>1, <1>2, <2>1 DEF ManagedObject
  <1>6. /\ PlanOf(s).cleaners \in Seq(SUBSET Keys)
        /\ DOMAIN PlanOf(s).cleaners = 1 .. 3
        /\ \A i \in 1 .. 3, k \in Keys :
            k \in PlanOf(s).cleaners[i] => k.kind \in {"Secret", "ConfigMap"}
    BY DEF PlanOf, OrphansOf
  <1>7. MP!CleanersSpare(PlanOf(s))
    BY <1>6, KeyKinds DEF MP!CleanersSpare, Before
  <1>8. PlanOf(s) \in MP!Plan
    <2>1. PlanOf(s) = [objects |-> PlanOf(s).objects, cleaners |-> PlanOf(s).cleaners]
      BY DEF PlanOf
    <2>. QED  BY <1>1, <1>6, <2>1 DEF MP!Plan
  <1>. QED  BY <1>3, <1>4, <1>5, <1>7, <1>8, KeyKinds

\* So the assumptions of Manager hold here.
LEMMA PlansArePlans ==
    ASSUME NEW p \in Plans
    PROVE  \E s \in ValidSettings : p = PlanOf(s)
  <1>1. PICK c \in ProviderConfigs : \E v \in DOMAIN c.versions : p = PlanOf(Settings(c, v))
    BY DEF Plans
  <1>. QED  BY <1>1, SettingsValid

LEMMA ManagerFits ==
    /\ Owned \subseteq Keys
    /\ Before \subseteq Owned \X Keys
    /\ MaxUpsets \in Nat
    /\ Plans \subseteq MP!Plan
    /\ \A p \in Plans : MP!Complete(p) /\ MP!Declared(p) /\ MP!CleanersSpare(p)
  BY PlansArePlans, PlanFits, KeyKinds, BoundsAssumption DEF Before

LEMMA PlanKeys ==
    ASSUME NEW p \in Plans, NEW i \in DOMAIN p.objects
    PROVE  p.objects[i].key \in Copies \cup Owned
  BY PlansArePlans, PlanFits, CopiesOfAreCopies

-----------------------------------------------------------------------------
(* The steps, as Manager sees them *)

\* The caller's side of Manager: neither the Flux object's stage nor the
\* bound on upsets changes.
Quiet == UNCHANGED <<stage, upsets>>

LEMMA ManagerWorks ==
    ASSUME Quiet,
           \/ M!CreateOrUpdate
           \/ M!ReconcileFails
           \/ M!CheckForDependent(FALSE)
           \/ M!StillDependedOn
           \/ M!DeleteObject
           \/ M!EndObjects
           \/ M!AtCleaner /\ \E found \in SUBSET M!Orphans : M!ListOrphans(found)
           \/ \E k \in orphans : M!DeleteOrphan(k)
           \/ M!EndCleaner
           \/ M!EndCleaners
    PROVE  MP!Work
  <1>. USE DEF Quiet, MP!Work
  <1>1. CASE M!CreateOrUpdate
    BY <1>1 DEF M!CreateOrUpdate, MP!CreateOrUpdate, M!AtObject, MP!AtObject,
                M!Current, MP!Current, M!Conclude, MP!Conclude
  <1>2. CASE M!CheckForDependent(FALSE)
    BY <1>2 DEF M!CheckForDependent, MP!CheckForDependent, M!AtObject, MP!AtObject,
                M!Unseen, MP!Unseen, M!Dependents, MP!Dependents
  <1>3. CASE M!StillDependedOn
    BY <1>3 DEF M!StillDependedOn, MP!StillDependedOn, M!AtObject, MP!AtObject,
                M!Unseen, MP!Unseen, M!Dependents, MP!Dependents,
                M!Conclude, MP!Conclude
  <1>4. CASE M!DeleteObject
    BY <1>4 DEF M!DeleteObject, MP!DeleteObject, M!MayDelete, MP!MayDelete,
                M!AtObject, MP!AtObject, M!Unseen, MP!Unseen, M!Dependents,
                MP!Dependents, M!Current, MP!Current, M!Deletes, MP!Deletes,
                M!Conclude, MP!Conclude
  <1>5. CASE M!EndObjects
    BY <1>5 DEF M!EndObjects, MP!EndObjects, M!passVars, MP!passVars
  <1>6. CASE \E k \in orphans : M!DeleteOrphan(k)
    BY <1>6 DEF M!DeleteOrphan, MP!DeleteOrphan, M!AtCleaner, MP!AtCleaner,
                M!Deletes, MP!Deletes
  <1>7. CASE M!EndCleaner
    BY <1>7 DEF M!EndCleaner, MP!EndCleaner, M!AtCleaner, MP!AtCleaner
  <1>8. CASE M!EndCleaners
    BY <1>8 DEF M!EndCleaners, MP!EndCleaners, M!passVars, MP!passVars
  <1>9. CASE M!ReconcileFails
    BY <1>9 DEF M!ReconcileFails, MP!ReconcileFails, M!AtObject, MP!AtObject,
                M!Conclude, MP!Conclude
  <1>10. CASE M!AtCleaner /\ \E found \in SUBSET M!Orphans : M!ListOrphans(found)
    BY <1>10 DEF M!ListOrphans, MP!ListOrphans, M!Orphans, MP!Orphans,
                 M!AtCleaner, MP!AtCleaner
  <1>. QED
    BY <1>1, <1>2, <1>3, <1>4, <1>5, <1>6, <1>7, <1>8, <1>9, <1>10

LEMMA ManagerFails ==
    ASSUME UNCHANGED stage, Upset,
           \/ M!CreateOrUpdateFails
           \/ M!CheckForDependent(TRUE)
           \/ M!DeleteObjectFails
           \/ M!ListOrphansFails
           \/ \E k \in orphans : M!DeleteOrphanFails(k)
    PROVE  MP!Trouble
  <1>. USE DEF MP!Trouble, Upset, MP!Upset
  <1>1. CASE M!CreateOrUpdateFails
    BY <1>1 DEF M!CreateOrUpdateFails, MP!CreateOrUpdateFails, M!AtObject,
                MP!AtObject, M!Current, MP!Current, M!Conclude, MP!Conclude
  <1>2. CASE M!CheckForDependent(TRUE)
    BY <1>2 DEF M!CheckForDependent, MP!CheckForDependent, M!AtObject, MP!AtObject,
                M!Unseen, MP!Unseen, M!Dependents, MP!Dependents
  <1>3. CASE M!DeleteObjectFails
    BY <1>3 DEF M!DeleteObjectFails, MP!DeleteObjectFails, M!MayDelete,
                MP!MayDelete, M!AtObject, MP!AtObject, M!Unseen, MP!Unseen,
                M!Dependents, MP!Dependents, M!Current, MP!Current, M!Deletes,
                MP!Deletes, M!Conclude, MP!Conclude
  <1>4. CASE M!ListOrphansFails
    BY <1>4 DEF M!ListOrphansFails, MP!ListOrphansFails, M!AtCleaner, MP!AtCleaner
  <1>5. CASE \E k \in orphans : M!DeleteOrphanFails(k)
    BY <1>5 DEF M!DeleteOrphanFails, MP!DeleteOrphanFails, M!AtCleaner,
                MP!AtCleaner, M!Deletes, MP!Deletes
  <1>. QED  BY <1>1, <1>2, <1>3, <1>4, <1>5

\* A call begins, for the stage the Flux object is in.
LEMMA CallBegins ==
    ASSUME Reconcile, pc \in ProviderConfigs
    PROVE  /\ stage # "gone" /\ Quiet
           /\ \E p \in Plans : MP!StartApply(p) \/ MP!StartDelete(p)
  <1>1. Offered(pc, version)
    BY DEF Reconcile, CreateObjectManager
  <1>2. PlanOf(Settings(pc, version)) \in Plans
    BY <1>1 DEF Plans, Offered
  <1>. QED
    BY <1>2 DEF Reconcile, Quiet, fluxVars, boundVars, M!Call, MP!Call,
                MP!StartApply, MP!StartDelete

\* A call ends, with the verdict or without, or is cut off.
CallEnds ==
    /\ phase' = "idle" /\ MP!Reset
    /\ UNCHANGED api
    /\ stage' = stage \/ (stage' = "gone" /\ MP!Verdict)
    /\ upsets' = upsets \/ MP!Upset

LEMMA CallIsOver ==
    ASSUME Return \/ Crash
    PROVE  CallEnds
  <1>. USE DEF CallEnds, Forget, M!Reset, MP!Reset, M!NoPlan, MP!NoPlan, fluxVars,
               worldVars, dataVars, boundVars
  <1>1. CASE Return
    BY <1>1 DEF Return, M!Verdict, MP!Verdict, M!AllDeleted, MP!AllDeleted
  <1>2. CASE Crash
    BY <1>2 DEF Crash, Upset, MP!Upset
  <1>. QED  BY <1>1, <1>2

\* What others do leaves a running call alone, and no owned object appears.  The
\* Flux object only goes for want of a version.
Outside ==
    /\ UNCHANGED callVars
    /\ \/ UNCHANGED api
       \/ /\ \E k \in Copies, s \in {"absent", "present"} : api' = [api EXCEPT ![k] = s]
          /\ UNCHANGED stage
       \/ /\ \E k \in Owned :
                api[k] = "terminating" /\ api' = [api EXCEPT ![k] = "absent"]
          /\ UNCHANGED stage
    /\ \/ stage' = stage
       \/ stage' = "deleting" /\ stage = "live"
       \/ stage' = "live" /\ stage = "gone"
       \/ stage' = "gone" /\ phase = "idle" /\ ~Offered(pc, version)
    /\ upsets' = upsets \/ (upsets > 0 /\ upsets' = upsets - 1)

LEMMA OthersAct ==
    ASSUME \/ RejectConfiguration
           \/ Users
           \/ FluxControllers
           \/ UNCHANGED vars,
           stage \in {"live", "deleting", "gone"}
    PROVE  Outside
  <1>. USE DEF Outside, callVars, fluxVars, worldVars, dataVars, boundVars, Upset,
               Change, NoCall, NoFlux
  <1>1. CASE RejectConfiguration
    BY <1>1 DEF RejectConfiguration, CreateObjectManager
  <1>2. CASE RequestDeletion \/ Recreate
    BY <1>2 DEF RequestDeletion, Recreate
  <1>3. CASE ChangeConfiguration \/ ChangeSource
    BY <1>3 DEF ChangeConfiguration, ChangeSource
  <1>4. CASE Drift \/ TakeOver
    BY <1>4 DEF Drift, TakeOver
  <1>5. CASE FetchChart \/ Install
    BY <1>5 DEF FetchChart, Install
  <1>6. CASE RollOut \/ RollOutFails \/ Degrade
    BY <1>6 DEF RollOut, RollOutFails, Degrade
  <1>7. ASSUME NEW k \in Owned, Finalize(k) PROVE Outside
    BY <1>7 DEF Finalize
  <1>8. CASE UNCHANGED vars
    BY <1>8 DEF vars
  <1>. QED  BY <1>1, <1>2, <1>3, <1>4, <1>5, <1>6, <1>7, <1>8 DEF Users, FluxControllers

\* Every step is one of these.
CallStep ==
    \/ Quiet /\ MP!Work
    \/ UNCHANGED stage /\ MP!Trouble
    \/ Reconcile
    \/ CallEnds

LEMMA StepKinds ==
    ASSUME [Next]_vars, stage \in {"live", "deleting", "gone"}
    PROVE  CallStep \/ Outside
  <1>. USE DEF CallStep, NoWrite, NoView, fluxVars, worldVars, dataVars, boundVars,
               Quiet, Upset
  <1>1. CASE ApplyObject
    BY <1>1, ManagerWorks DEF ApplyObject
  <1>2. CASE SourceMissing
    BY <1>2, ManagerWorks DEF SourceMissing
  <1>3. CASE LookUp(FALSE) /\ UNCHANGED boundVars
    BY <1>3, ManagerWorks DEF LookUp
  <1>4. CASE SkipObject
    BY <1>4, ManagerWorks DEF SkipObject
  <1>5. CASE DeleteObject
    BY <1>5, ManagerWorks, ManagerFails DEF DeleteObject
  <1>6. CASE (EndObjects \/ EndCleaner) /\ UNCHANGED boundVars
    BY <1>6, ManagerWorks DEF EndObjects, EndCleaner
  <1>7. CASE ListOrphans /\ UNCHANGED boundVars
    <2>1. {k \in M!Orphans : label[k]} \in SUBSET M!Orphans
      OBVIOUS
    <2>. QED  BY <1>7, <2>1, ManagerWorks DEF ListOrphans
  <1>8. CASE DeleteOrphan
    BY <1>8, ManagerWorks, ManagerFails DEF DeleteOrphan
  <1>9. CASE ApplyObjectFails
    BY <1>9, ManagerFails DEF ApplyObjectFails
  <1>10. CASE LookUp(TRUE) /\ Upset
    BY <1>10, ManagerFails DEF LookUp
  <1>11. CASE M!ListOrphansFails /\ NoWrite /\ NoView /\ Upset
    BY <1>11, ManagerFails
  <1>12. CASE Crash \/ Return
    BY <1>12, CallIsOver
  <1>13. CASE RejectConfiguration \/ Users \/ FluxControllers \/ UNCHANGED vars
    BY <1>13, OthersAct
  <1>. QED
    BY <1>1, <1>2, <1>3, <1>4, <1>5, <1>6, <1>7, <1>8, <1>9, <1>10, <1>11, <1>12,
       <1>13
    DEF Next, Controller, Work, Trouble

-----------------------------------------------------------------------------
(* The running call *)

\* What Manager's call relies on, and what this module adds: a call runs for
\* an object that exists, and a deletion for one that is being deleted.
CallOK ==
    /\ MP!TypeOK
    /\ MP!CallInv
    /\ pc \in ProviderConfigs /\ version \in Versions
    /\ stage \in {"live", "deleting", "gone"}
    /\ phase # "idle" => stage # "gone"
    /\ isDeletion => stage = "deleting"

\* Others leave the types of the clusters and of the call alone.
LEMMA OutsideTypes ==
    ASSUME MP!TypeOK, Outside
    PROVE  MP!TypeOK' /\ MP!OwnedStayGone
  <1>. USE DEF MP!TypeOK, Outside, callVars
  <1>1. api' \in [Keys -> MP!ObjectStates]
    BY DEF MP!ObjectStates
  <1>2. upsets' \in 0 .. MaxUpsets
    BY ManagerFits
  <1>3. (stage = "deleting")' \in BOOLEAN
    OBVIOUS
  <1>4. MP!OwnedStayGone
    BY KeyKinds DEF MP!OwnedStayGone, MP!ObjectStates
  <1>. QED  BY <1>1, <1>2, <1>3, <1>4

LEMMA CallEndsTypes ==
    ASSUME MP!TypeOK, CallEnds
    PROVE  MP!TypeOK' /\ MP!CallInv'
  <1>1. MP!PassTypes' /\ MP!CallInv'
    BY ManagerFits, MP!ResetType, MP!ResetInv DEF CallEnds
  <1>2. upsets' \in 0 .. MaxUpsets
    BY ManagerFits DEF CallEnds, MP!Upset, MP!TypeOK
  <1>3. (stage = "deleting")' \in BOOLEAN
    OBVIOUS
  <1>. QED  BY <1>1, <1>2, <1>3 DEF CallEnds, MP!TypeOK, MP!PassTypes

LEMMA ManagerKeeps ==
    ASSUME CallOK, CallStep \/ Outside
    PROVE  MP!TypeOK' /\ MP!CallInv'
  <1>. USE ManagerFits DEF CallOK
  <1>1. CASE Quiet /\ MP!Work
    BY <1>1, MP!WorkType, MP!ApplyInv, MP!DeleteInv, MP!CheckInv, MP!EndsInv,
       MP!CleanerInv DEF MP!Work
  <1>2. CASE UNCHANGED stage /\ MP!Trouble
    BY <1>2, MP!TroubleType, MP!ApplyInv, MP!DeleteInv, MP!CheckInv, MP!EndsInv,
       MP!CleanerInv DEF MP!Trouble
  <1>3. CASE Reconcile
    <2>1. PICK p \in Plans : MP!StartApply(p) \/ MP!StartDelete(p)
      BY <1>3, CallBegins
    <2>2. MP!CallInv'
      BY <2>1, MP!CallStarts
    <2>3. MP!TypeOK'
      BY <1>3, <2>1, CallBegins
         DEF Quiet, MP!StartApply, MP!StartDelete, MP!Call, MP!TypeOK
    <2>. QED  BY <2>2, <2>3
  <1>4. CASE CallEnds
    BY <1>4, CallEndsTypes
  <1>5. CASE Outside
    <2>1. UNCHANGED <<phase, MP!passVars>>
      BY <1>5 DEF Outside, callVars, MP!passVars
    <2>. QED  BY <1>5, <2>1, OutsideTypes, MP!OutsideInv
  <1>. QED  BY <1>1, <1>2, <1>3, <1>4, <1>5 DEF CallStep

LEMMA CallOKInit == Init => CallOK
  <1>. SUFFICES ASSUME Init PROVE CallOK
    OBVIOUS
  <1>1. api \in [Keys -> MP!ObjectStates]
    BY DEF Init, MP!ObjectStates
  <1>2. /\ (stage = "deleting") \in BOOLEAN /\ isDeletion \in BOOLEAN
        /\ blocked \in BOOLEAN /\ listed \in BOOLEAN /\ cleanupErr \in BOOLEAN
    BY DEF Init
  <1>3. plan = MP!NoPlan
    BY DEF Init, M!NoPlan, MP!NoPlan
  <1>4. MP!TypeOK
    BY <1>1, <1>2, <1>3, ManagerFits DEF Init, MP!TypeOK
  <1>5. MP!CallInv
    BY <1>3 DEF Init, MP!CallInv, MP!IdleClean, MP!Configured, MP!EveryObjectAttempted,
           MP!ObjectsDone, MP!DeletedAreGone, MP!SeenAreGone, MP!OrphansAreListed
  <1>. QED  BY <1>4, <1>5 DEF Init, CallOK

\* The configuration is only changed to another one.
LEMMA ConfigurationKept ==
    ASSUME [Next]_vars
    PROVE  /\ pc' = pc \/ pc' \in ProviderConfigs
           /\ version' = version \/ version' \in Versions
  <1>. USE DEF fluxVars, NoWrite, NoFlux
  <1>1. CASE Reconcile \/ RejectConfiguration \/ Return \/ Crash
    BY <1>1 DEF Reconcile, RejectConfiguration, Return, Crash
  <1>2. CASE Work \/ Trouble
    BY <1>1, <1>2 DEF Work, Trouble, ApplyObject, SourceMissing, LookUp, SkipObject,
       DeleteObject, EndObjects, ListOrphans, EndCleaner, DeleteOrphan,
       ApplyObjectFails
  <1>3. CASE Users
    BY <1>3 DEF Users, RequestDeletion, Recreate, ChangeConfiguration, ChangeSource,
       Drift, TakeOver
  <1>4. CASE FluxControllers
    BY <1>4 DEF FluxControllers, FetchChart, Install, RollOut, RollOutFails, Degrade,
       Finalize
  <1>. QED  BY <1>1, <1>2, <1>3, <1>4 DEF Next, Controller, vars

\* A call under way keeps its purpose, and the Flux object its stage, until it
\* ends.
Busy == phase # "idle" /\ UNCHANGED <<stage, isDeletion>>

LEMMA WorkIsBusy ==
    ASSUME Quiet /\ MP!Work
    PROVE  Busy
  BY DEF Busy, Quiet, MP!Work, MP!CreateOrUpdate, MP!ReconcileFails, MP!CheckForDependent,
     MP!StillDependedOn, MP!OrphanObject, MP!DeleteObject, MP!MayDelete,
     MP!EndObjects, MP!ListOrphans, MP!DeleteOrphan, MP!EndCleaner,
     MP!EndCleaners, MP!AtObject, MP!AtCleaner, MP!Conclude, MP!passVars

LEMMA TroubleIsBusy ==
    ASSUME UNCHANGED stage /\ MP!Trouble
    PROVE  Busy
  BY DEF Busy, MP!Trouble, MP!CreateOrUpdateFails, MP!CheckForDependent,
     MP!DeleteObjectFails, MP!MayDelete, MP!ListOrphansFails,
     MP!DeleteOrphanFails, MP!AtObject, MP!AtCleaner, MP!Conclude

LEMMA BusyCalls ==
    ASSUME CallStep, pc \in ProviderConfigs
    PROVE  \/ stage # "gone" /\ stage' = stage /\ isDeletion' = (stage = "deleting")
           \/ CallEnds
           \/ Busy
  <1>1. CASE Quiet /\ MP!Work
    BY <1>1, WorkIsBusy
  <1>2. CASE UNCHANGED stage /\ MP!Trouble
    BY <1>2, TroubleIsBusy
  <1>3. CASE Reconcile
    BY <1>3 DEF Reconcile, fluxVars, M!Call
  <1>. QED  BY <1>1, <1>2, <1>3 DEF CallStep

LEMMA CallOKStep == CallOK /\ [Next]_vars => CallOK'
  <1>. SUFFICES ASSUME CallOK, [Next]_vars PROVE CallOK'
    OBVIOUS
  <1>1. CallStep \/ Outside
    BY StepKinds DEF CallOK
  <1>2. MP!TypeOK' /\ MP!CallInv'
    BY <1>1, ManagerKeeps
  <1>3. pc' \in ProviderConfigs /\ version' \in Versions
    BY ConfigurationKept DEF CallOK
  <1>4. /\ stage' \in {"live", "deleting", "gone"}
        /\ phase' # "idle" => stage' # "gone"
        /\ isDeletion' => stage' = "deleting"
    <2>1. CASE /\ stage # "gone" /\ stage' = stage
               /\ isDeletion' = (stage = "deleting")
      BY <2>1 DEF CallOK
    <2>2. CASE CallEnds
      BY <2>2 DEF CallEnds, MP!Reset, CallOK
    <2>3. CASE Busy
      BY <2>3 DEF Busy, CallOK
    <2>4. CASE Outside
      <3>1. UNCHANGED <<phase, isDeletion>>
        BY <2>4 DEF Outside, callVars
      <3>2. phase = "idle" => ~isDeletion
        BY DEF CallOK, MP!CallInv, MP!IdleClean
      <3>. QED  BY <2>4, <3>1, <3>2 DEF Outside, CallOK
    <2>. QED  BY <1>1, <2>1, <2>2, <2>3, <2>4, BusyCalls DEF CallOK
  <1>. QED  BY <1>2, <1>3, <1>4 DEF CallOK

\* A call stays sound: what it has found out is still so when it is used.
LEMMA CallsStaySound == Spec => []CallOK
  BY CallOKInit, CallOKStep, PTL DEF Spec

-----------------------------------------------------------------------------
(* The controller implements Teardown *)

\* Every version that may be asked for is offered at any time.
NothingWithdrawn == \A c \in ProviderConfigs : Versions \subseteq DOMAIN c.versions

\* What Manager does to the clusters is allowed while the finalizer is on.
LEMMA ManagerStepAllowed ==
    ASSUME [MP!T!Next]_MP!T!vars, stage # "gone", UNCHANGED stage
    PROVE  [T!Next]_T!vars
  <1>. USE DEF T!Next, T!vars
  <1>1. ASSUME NEW k \in Keys, MP!T!Create(k) PROVE T!Create(k)
    BY <1>1 DEF MP!T!Create, T!Create
  <1>2. ASSUME NEW k \in Keys, MP!T!Remove(k) PROVE T!Remove(k)
    BY <1>2 DEF MP!T!Remove, T!Remove
  <1>3. ASSUME NEW k \in Keys, MP!T!Vanish(k) PROVE T!Vanish(k)
    BY <1>3 DEF MP!T!Vanish, T!Vanish
  <1>4. ASSUME NEW k \in Keys, MP!T!Meddle(k) PROVE T!Meddle(k)
    BY <1>4 DEF MP!T!Meddle, T!Meddle, MP!T!ObjectStates, T!ObjectStates
  <1>5. CASE UNCHANGED api
    BY <1>5
  <1>6. (MP!T!Announce \/ MP!T!Withdraw \/ UNCHANGED MP!T!vars) => UNCHANGED api
    BY DEF MP!T!Announce, MP!T!Withdraw, MP!T!vars
  <1>. QED  BY <1>1, <1>2, <1>3, <1>4, <1>5, <1>6 DEF MP!T!Next

LEMMA OutsideAllowed ==
    ASSUME CallOK, NothingWithdrawn, Outside
    PROVE  [T!Next]_T!vars
  <1>. USE DEF T!Next, T!vars
  <1>1. CASE UNCHANGED api
    <2>1. Offered(pc, version)
      BY DEF NothingWithdrawn, CallOK, Offered
    <2>2. (stage' = "gone" <=> stage = "gone") \/ T!Withdraw
      BY <1>1, <2>1 DEF Outside, T!Withdraw, CallOK
    <2>. QED  BY <1>1, <2>2
  <1>2. ASSUME NEW k \in Copies, NEW s \in {"absent", "present"},
               api' = [api EXCEPT ![k] = s], UNCHANGED stage
        PROVE  T!Meddle(k) /\ k \in Keys
    BY <1>2, KeyKinds DEF T!Meddle, T!ObjectStates
  <1>3. ASSUME NEW k \in Owned, api[k] = "terminating",
               api' = [api EXCEPT ![k] = "absent"], UNCHANGED stage
        PROVE  T!Vanish(k) /\ k \in Keys
    BY <1>3, KeyKinds DEF T!Vanish
  <1>. QED  BY <1>1, <1>2, <1>3 DEF Outside

LEMMA CallAllowed ==
    ASSUME CallOK, CallOK', CallStep
    PROVE  [T!Next]_T!vars
  <1>. USE ManagerFits DEF CallOK
  <1>1. CASE Quiet /\ MP!Work
    <2>1. [MP!T!Next]_MP!T!vars
      BY <1>1, MP!WorkSimulates
    <2>. QED  BY <1>1, <2>1, WorkIsBusy, ManagerStepAllowed DEF Quiet, Busy
  <1>2. CASE UNCHANGED stage /\ MP!Trouble
    <2>1. [MP!T!Next]_MP!T!vars
      BY <1>2, MP!TroubleSimulates
    <2>. QED  BY <1>2, <2>1, TroubleIsBusy, ManagerStepAllowed DEF Busy
  <1>3. CASE UNCHANGED api /\ UNCHANGED stage
    BY <1>3 DEF T!vars
  <1>4. CASE CallEnds
    <2>1. CASE stage' = "gone" /\ MP!Verdict
      <3>1. \A k \in Owned : api[k] = "absent"
        BY <2>1, MP!VerdictFollows DEF MP!VerdictSound
      <3>. QED  BY <1>4, <2>1, <3>1 DEF CallEnds, T!Next, T!Announce
    <2>2. CASE stage' = stage
      BY <1>4, <1>3, <2>2 DEF CallEnds
    <2>. QED  BY <1>4, <2>1, <2>2 DEF CallEnds
  <1>5. Reconcile => UNCHANGED api /\ UNCHANGED stage
    BY DEF Reconcile, fluxVars, M!Call
  <1>. QED  BY <1>1, <1>2, <1>3, <1>4, <1>5 DEF CallStep

\* As long as no version is withdrawn, the finalizer of the Flux object only
\* comes off once nothing owned is left, nothing is created after that, and the
\* OCIRepository stays until the HelmRelease is gone: over any number of calls,
\* crashes, failures and changes of the configuration
\* (flux_controller.go:77-91, manager.go:113-184).
THEOREM ControllerImplementsTeardown == NothingWithdrawn => (Spec => PromiseKept)
  <1>. SUFFICES ASSUME NothingWithdrawn PROVE Spec => PromiseKept
    OBVIOUS
  <1>1. Init => T!Init
    BY DEF Init, T!Init, T!ObjectStates
  <1>2. CallOK /\ CallOK' /\ [Next]_vars => [T!Next]_T!vars
    <2>. SUFFICES ASSUME CallOK, CallOK', [Next]_vars PROVE [T!Next]_T!vars
      OBVIOUS
    <2>1. CallStep \/ Outside
      BY StepKinds DEF CallOK
    <2>. QED  BY <2>1, CallAllowed, OutsideAllowed
  <1>. QED  BY <1>1, <1>2, CallsStaySound, PTL DEF Spec, PromiseKept, T!Spec

-----------------------------------------------------------------------------
(* The controller implements Manager *)

\* The steps of a running call.
LEMMA WorkRunsManager ==
    ASSUME Work \/ Trouble
    PROVE  M!Work \/ M!Trouble \/ M!Crash
  <1>. USE DEF NoWrite, fluxVars, boundVars, Upset, M!Upset, M!Work, M!Trouble
  <1>1. CASE ApplyObject \/ SourceMissing
    BY <1>1 DEF ApplyObject, SourceMissing
  <1>2. CASE LookUp(FALSE) /\ UNCHANGED boundVars
    BY <1>2 DEF LookUp
  <1>3. CASE SkipObject \/ DeleteObject
    BY <1>3 DEF SkipObject, DeleteObject
  <1>4. CASE (EndObjects \/ EndCleaner) /\ UNCHANGED boundVars
    BY <1>4 DEF EndObjects, EndCleaner
  <1>5. CASE ListOrphans /\ UNCHANGED boundVars
    <2>1. {k \in M!Orphans : label[k]} \in SUBSET M!Orphans
      OBVIOUS
    <2>. QED  BY <1>5, <2>1 DEF ListOrphans
  <1>6. CASE DeleteOrphan
    BY <1>6 DEF DeleteOrphan
  <1>7. CASE ApplyObjectFails
    BY <1>7 DEF ApplyObjectFails
  <1>8. CASE LookUp(TRUE) /\ Upset
    BY <1>8 DEF LookUp
  <1>9. CASE M!ListOrphansFails /\ NoWrite /\ NoView /\ Upset
    BY <1>9
  <1>10. CASE Crash
    BY <1>10 DEF Crash, Forget, M!Crash
  <1>. HIDE DEF NoWrite, fluxVars, boundVars, Upset, M!Upset, M!Work, M!Trouble
  <1>. QED
    BY <1>1, <1>2, <1>3, <1>4, <1>5, <1>6, <1>7, <1>8, <1>9, <1>10
    DEF Work, Trouble

\* Its beginning and its end.
LEMMA CallRunsManager ==
    ASSUME CallOK, Reconcile \/ Return
    PROVE  M!Next
  <1>1. CASE Reconcile
    <2>1. PlanOf(Settings(pc, version)) \in Plans
      BY <1>1 DEF Reconcile, CreateObjectManager, Plans, Offered, CallOK
    <2>2. \/ M!StartApply(PlanOf(Settings(pc, version)))
          \/ M!StartDelete(PlanOf(Settings(pc, version)))
      BY <1>1 DEF Reconcile, fluxVars, boundVars, M!Call, M!StartApply, M!StartDelete
    <2>. QED  BY <2>1, <2>2 DEF M!Next
  <1>2. CASE Return
    <2>1. M!Verdict => stage = "deleting"
      BY DEF M!Verdict, CallOK
    <2>2. (stage = "deleting")' <=> stage = "deleting" /\ ~M!Verdict
      BY <1>2, <2>1 DEF Return
    <2>3. M!Take
      BY <1>2, <2>2 DEF Return, Forget, boundVars, M!Take
    <2>. QED  BY <2>3 DEF M!Next
  <1>. QED  BY <1>1, <1>2

\* What goes on around a call is what Manager expects, unless a version is
\* withdrawn.
LEMMA OthersRunManager ==
    ASSUME CallOK, NothingWithdrawn,
           RejectConfiguration \/ Users \/ FluxControllers \/ UNCHANGED vars
    PROVE  [M!Next]_M!vars
  <1>. DEFINE Stutters == UNCHANGED <<api, stage, callVars, upsets>>
  <1>. USE DEF callVars, fluxVars, worldVars, dataVars, boundVars, NoCall, NoFlux,
               Upset, Change
  <1>1. Stutters => UNCHANGED M!vars
    BY DEF M!vars, M!passVars
  <1>2. CASE RejectConfiguration
    <2>1. CreateObjectManager(pc, version) # "invalid"
      BY DEF CreateObjectManager, NothingWithdrawn, CallOK, Offered
    <2>. QED  BY <1>1, <1>2, <2>1 DEF RejectConfiguration
  <1>3. CASE RequestDeletion
    BY <1>3 DEF RequestDeletion, M!RequestDeletion, M!passVars, M!Next
  <1>4. CASE Recreate
    BY <1>4 DEF Recreate, M!vars, M!passVars
  <1>5. CASE ChangeConfiguration \/ UNCHANGED vars
    BY <1>1, <1>5 DEF ChangeConfiguration, vars
  <1>6. CASE ChangeSource \/ Degrade
    <2>1. M!MeddleElsewhere
      BY <1>6 DEF ChangeSource, Degrade, M!MeddleElsewhere, M!Upset, M!passVars
    <2>. QED  BY <2>1 DEF M!Next
  <1>7. ASSUME NEW k \in Copies, NEW s \in {"absent", "present"},
               api' = [api EXCEPT ![k] = s], UNCHANGED <<stage, callVars>>, Upset
        PROVE  M!Next
    <2>1. CASE s = api[k]
      <3>1. UNCHANGED api
        BY <1>7, <2>1, KeyKinds DEF CallOK, MP!TypeOK
      <3>2. M!MeddleElsewhere
        BY <1>7, <3>1 DEF M!MeddleElsewhere, M!Upset, M!passVars
      <3>. QED  BY <3>2 DEF M!Next
    <2>2. CASE s # api[k]
      <3>1. k \in Keys /\ k \notin Owned
        BY <1>7, KeyKinds
      <3>2. M!Meddle(k)
        BY <1>7, <2>2, <3>1 DEF M!Meddle, M!Upset, M!passVars, M!ObjectStates
      <3>. QED  BY <3>1, <3>2 DEF M!Next
    <2>. QED  BY <2>1, <2>2
  <1>8. CASE Drift \/ TakeOver
    BY <1>7, <1>8 DEF Drift, TakeOver
  <1>9. CASE FetchChart \/ Install \/ RollOut \/ RollOutFails
    BY <1>1, <1>9 DEF FetchChart, Install, RollOut, RollOutFails
  <1>10. ASSUME NEW k \in Owned, Finalize(k) PROVE M!Next
    <2>1. k \in Keys /\ M!Vanish(k)
      BY <1>10, KeyKinds DEF Finalize, M!Vanish, M!passVars
    <2>. QED  BY <2>1 DEF M!Next
  <1>. QED
    BY <1>2, <1>3, <1>4, <1>5, <1>6, <1>8, <1>9, <1>10 DEF Users, FluxControllers

\* As long as no version is withdrawn, everything the controller and the world
\* around it do is a behaviour of Manager, so that what Manager guarantees its
\* caller, it guarantees this controller: the finalizer goes with its verdict
\* only (flux_controller.go:57-105).
THEOREM ControllerImplementsManager == NothingWithdrawn => (Spec => RunsManager)
  <1>. SUFFICES ASSUME NothingWithdrawn PROVE Spec => RunsManager
    OBVIOUS
  <1>1. Init => M!Init
    <2>. SUFFICES ASSUME Init PROVE M!Init
      OBVIOUS
    <2>1. api \in [Keys -> M!ObjectStates] /\ (stage = "deleting") = FALSE
      BY DEF Init, M!ObjectStates
    <2>. QED  BY <2>1 DEF Init, M!Init
  <1>2. CallOK /\ [Next]_vars => [M!Next]_M!vars
    <2>. SUFFICES ASSUME CallOK, [Next]_vars PROVE [M!Next]_M!vars
      OBVIOUS
    <2>1. Work \/ Trouble => M!Next
      BY WorkRunsManager DEF M!Next
    <2>. QED  BY <2>1, CallRunsManager, OthersRunManager DEF Next, Controller
  <1>. QED  BY <1>1, <1>2, CallsStaySound, PTL DEF Spec, RunsManager, M!Spec

-----------------------------------------------------------------------------
(* The objects in the clusters *)

\* An object exists, has content and may bear a label or a condition together;
\* users' objects bear no label.
ClustersOK ==
    /\ api \in [Keys -> M!ObjectStates]
    /\ label \in [Keys -> BOOLEAN]
    /\ DOMAIN content = Keys /\ DOMAIN condition = Keys
    /\ \A k \in Keys : content[k] = {} <=> api[k] = "absent"
    /\ \A k \in Keys : api[k] = "absent" => ~label[k] /\ condition[k] = {}
    /\ \A c \in content[HelmRelease] : c.namespace \in Namespaces
    /\ \A k \in Foreign : ~label[k]
    /\ failures.times \in 0 .. Retries + 1

ForeignKept == \A k \in Foreign : api'[k] = api[k] /\ content'[k] = content[k]

LEMMA ForeignKeys == Foreign \subseteq Keys /\ Foreign \cap (Copies \cup Owned) = {}
  BY ForeignAssumption DEF Keys

LEMMA DesiredExists ==
    ASSUME NEW k \in Copies \cup Owned, NEW s \in ValidSettings
    PROVE  /\ Desired(k, s) # {}
           /\ k = HelmRelease => \A c \in Desired(k, s) : c.namespace \in Namespaces
  <1>1. CASE k \in Copies
    BY <1>1, KeyKinds DEF Desired
  <1>2. CASE k = OCIRepository
    BY <1>2, KeyKinds DEF Desired
  <1>3. CASE k = HelmRelease
    <2>1. Desired(k, s) = {[namespace |-> s.fv.namespace,
                            pull |-> s.fv.imagePullSecrets, ca |-> s.ca]}
      BY <1>3, KeyKinds DEF Desired
    <2>2. s.fv.namespace \in Namespaces
      BY DEF ValidSettings, FluxVersion
    <2>. QED  BY <2>1, <2>2
  <1>. QED  BY <1>1, <1>2, <1>3, KeyKinds

\* An object is written.
LEMMA WriteKeeps ==
    ASSUME ClustersOK, Current \in Copies \cup Owned, Setting \in ValidSettings,
           NEW s \in {"present", "terminating"}, api' = [api EXCEPT ![Current] = s],
           Written
    PROVE  ClustersOK' /\ ForeignKept
  <1>1. Current \in Keys /\ HelmRelease \in Keys
    BY KeyKinds
  <1>2. /\ Desired(Current, Setting) # {}
        /\ Current = HelmRelease =>
            \A c \in Desired(Current, Setting) : c.namespace \in Namespaces
    BY DesiredExists
  <1>. HIDE DEF Current
  <1>3. api' \in [Keys -> M!ObjectStates] /\ label' \in [Keys -> BOOLEAN]
    BY <1>1 DEF ClustersOK, Written, M!ObjectStates
  <1>4. DOMAIN content' = Keys /\ condition' = condition /\ failures' = failures
    BY DEF ClustersOK, Written
  <1>5. \A k \in Keys : /\ content'[k] = {} <=> api'[k] = "absent"
                        /\ api'[k] = "absent" => ~label'[k] /\ condition'[k] = {}
    BY <1>1, <1>2 DEF ClustersOK, Written
  <1>6. \A c \in content'[HelmRelease] : c.namespace \in Namespaces
    BY <1>1, <1>2 DEF ClustersOK, Written
  <1>7. (\A k \in Foreign : ~label'[k]) /\ ForeignKept
    BY <1>1, ForeignKeys DEF ClustersOK, Written, ForeignKept
  <1>. QED  BY <1>3, <1>4, <1>5, <1>6, <1>7 DEF ClustersOK

\* Objects are deleted.
LEMMA DeletionKeeps ==
    ASSUME ClustersOK, api' \in [Keys -> M!ObjectStates], Deletion,
           \A k \in Keys : api[k] = "absent" => api'[k] = "absent",
           \A k \in Foreign : api'[k] = api[k]
    PROVE  ClustersOK' /\ ForeignKept
  <1>1. HelmRelease \in Keys
    BY KeyKinds
  <1>2. failures'.times \in 0 .. Retries + 1
    BY BoundsAssumption DEF ClustersOK, Deletion, NoFailures
  <1>3. label' \in [Keys -> BOOLEAN] /\ DOMAIN content' = Keys /\ DOMAIN condition' = Keys
    BY DEF ClustersOK, Deletion
  <1>4. \A k \in Keys : /\ content'[k] = {} <=> api'[k] = "absent"
                        /\ api'[k] = "absent" => ~label'[k] /\ condition'[k] = {}
    BY DEF ClustersOK, Deletion
  <1>5. \A c \in content'[HelmRelease] : c.namespace \in Namespaces
    BY <1>1 DEF ClustersOK, Deletion
  <1>6. (\A k \in Foreign : ~label'[k]) /\ ForeignKept
    BY ForeignKeys DEF ClustersOK, Deletion, ForeignKept
  <1>. QED  BY <1>2, <1>3, <1>4, <1>5, <1>6 DEF ClustersOK

\* The settings of a call are what its plan was made from, and what a cleaner
\* has listed is no object of a user's.  Unless others meddled with the call,
\* it still bears the label.
RunOK ==
    /\ phase = "idle" => settings = {} /\ views = <<>>
    /\ phase # "idle" => \E s \in ValidSettings :
        /\ settings = {s} /\ plan = PlanOf(s)
        /\ DOMAIN views = DOMAIN plan.objects
    /\ \A i \in DOMAIN views : views[i] \in Phases
    /\ disturbed \in BOOLEAN
    /\ orphans \subseteq Keys \ Foreign
    /\ ~disturbed => \A k \in orphans : api[k] # "absent" => label[k]

\* The object reconcileObject works on, and the manager's settings.
LEMMA AtWork ==
    ASSUME CallOK, RunOK, M!AtObject
    PROVE  /\ pos \in DOMAIN plan.objects /\ plan \in Plans
           /\ Current \in Copies \cup Owned
           /\ Current \in Keys /\ M!Current.key = Current
           /\ Setting \in ValidSettings
  <1>1. pos \in DOMAIN plan.objects /\ phase # "idle"
    BY DEF M!AtObject
  <1>2. plan \in Plans
    BY <1>1 DEF CallOK, MP!CallInv, MP!Configured
  <1>3. Current \in Copies \cup Owned
    BY <1>1, <1>2, PlanKeys DEF Current
  <1>4. Setting \in ValidSettings
    BY <1>1 DEF RunOK, Setting
  <1>. QED  BY <1>1, <1>2, <1>3, <1>4, KeyKinds DEF M!Current, Current

\* A request to delete an object that is not a user's brings none back.
LEMMA DeletesOnly ==
    ASSUME ClustersOK, NEW k \in Keys \ Foreign, M!Deletes(k), api[k] # "absent"
    PROVE  /\ api' \in [Keys -> M!ObjectStates]
           /\ \A x \in Keys : api[x] = "absent" => api'[x] = "absent"
           /\ \A x \in Foreign : api'[x] = api[x]
  BY ForeignKeys DEF ClustersOK, M!Deletes, M!ObjectStates

LEMMA ApplyKeeps ==
    ASSUME CallOK, RunOK, ClustersOK, ApplyObject \/ ApplyObjectFails
    PROVE  ClustersOK' /\ ForeignKept
  <1>1. /\ M!AtObject
        /\ M!CreateOrUpdate \/ M!CreateOrUpdateFails
    BY DEF ApplyObject, ApplyObjectFails
  <1>2. /\ Current \in Copies \cup Owned /\ Current \in Keys
        /\ M!Current.key = Current /\ Setting \in ValidSettings
    BY <1>1, AtWork
  <1>3. CASE Written /\ api'[Current] # "absent"
    <2>1. \E s \in {"present", "terminating"} : api' = [api EXCEPT ![Current] = s]
      <3>1. api \in [Keys -> M!ObjectStates] /\ api[Current] \in M!ObjectStates
        BY <1>2 DEF ClustersOK
      <3>2. CASE UNCHANGED api
        <4>1. api' = [api EXCEPT ![Current] = api[Current]]
          BY <3>1, <3>2
        <4>. QED  BY <1>3, <3>1, <3>2, <4>1 DEF M!ObjectStates
      <3>3. CASE api' = [api EXCEPT ![Current] = "present"]
        BY <3>3
      <3>4. CASE M!CreateOrUpdate
        <4>1. api' = [api EXCEPT ![Current] =
                        IF api[Current] = "absent" THEN "present" ELSE api[Current]]
          BY <1>2, <3>4 DEF M!CreateOrUpdate
        <4>2. CASE api[Current] = "absent"
          BY <4>1, <4>2
        <4>3. CASE api[Current] # "absent"
          BY <3>1, <4>1, <4>3 DEF M!ObjectStates
        <4>. QED  BY <4>2, <4>3
      <3>. QED  BY <1>1, <1>2, <3>2, <3>3, <3>4 DEF M!CreateOrUpdateFails
    <2>. QED  BY <1>2, <1>3, <2>1, WriteKeeps
  <1>4. CASE UNCHANGED <<api, dataVars>>
    BY <1>4 DEF ClustersOK, ForeignKept, dataVars
  <1>5. ApplyObject => api'[Current] # "absent"
    BY <1>2 DEF ApplyObject, M!CreateOrUpdate, ClustersOK
  <1>. QED  BY <1>3, <1>4, <1>5 DEF ApplyObject, ApplyObjectFails

LEMMA DeleteKeeps ==
    ASSUME CallOK, RunOK, ClustersOK, DeleteObject \/ DeleteOrphan
    PROVE  ClustersOK' /\ ForeignKept
  <1>1. /\ api' \in [Keys -> M!ObjectStates]
        /\ \A x \in Keys : api[x] = "absent" => api'[x] = "absent"
        /\ \A x \in Foreign : api'[x] = api[x]
    <2>1. CASE UNCHANGED api
      BY <2>1 DEF ClustersOK
    <2>2. CASE DeleteObject
      <3>1. M!Current.key \in Keys \ Foreign
        BY <2>2, AtWork, ForeignKeys
           DEF DeleteObject, M!DeleteObject, M!DeleteObjectFails, M!MayDelete
      <3>. QED
        BY <2>1, <2>2, <3>1, DeletesOnly
           DEF DeleteObject, M!DeleteObject, M!DeleteObjectFails
    <2>3. CASE DeleteOrphan
      <3>1. \E k \in Keys \ Foreign : UNCHANGED api \/ (api[k] # "absent" /\ M!Deletes(k))
        BY <2>3 DEF DeleteOrphan, M!DeleteOrphan, M!DeleteOrphanFails, RunOK
      <3>. QED  BY <2>1, <3>1, DeletesOnly
    <2>. QED  BY <2>2, <2>3
  <1>. QED  BY <1>1, DeletionKeeps DEF DeleteObject, DeleteOrphan

\* Users and the Flux controllers leave users' objects alone.
LEMMA OthersKeep ==
    ASSUME ClustersOK, Users \/ FluxControllers
    PROVE  ClustersOK' /\ ForeignKept
  <1>. USE ForeignKeys, KeyKinds DEF ClustersOK, ForeignKept
  <1>1. CASE RequestDeletion \/ Recreate \/ ChangeConfiguration \/ ChangeSource
    BY <1>1 DEF RequestDeletion, Recreate, ChangeConfiguration, ChangeSource, dataVars
  <1>2. CASE Drift
    <2>1. PICK k \in Copies : api[k] = "present" /\ api' = [api EXCEPT ![k] = "absent"]
      BY <1>2 DEF Drift
    <2>2. /\ api' \in [Keys -> M!ObjectStates]
          /\ \A x \in Keys : api[x] = "absent" => api'[x] = "absent"
          /\ \A x \in Foreign : api'[x] = api[x]
      BY <2>1 DEF M!ObjectStates
    <2>. QED  BY <1>2, <2>2, DeletionKeeps DEF Drift
  <1>3. CASE TakeOver
    <2>1. PICK k \in Copies :
            /\ api' = [api EXCEPT ![k] = "present"]
            /\ label' = [label EXCEPT ![k] = FALSE]
            /\ content' = [content EXCEPT ![k] = {"own"}]
            /\ UNCHANGED <<condition, failures>>
      BY <1>3 DEF TakeOver
    <2>2. k \in Keys \ Foreign /\ k # HelmRelease /\ HelmRelease \in Keys
      OBVIOUS
    <2>. QED  BY <2>1, <2>2 DEF M!ObjectStates
  <1>4. CASE FetchChart
    <2>1. content[OCIRepository] # {} /\ OCIRepository \in Keys
      BY <1>4 DEF FetchChart
    <2>. QED  BY <1>4, <2>1 DEF FetchChart
  <1>5. CASE Install
    BY <1>5 DEF Install, dataVars
  <1>6. CASE RollOut
    <2>1. failures'.times \in 0 .. Retries + 1
      BY <1>6, BoundsAssumption DEF RollOut, NoFailures
    <2>2. api[HelmRelease] = "present" /\ HelmRelease \in Keys
      BY <1>6 DEF RollOut, RollingOut
    <2>. QED  BY <1>6, <2>1, <2>2 DEF RollOut
  <1>7. CASE RollOutFails
    <2>1. failures.times \in 0 .. Retries + 1 /\ Retries \in Nat
      BY BoundsAssumption
    <2>2. failures'.times \in 0 .. Retries + 1
      BY <1>7, <2>1 DEF RollOutFails, RollingOut, Stalled
    <2>. QED  BY <1>7, <2>2 DEF RollOutFails
  <1>8. CASE Degrade
    BY <1>8 DEF Degrade
  <1>9. ASSUME NEW k \in Owned, Finalize(k)
        PROVE  ClustersOK' /\ ForeignKept
    <2>1. k \in Keys \ Foreign
      OBVIOUS
    <2>2. failures'.times \in 0 .. Retries + 1
      BY <1>9, BoundsAssumption DEF Finalize, NoFailures
    <2>. QED  BY <1>9, <2>1, <2>2 DEF Finalize, M!ObjectStates
  <1>. QED
    BY <1>1, <1>2, <1>3, <1>4, <1>5, <1>6, <1>7, <1>8, <1>9
    DEF Users, FluxControllers

LEMMA ClustersStep ==
    ASSUME CallOK, RunOK, ClustersOK, [Next]_vars
    PROVE  ClustersOK' /\ ForeignKept
  <1>. DEFINE Still == UNCHANGED <<api, dataVars>>
  <1>1. CASE Still
    BY <1>1 DEF ClustersOK, ForeignKept, dataVars
  <1>2. (Reconcile \/ RejectConfiguration \/ Return \/ Crash \/ UNCHANGED vars) => Still
    BY DEF Reconcile, M!Call, RejectConfiguration, Return, Crash, vars
  <1>3. (SourceMissing \/ SkipObject \/ LookUp(FALSE) \/ LookUp(TRUE)) => Still
    BY DEF SourceMissing, SkipObject, LookUp, NoWrite, M!ReconcileFails,
           M!StillDependedOn, M!CheckForDependent
  <1>4. (\/ EndObjects \/ ListOrphans \/ EndCleaner
         \/ M!ListOrphansFails /\ NoWrite) => Still
    BY DEF EndObjects, ListOrphans, EndCleaner, NoWrite, M!EndObjects,
           M!ListOrphans, M!EndCleaner, M!EndCleaners, M!ListOrphansFails
  <1>. QED
    BY <1>1, <1>2, <1>3, <1>4, ApplyKeeps, DeleteKeeps, OthersKeep
    DEF Next, Controller, Work, Trouble

\* Whatever state its object is in, an in-memory copy reports a phase.
LEMMA StatusTypes ==
    ASSUME NEW k \in Copies \cup Owned, NEW s \in M!ObjectStates, NEW c
    PROVE  GetStatus(k, s, c) \in Phases
  <1>1. \/ k.kind = "Secret" /\ k \notin Owned
        \/ k.kind = "ConfigMap" /\ k \notin Owned
        \/ k.kind \notin {"Secret", "ConfigMap"} /\ k \in Owned
    BY KeyKinds
  <1>2. SecretStatus(s) \in Phases /\ FluxStatus(s, c) \in Phases
    BY DEF SecretStatus, FluxStatus, Phases, M!ObjectStates
  <1>. QED  BY <1>1, <1>2 DEF GetStatus, ConfigMapStatus

\* A new view is one of a known object.
LEMMA ViewsKeep ==
    ASSUME RunOK, NEW i, NEW p \in Phases, views' = [views EXCEPT ![i] = p]
    PROVE  DOMAIN views' = DOMAIN views /\ \A j \in DOMAIN views' : views'[j] \in Phases
  BY DEF RunOK

\* A step of the call that neither ends it nor lists orphans.
CallGoesOn ==
    /\ phase # "idle" /\ phase' # "idle"
    /\ UNCHANGED <<settings, plan, disturbed>>
    /\ orphans' \subseteq orphans
    /\ \/ UNCHANGED views
       \/ \E i \in DOMAIN plan.objects, p \in Phases : views' = [views EXCEPT ![i] = p]
    /\ \A k \in orphans' : api'[k] # "absent" => api[k] # "absent" /\ label[k] = label'[k]

LEMMA GoingOnKeeps ==
    ASSUME RunOK, CallGoesOn
    PROVE  RunOK'
  <1>1. DOMAIN views' = DOMAIN views /\ \A j \in DOMAIN views' : views'[j] \in Phases
    BY ViewsKeep DEF CallGoesOn, RunOK
  <1>2. orphans' \subseteq Keys \ Foreign
    BY DEF RunOK, CallGoesOn
  <1>3. ~disturbed' => \A k \in orphans' : api'[k] # "absent" => label'[k]
    BY DEF RunOK, CallGoesOn
  <1>4. \E s \in ValidSettings :
            /\ settings' = {s} /\ plan' = PlanOf(s)
            /\ DOMAIN views' = DOMAIN plan'.objects
    BY <1>1 DEF RunOK, CallGoesOn
  <1>. QED  BY <1>1, <1>2, <1>3, <1>4 DEF RunOK, CallGoesOn

LEMMA ObjectsGoOn ==
    ASSUME CallOK, RunOK, ClustersOK,
           \/ ApplyObject \/ SourceMissing \/ ApplyObjectFails
           \/ LookUp(FALSE) \/ LookUp(TRUE) \/ SkipObject \/ DeleteObject
           \/ EndObjects
    PROVE  CallGoesOn
  <1>1. phase = "objects" /\ orphans = {}
    BY DEF ApplyObject, SourceMissing, ApplyObjectFails, LookUp, SkipObject,
           DeleteObject, EndObjects, M!AtObject, M!CheckForDependent,
           M!StillDependedOn, M!DeleteObject, M!DeleteObjectFails, M!MayDelete,
           M!EndObjects, CallOK, MP!CallInv, MP!OrphansAreListed
  <1>2. UNCHANGED <<settings, plan, disturbed, orphans>> /\ phase' # "idle"
    BY <1>1
       DEF ApplyObject, SourceMissing, ApplyObjectFails, LookUp, SkipObject,
           DeleteObject, EndObjects, M!CreateOrUpdate, M!ReconcileFails,
           M!CreateOrUpdateFails,
           M!CheckForDependent, M!StillDependedOn, M!DeleteObject,
           M!DeleteObjectFails, M!EndObjects, M!Conclude, M!passVars, NoWrite
  <1>. DEFINE Views == \/ UNCHANGED views
                       \/ \E i \in DOMAIN plan.objects, p \in Phases :
                            views' = [views EXCEPT ![i] = p]
  <1>3. CASE ApplyObject \/ SourceMissing \/ ApplyObjectFails
    <2>1. M!AtObject /\ (ApplyObject => M!CreateOrUpdate)
      BY <1>3 DEF ApplyObject, SourceMissing, ApplyObjectFails
    <2>2. /\ pos \in DOMAIN plan.objects /\ Current \in Keys
          /\ Current \in Copies \cup Owned /\ M!Current.key = Current
      BY <2>1, AtWork
    <2>3. api[Current] \in M!ObjectStates /\ (ApplyObject => api'[Current] \in M!ObjectStates)
      BY <2>1, <2>2 DEF ClustersOK, M!CreateOrUpdate, M!ObjectStates
    <2>. HIDE DEF Current
    <2>4. \E p \in Phases : views' = [views EXCEPT ![pos] = p]
      <3>1. \A s \in M!ObjectStates : GetStatus(Current, s, condition[Current]) \in Phases
        BY <2>2, StatusTypes
      <3>. QED  BY <1>3, <2>3, <3>1 DEF ApplyObject, SourceMissing, ApplyObjectFails, Phases
    <2>. QED  BY <1>1, <1>2, <2>2, <2>4 DEF CallGoesOn
  <1>4. ASSUME NEW fails \in BOOLEAN, LookUp(fails) PROVE Views
    <2>1. PICK j \in M!Unseen : seen' = seen \cup {j}
      BY <1>4 DEF LookUp, M!CheckForDependent
    <2>2. j \notin seen /\ j \in DOMAIN plan.objects
      BY <2>1 DEF M!Unseen, M!Dependents
    <2>3. (CHOOSE i \in seen' \ seen : TRUE) = j
      <3>1. seen' \ seen = {j}
        BY <2>1, <2>2
      <3>. QED  BY <3>1
    <2>4. plan.objects[j].key \in Copies \cup Owned
      BY <1>1, <2>2, PlanKeys DEF CallOK, MP!CallInv, MP!Configured
    <2>5. GetStatus(plan.objects[j].key, api[plan.objects[j].key],
                    condition[plan.objects[j].key]) \in Phases
      BY <2>4, KeyKinds, StatusTypes DEF ClustersOK
    <2>. QED  BY <1>4, <2>2, <2>3, <2>5 DEF LookUp
  <1>5. CASE SkipObject \/ DeleteObject \/ EndObjects
    BY <1>1, <1>2, <1>5 DEF SkipObject, DeleteObject, EndObjects, NoView, CallGoesOn
  <1>. QED  BY <1>1, <1>2, <1>3, <1>4, <1>5 DEF CallGoesOn

LEMMA CleanersGoOn ==
    ASSUME CallOK, RunOK, ClustersOK,
           \/ DeleteOrphan \/ EndCleaner
           \/ M!ListOrphansFails /\ NoWrite /\ NoView
    PROVE  CallGoesOn
  <1>1. CASE DeleteOrphan
    <2>1. /\ phase = "cleaners" /\ UNCHANGED <<phase, plan>> /\ orphans' \subseteq orphans
      BY <1>1 DEF DeleteOrphan, M!DeleteOrphan, M!DeleteOrphanFails, M!AtCleaner
    <2>2. orphans \subseteq Keys
      BY DEF RunOK
    <2>3. \A k \in Keys : api'[k] # "absent" => api[k] # "absent"
      <3>1. \E k \in Keys \ Foreign : UNCHANGED api \/ (api[k] # "absent" /\ M!Deletes(k))
        BY <1>1 DEF DeleteOrphan, M!DeleteOrphan, M!DeleteOrphanFails, RunOK
      <3>. QED  BY <3>1, DeletesOnly
    <2>4. \A k \in Keys : api'[k] # "absent" => label'[k] = label[k]
      BY <1>1 DEF DeleteOrphan, Deletion, ClustersOK
    <2>. QED
      BY <1>1, <2>1, <2>2, <2>3, <2>4 DEF CallGoesOn, DeleteOrphan, NoView
  <1>2. CASE EndCleaner
    BY <1>2 DEF EndCleaner, M!EndCleaner, M!EndCleaners, M!AtCleaner, M!passVars,
                NoWrite, NoView, dataVars, CallGoesOn
  <1>3. CASE M!ListOrphansFails /\ NoWrite /\ NoView
    BY <1>3 DEF M!ListOrphansFails, M!AtCleaner, NoWrite, NoView, dataVars, CallGoesOn
  <1>. QED  BY <1>1, <1>2, <1>3

LEMMA ListOrphansKeeps ==
    ASSUME CallOK, RunOK, ClustersOK, ListOrphans
    PROVE  RunOK'
  <1>1. /\ phase = "cleaners"
        /\ UNCHANGED <<phase, plan, settings, views, disturbed, label, api>>
    BY DEF ListOrphans, M!AtCleaner, M!ListOrphans, NoWrite, NoView, dataVars
  <1>2. orphans' \subseteq Keys
    <2>1. orphans' \subseteq MP!Orphans /\ MP!AtCleaner
      BY DEF ListOrphans, M!ListOrphans, M!AtCleaner, MP!AtCleaner, M!Orphans, MP!Orphans
    <2>. QED
      BY <2>1, ManagerFits, MP!PlanTypes DEF MP!AtCleaner, MP!Orphans, CallOK, MP!TypeOK
  <1>3. \A k \in orphans' : label[k]
    BY DEF ListOrphans, M!ListOrphans
  <1>4. orphans' \cap Foreign = {}
    BY <1>3 DEF ClustersOK
  <1>. QED  BY <1>1, <1>2, <1>3, <1>4 DEF RunOK

LEMMA CallStartsOK ==
    ASSUME CallOK, RunOK, Reconcile
    PROVE  RunOK'
  <1>1. phase = "idle" /\ phase' = "objects" /\ UNCHANGED <<orphans, api, label>>
    BY DEF Reconcile, M!Call, dataVars
  <1>2. orphans = {}
    BY <1>1 DEF CallOK, MP!CallInv, MP!IdleClean
  <1>3. Settings(pc, version) \in ValidSettings
    BY SettingsValid DEF CallOK, Reconcile, CreateObjectManager, Offered
  <1>4. /\ settings' = {Settings(pc, version)} /\ plan' = PlanOf(Settings(pc, version))
        /\ views' = [i \in DOMAIN PlanOf(Settings(pc, version)).objects |-> "Pending"]
        /\ disturbed' = FALSE
    BY DEF Reconcile, M!Call
  <1>5. DOMAIN views' = DOMAIN plan'.objects /\ \A i \in DOMAIN views' : views'[i] \in Phases
    BY <1>4 DEF Phases
  <1>. QED  BY <1>1, <1>2, <1>3, <1>4, <1>5 DEF RunOK

LEMMA CallEndsOK ==
    ASSUME Return \/ Crash
    PROVE  RunOK'
  <1>1. phase' = "idle" /\ settings' = {} /\ views' = <<>> /\ disturbed' = FALSE /\ orphans' = {}
    BY DEF Return, Crash, Forget, M!Reset
  <1>2. DOMAIN views' = {}
    BY <1>1
  <1>. QED  BY <1>1, <1>2 DEF RunOK

\* Others do not touch the call, except that they may disturb it.
LEMMA OthersOK ==
    ASSUME CallOK, RunOK, ClustersOK,
           RejectConfiguration \/ Users \/ FluxControllers \/ UNCHANGED vars
    PROVE  RunOK'
  <1>. DEFINE Meanwhile ==
                /\ disturbed' = disturbed
                /\ \A k \in Keys : api'[k] # "absent" =>
                        api[k] # "absent" /\ label'[k] = label[k]
  <1>1. phase = "idle" => orphans = {}
    BY DEF CallOK, MP!CallInv, MP!IdleClean
  <1>2. UNCHANGED <<phase, plan, orphans, settings, views>>
    BY DEF callVars, NoCall, NoFlux, vars, RejectConfiguration, Users,
           FluxControllers, RequestDeletion, Recreate, ChangeConfiguration,
           ChangeSource, Drift, TakeOver, FetchChart, Install, RollOut,
           RollOutFails, Degrade, Finalize
  <1>3. disturbed' = (phase # "idle") \/ Meanwhile
    <2>1. (RejectConfiguration \/ UNCHANGED vars) => Meanwhile
      BY DEF RejectConfiguration, vars, dataVars
    <2>2. Users => disturbed' = (phase # "idle") \/ Meanwhile
      BY DEF Users, RequestDeletion, Recreate, ChangeConfiguration, ChangeSource,
             Drift, TakeOver, dataVars
    <2>3. (FetchChart \/ Install \/ RollOut \/ RollOutFails \/ Degrade) => Meanwhile
      BY DEF FetchChart, Install, RollOut, RollOutFails, Degrade, NoFlux, dataVars
    <2>4. ASSUME NEW k \in Owned, Finalize(k) PROVE Meanwhile
      BY <2>4, KeyKinds DEF Finalize, NoFlux, ClustersOK
    <2>. QED  BY <2>1, <2>2, <2>3, <2>4 DEF FluxControllers
  <1>4. CASE Meanwhile
    BY <1>2, <1>4 DEF RunOK
  <1>5. CASE disturbed' = (phase # "idle")
    BY <1>1, <1>2, <1>5 DEF RunOK
  <1>. QED  BY <1>3, <1>4, <1>5

LEMMA RunStep ==
    ASSUME CallOK, RunOK, ClustersOK, [Next]_vars
    PROVE  RunOK'
  BY GoingOnKeeps, ObjectsGoOn, CleanersGoOn, ListOrphansKeeps, CallStartsOK,
     CallEndsOK, OthersOK
  DEF Next, Controller, Work, Trouble

\* The rest: the configuration, the status, the world and the bounds.
WorldOK ==
    /\ status \in Phases \cup {"none"}
    /\ sources \in [Sources -> Nat]
    /\ namespaces \subseteq Namespaces /\ release \in BOOLEAN
    /\ changes \in 0 .. MaxChanges

LEMMA WorldStep ==
    ASSUME CallOK, ClustersOK, WorldOK, [Next]_vars
    PROVE  WorldOK'
  <1>. USE DEF WorldOK
  <1>1. CASE UNCHANGED <<status, worldVars, changes>>
    BY <1>1 DEF worldVars
  <1>2. CASE RejectConfiguration \/ Return \/ Crash \/ Reconcile
    BY <1>2 DEF RejectConfiguration, Return, Crash, Reconcile, Outcome, Phases,
                Upset, fluxVars, worldVars, boundVars
  <1>3. CASE Work \/ Trouble
    BY <1>1, <1>3, Zenon
    DEF Work, Trouble, ApplyObject, SourceMissing, LookUp, SkipObject, DeleteObject,
        DeleteOrphan, ApplyObjectFails, Crash, EndObjects, ListOrphans, EndCleaner,
        NoWrite, Upset, fluxVars, boundVars
  <1>4. CASE RequestDeletion \/ Recreate \/ ChangeConfiguration \/ Drift \/ TakeOver
    BY <1>4, BoundsAssumption
    DEF RequestDeletion, Recreate, ChangeConfiguration, Drift, TakeOver, Change,
        Upset, fluxVars, worldVars, boundVars
  <1>5. CASE ChangeSource
    BY <1>5 DEF ChangeSource, Upset, fluxVars
  <1>6. CASE Install
    <2>1. SpecOf(HelmRelease).namespace \in Namespaces
      <3>1. content[HelmRelease] # {}
        BY <1>6, KeyKinds DEF Install, ClustersOK
      <3>. QED  BY <3>1 DEF SpecOf, ClustersOK
    <2>. QED  BY <1>6, <2>1 DEF Install, NoFlux, fluxVars, boundVars
  <1>7. CASE FetchChart \/ RollOut \/ RollOutFails \/ Degrade
    BY <1>7 DEF FetchChart, RollOut, RollOutFails, Degrade, NoFlux, Upset, fluxVars,
                worldVars, boundVars
  <1>8. ASSUME NEW k \in Owned, Finalize(k) PROVE WorldOK'
    BY <1>8 DEF Finalize, NoFlux, fluxVars, boundVars
  <1>9. CASE UNCHANGED vars
    BY <1>9 DEF vars, fluxVars, worldVars, boundVars
  <1>. QED
    BY <1>2, <1>3, <1>4, <1>5, <1>6, <1>7, <1>8, <1>9
    DEF Next, Controller, Users, FluxControllers

-----------------------------------------------------------------------------
(* Types, and what users own *)

IInv == CallOK /\ RunOK /\ ClustersOK /\ WorldOK

LEMMA IInvInit == Init => IInv
  <1>. SUFFICES ASSUME Init PROVE IInv
    OBVIOUS
  <1>1. CallOK
    BY CallOKInit
  <1>2. RunOK
    <2>1. views = <<>> /\ DOMAIN views = {}
      BY DEF Init
    <2>2. phase = "idle" /\ settings = {} /\ disturbed = FALSE /\ orphans = {}
      BY DEF Init
    <2>. QED  BY <2>1, <2>2 DEF RunOK
  <1>3. ClustersOK
    BY ForeignKeys, KeyKinds, BoundsAssumption
    DEF Init, ClustersOK, M!ObjectStates, NoFailures
  <1>4. WorldOK
    <2>1. sources \in [Sources -> Nat]
      BY DEF Init
    <2>2. namespaces \subseteq Namespaces
      BY ForeignAssumption DEF Init
    <2>3. changes \in 0 .. MaxChanges
      BY BoundsAssumption DEF Init
    <2>. QED  BY <2>1, <2>2, <2>3 DEF Init, WorldOK
  <1>. QED  BY <1>1, <1>2, <1>3, <1>4 DEF IInv

LEMMA IInvStep == IInv /\ [Next]_vars => IInv' /\ ForeignKept
  BY CallOKStep, RunStep, ClustersStep, WorldStep DEF IInv

LEMMA IInvHolds == Spec => []IInv
  BY IInvInit, IInvStep, PTL DEF Spec

\* The types, for any configurations and bounds.
THEOREM ControllerTypeCorrect == Spec => []TypeOK
  <1>1. IInv => TypeOK
    <2>. SUFFICES ASSUME IInv PROVE TypeOK
      OBVIOUS
    <2>1. phase # "idle" => plan \in Plans
      BY DEF IInv, CallOK, MP!CallInv, MP!Configured
    <2>2. phase = "idle" <=> settings = {}
      BY DEF IInv, RunOK
    <2>3. phase # "idle" => DOMAIN views = DOMAIN plan.objects
      BY DEF IInv, RunOK
    <2>4. /\ phase \in {"idle", "objects", "cleaners", "returned"}
          /\ upsets \in 0 .. MaxUpsets
      BY DEF IInv, CallOK, MP!TypeOK
    <2>5. disturbed \in BOOLEAN /\ release \in BOOLEAN
      BY DEF IInv, RunOK, WorldOK
    <2>. QED
      BY <2>1, <2>2, <2>3, <2>4, <2>5
      DEF IInv, TypeOK, CallOK, RunOK, ClustersOK, WorldOK
  <1>. QED  BY <1>1, IInvHolds, PTL

\* What users made for themselves is left alone by everything the controller
\* does, whatever it is configured with (secret.go:140-149, configmap.go:127-136).
THEOREM ForeignIsUntouched == Spec => ForeignUntouched
  <1>1. IInv /\ [Next]_vars => [ForeignKept]_vars
    BY IInvStep
  <1>. QED  BY <1>1, IInvHolds, PTL DEF Spec, ForeignUntouched, ForeignKept

\* A cleaner that nobody meddled with only deletes what bears the label at that
\* moment, although it has listed it some requests ago.
THEOREM CleanersAreSparing == Spec => CleanersSpareUnlabelled
  <1>1. ASSUME IInv
        PROVE  \A k \in orphans \ orphans' :
                (phase = "cleaners" /\ phase' = "cleaners"
                    /\ api[k] = "present" /\ api'[k] # "present")
                => label[k] \/ disturbed
    BY <1>1 DEF IInv, RunOK
  <1>. QED  BY <1>1, IInvHolds, PTL DEF Spec, CleanersSpareUnlabelled

=============================================================================
