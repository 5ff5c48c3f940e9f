--------------------------- MODULE OutcomeProofs ----------------------------
(***************************************************************************)
(* What the outcome of a call says about the clusters, for any number of   *)
(* calls, crashes, failures and changes: that nothing is left when the     *)
(* finalizer comes off, and that everything is in place when the status is *)
(* set to Ready.  Both hold in the namespaces of the configuration of the  *)
(* call; in all namespaces they hold as long as all versions are deployed  *)
(* to one, the first only if no version is withdrawn; FluxReconciler's     *)
(* runs flux_moved and flux_withdrawn show what happens otherwise.         *)
(***************************************************************************)
EXTENDS FluxReconcilerProofs

\* All versions of all ProviderConfigs are deployed to one namespace.
OneNamespace ==
    \A c, d \in ProviderConfigs :
        \A v \in DOMAIN c.versions, w \in DOMAIN d.versions :
            c.versions[v].namespace = d.versions[w].namespace

-----------------------------------------------------------------------------
(* What a plan covers *)

Elements(u) == {u[i] : i \in DOMAIN u}

LEMMA ConcatElements ==
    ASSUME NEW S, NEW s1 \in Seq(S), NEW s2 \in Seq(S)
    PROVE  s1 \o s2 \in Seq(S) /\ Elements(s1 \o s2) = Elements(s1) \cup Elements(s2)
  <1>1. /\ DOMAIN s1 = 1 .. Len(s1) /\ Len(s1) \in Nat
        /\ DOMAIN s2 = 1 .. Len(s2) /\ Len(s2) \in Nat
    BY LenProperties
  <1>2. /\ s1 \o s2 \in Seq(S) /\ Len(s1 \o s2) = Len(s1) + Len(s2)
        /\ \A i \in 1 .. Len(s1) + Len(s2) : (s1 \o s2)[i] =
                IF i <= Len(s1) THEN s1[i] ELSE s2[i - Len(s1)]
    BY ConcatProperties
  <1>3. DOMAIN (s1 \o s2) = 1 .. Len(s1) + Len(s2)
    BY <1>2, LenProperties
  <1>4. ASSUME NEW i \in DOMAIN s1
        PROVE  i \in DOMAIN (s1 \o s2) /\ (s1 \o s2)[i] = s1[i]
    BY <1>1, <1>2, <1>3
  <1>5. ASSUME NEW i \in DOMAIN s2
        PROVE  i + Len(s1) \in DOMAIN (s1 \o s2) /\ (s1 \o s2)[i + Len(s1)] = s2[i]
    BY <1>1, <1>2, <1>3
  <1>6. ASSUME NEW i \in DOMAIN (s1 \o s2)
        PROVE  (s1 \o s2)[i] \in Elements(s1) \cup Elements(s2)
    <2>1. CASE i <= Len(s1)
      BY <1>1, <1>2, <1>3, <2>1 DEF Elements
    <2>2. CASE ~(i <= Len(s1))
      <3>1. i - Len(s1) \in DOMAIN s2 /\ (s1 \o s2)[i] = s2[i - Len(s1)]
        BY <1>1, <1>2, <1>3, <2>2
      <3>. QED  BY <3>1 DEF Elements
    <2>. QED  BY <2>1, <2>2
  <1>7. Elements(s1) \cup Elements(s2) \subseteq Elements(s1 \o s2)
    BY <1>4, <1>5 DEF Elements
  <1>8. Elements(s1 \o s2) \subseteq Elements(s1) \cup Elements(s2)
    BY <1>6 DEF Elements
  <1>. QED  BY <1>2, <1>7, <1>8

LEMMA ThreeElements ==
    ASSUME NEW S, NEW s1 \in Seq(S), NEW s2 \in Seq(S), NEW s3 \in Seq(S)
    PROVE  Elements(s1 \o s2 \o s3) = Elements(s1) \cup Elements(s2) \cup Elements(s3)
  <1>1. s1 \o s2 \in Seq(S) /\ Elements(s1 \o s2) = Elements(s1) \cup Elements(s2)
    BY ConcatElements
  <1>2. \A t \in Seq(S) : Elements(t \o s3) = Elements(t) \cup Elements(s3)
    BY ConcatElements
  <1>3. Elements((s1 \o s2) \o s3) = Elements(s1 \o s2) \cup Elements(s3)
    BY <1>1, <1>2
  <1>. QED  BY <1>1, <1>3

\* The keys of a plan's objects.
LEMMA WantedKeys ==
    ASSUME NEW s \in ValidSettings
    PROVE  Wanted(s) =
                {SecretKey(s.fv.namespace, s.fv.imagePullSecrets[i]) :
                    i \in DOMAIN s.fv.imagePullSecrets}
                \cup (IF s.ca THEN {ConfigMapKey(s.fv.namespace)} ELSE {})
                \cup {SecretKey(Tenant, s.fv.chartPullSecret[i]) :
                        i \in DOMAIN s.fv.chartPullSecret}
                \cup Owned
  <1>. DEFINE one == ManagePullSecrets(s.fv.namespace, s.fv.imagePullSecrets)
              two == ManageCaConfigMap(s)
              three == ManagePullSecrets(Tenant, s.fv.chartPullSecret)
              first == one \o two \o three
              last == ManageFluxResources(Len(first))
              KeysOf(u) == {o.key : o \in Elements(u)}
  <1>1. /\ one \in Seq(CopyObjects(s)) /\ two \in Seq(CopyObjects(s))
        /\ three \in Seq(CopyObjects(s))
    BY PlanParts
  <1>2. first \in Seq(MP!ManagedObject) /\ last \in Seq(MP!ManagedObject)
    <2>1. first \in Seq(MP!ManagedObject)
      BY CopiesFirst
    <2>. HIDE DEF first
    <2>2. /\ ManagedObject(OCIRepository, {}) \in MP!ManagedObject
          /\ ManagedObject(HelmRelease, {Len(first) + 1}) \in MP!ManagedObject
      BY <2>1, LenProperties, KeyKinds DEF ManagedObject, MP!ManagedObject, MP!Policies
    <2>. QED  BY <2>1, <2>2 DEF ManageFluxResources
  <1>3. PlanOf(s).objects = first \o last
    BY DEF PlanOf
  <1>4. /\ KeysOf(one) = {SecretKey(s.fv.namespace, s.fv.imagePullSecrets[i]) :
                            i \in DOMAIN s.fv.imagePullSecrets}
        /\ KeysOf(three) = {SecretKey(Tenant, s.fv.chartPullSecret[i]) :
                              i \in DOMAIN s.fv.chartPullSecret}
    <2>1. ASSUME NEW ns, NEW refs, NEW u, u = ManagePullSecrets(ns, refs)
          PROVE  KeysOf(u) = {SecretKey(ns, refs[i]) : i \in DOMAIN refs}
      <3>1. DOMAIN u = DOMAIN refs /\ \A i \in DOMAIN u : u[i].key = SecretKey(ns, refs[i])
        BY <2>1 DEF ManagePullSecrets, ManagedObject
      <3>. QED  BY <3>1 DEF Elements
    <2>. HIDE DEF KeysOf
    <2>. QED  BY <2>1
  <1>5. KeysOf(two) = IF s.ca THEN {ConfigMapKey(s.fv.namespace)} ELSE {}
    BY DEF Elements, ManageCaConfigMap, ManagedObject
  <1>6. KeysOf(last) = Owned
    BY KeyKinds DEF Elements, ManageFluxResources, ManagedObject
  <1>7. KeysOf(first) = KeysOf(one) \cup KeysOf(two) \cup KeysOf(three)
    <2>. HIDE DEF one, two, three
    <2>1. Elements(first) = Elements(one) \cup Elements(two) \cup Elements(three)
      BY <1>1, ThreeElements
    <2>. QED  BY <2>1
  <1>. HIDE DEF one, two, three, first, last
  <1>8. Elements(PlanOf(s).objects) = Elements(first) \cup Elements(last)
    BY <1>2, <1>3, ConcatElements
  <1>9. Wanted(s) = KeysOf(PlanOf(s).objects)
    BY DEF Wanted, Elements
  <1>10. Wanted(s) = KeysOf(first) \cup KeysOf(last)
    BY <1>8, <1>9
  <1>. HIDE DEF KeysOf
  <1>. QED  BY <1>4, <1>5, <1>6, <1>7, <1>10

\* A copy that settings may give rise to is wanted or falls to a cleaner ...
LEMMA PlanCovers ==
    ASSUME NEW s \in ValidSettings, NEW k \in CopiesOf(s), k \notin Wanted(s)
    PROVE  \E c \in DOMAIN PlanOf(s).cleaners : k \in PlanOf(s).cleaners[c]
  <1>. USE WantedKeys DEF SecretKey, ConfigMapKey
  <1>1. k \in Keys
    BY CopiesOfAreCopies, KeyKinds
  <1>2. ASSUME NEW x \in Secrets, k = SecretKey(Tenant, x)
        PROVE  k \in PlanOf(s).cleaners[1]
    BY <1>1, <1>2 DEF PlanOf, OrphansOf
  <1>3. ASSUME NEW x \in Secrets, k = SecretKey(s.fv.namespace, x)
        PROVE  k \in PlanOf(s).cleaners[2]
    BY <1>1, <1>3 DEF PlanOf, OrphansOf
  <1>4. ASSUME k = ConfigMapKey(s.fv.namespace)
        PROVE  k \in PlanOf(s).cleaners[3]
    BY <1>1, <1>4 DEF PlanOf, OrphansOf
  <1>5. DOMAIN PlanOf(s).cleaners = 1 .. 3
    BY DEF PlanOf
  <1>. QED  BY <1>2, <1>3, <1>4, <1>5 DEF CopiesOf

\* ... but not both.
LEMMA CleanersSpareWanted ==
    ASSUME NEW s \in ValidSettings, NEW k \in Wanted(s),
           NEW c \in DOMAIN PlanOf(s).cleaners
    PROVE  k \notin PlanOf(s).cleaners[c]
  <1>1. s.fv.namespace # Tenant
    BY TenantAssumption DEF ValidSettings, FluxVersion
  <1>. QED
    BY <1>1, WantedKeys, KeyKinds DEF PlanOf, OrphansOf, SecretKey, ConfigMapKey

-----------------------------------------------------------------------------
(* What is labelled *)

\* An object that needs no deleting any more, as far as NothingLeft goes.
Clear(k) == label[k] => api[k] # "present"

\* Nothing is labelled, nothing that is labelled comes back.
LabelsGo ==
    \A k \in Keys : label'[k] => label[k] /\ (api'[k] = "present" => api[k] = "present")

\* Only CreateOrUpdate puts a label on an object.
LEMMA LabelsOnlyGo ==
    ASSUME CallOK, RunOK, ClustersOK, [Next]_vars, ~ApplyObject, ~ApplyObjectFails
    PROVE  LabelsGo
  <1>1. CASE UNCHANGED <<api, label>>
    BY <1>1 DEF LabelsGo
  <1>2. CASE DeleteObject \/ DeleteOrphan
    <2>1. \A k \in Keys : api'[k] = "present" => api[k] = "present"
      <3>1. CASE UNCHANGED api
        BY <3>1
      <3>2. ASSUME NEW k \in Keys, M!Deletes(k)
            PROVE  \A x \in Keys : api'[x] = "present" => api[x] = "present"
        BY <3>2 DEF M!Deletes, ClustersOK
      <3>3. DeleteObject => M!Current.key \in Keys
        BY AtWork DEF DeleteObject, M!DeleteObject, M!DeleteObjectFails, M!MayDelete
      <3>4. orphans \subseteq Keys
        BY DEF RunOK
      <3>. QED
        BY <1>2, <3>1, <3>2, <3>3, <3>4
        DEF DeleteObject, M!DeleteObject, M!DeleteObjectFails, DeleteOrphan,
            M!DeleteOrphan, M!DeleteOrphanFails
    <2>2. Deletion
      BY <1>2 DEF DeleteObject, DeleteOrphan
    <2>. QED  BY <2>1, <2>2 DEF Deletion, LabelsGo
  <1>3. CASE Drift
    BY <1>3 DEF Drift, Deletion, LabelsGo, ClustersOK
  <1>4. CASE TakeOver
    BY <1>4 DEF TakeOver, LabelsGo, ClustersOK
  <1>5. ASSUME NEW k \in Owned, Finalize(k) PROVE LabelsGo
    BY <1>5 DEF Finalize, LabelsGo, ClustersOK
  <1>6. \/ DeleteObject \/ DeleteOrphan
        \/ Drift \/ TakeOver
        \/ \E k \in Owned : Finalize(k)
        \/ UNCHANGED <<api, label>>
    <2>. USE DEF dataVars, NoWrite
    <2>1. (RejectConfiguration \/ Reconcile \/ Return \/ Crash) => UNCHANGED <<api, label>>
      BY DEF RejectConfiguration, Reconcile, M!Call, Return, Crash
    <2>2. (SourceMissing \/ SkipObject \/ LookUp(FALSE) \/ LookUp(TRUE))
            => UNCHANGED <<api, label>>
      BY DEF SourceMissing, SkipObject, LookUp, M!ReconcileFails, M!StillDependedOn,
             M!CheckForDependent
    <2>3. (\/ EndObjects \/ ListOrphans \/ EndCleaner
           \/ M!ListOrphansFails /\ NoWrite) => UNCHANGED <<api, label>>
      BY DEF EndObjects, ListOrphans, EndCleaner, M!EndObjects, M!ListOrphans,
             M!EndCleaner, M!EndCleaners, M!ListOrphansFails
    <2>4. (RequestDeletion \/ Recreate \/ ChangeConfiguration \/ ChangeSource)
            => UNCHANGED <<api, label>>
      BY DEF RequestDeletion, Recreate, ChangeConfiguration, ChangeSource
    <2>5. (FetchChart \/ Install \/ RollOut \/ RollOutFails \/ Degrade)
            => UNCHANGED <<api, label>>
      BY DEF FetchChart, Install, RollOut, RollOutFails, Degrade
    <2>6. UNCHANGED vars => UNCHANGED <<api, label>>
      BY DEF vars
    <2>. QED
      BY <2>1, <2>2, <2>3, <2>4, <2>5, <2>6
      DEF Next, Controller, Work, Trouble, Users, FluxControllers
  <1>. QED  BY <1>1, <1>2, <1>3, <1>4, <1>5, <1>6

\* The settings that the ProviderConfigs give rise to, and what they may label.
AllSettings ==
    UNION {{Settings(c, v) : v \in DOMAIN c.versions} : c \in ProviderConfigs}

ReachOf(S) == Owned \cup UNION {CopiesOf(s) : s \in S}

\* What bears the label was put there for settings of some ProviderConfig, and
\* the chart stays installed no longer than its HelmRelease.
MarksOK ==
    /\ settings \subseteq AllSettings
    /\ \A k \in Keys : label[k] => k \in ReachOf(AllSettings)
    /\ release => api[HelmRelease] # "absent"

LEMMA AllSettingsValid == AllSettings \subseteq ValidSettings
  BY SettingsValid DEF AllSettings

LEMMA SettingsStep ==
    ASSUME CallOK, [Next]_vars
    PROVE  settings' \subseteq settings \/ settings' \subseteq AllSettings
  <1>1. CASE Reconcile
    <2>1. Settings(pc, version) \in AllSettings
      BY <1>1 DEF Reconcile, CreateObjectManager, Offered, CallOK, AllSettings
    <2>. QED  BY <1>1, <2>1 DEF Reconcile
  <1>2. (RejectConfiguration \/ Return \/ Crash) => settings' \subseteq settings
    BY DEF RejectConfiguration, Return, Crash, Forget
  <1>3. CASE Work \/ (Trouble /\ ~Crash)
    BY <1>3
    DEF Work, Trouble, ApplyObject, SourceMissing, LookUp, SkipObject, DeleteObject,
        EndObjects, ListOrphans, EndCleaner, DeleteOrphan, ApplyObjectFails, NoWrite
  <1>4. (Users \/ FluxControllers \/ UNCHANGED vars) => settings' \subseteq settings
    BY DEF Users, FluxControllers, RequestDeletion, Recreate, ChangeConfiguration,
           ChangeSource, Drift, TakeOver, FetchChart, Install, RollOut,
           RollOutFails, Degrade, Finalize, NoCall, NoFlux, vars
  <1>. QED  BY <1>1, <1>2, <1>3, <1>4 DEF Next, Controller, Trouble

\* While the chart is installed the HelmRelease stays.
LEMMA ReleaseStep ==
    ASSUME CallOK, RunOK, ClustersOK, release => api[HelmRelease] # "absent", [Next]_vars
    PROVE  (release => api[HelmRelease] # "absent")'
  <1>. DEFINE Stays == release' = release /\ (api'[HelmRelease] = "absent" =>
                                                ~release \/ api[HelmRelease] = "absent")
  <1>0. HelmRelease \in Keys /\ HelmRelease \notin Copies
    BY KeyKinds
  <1>1. CASE Stays
    BY <1>1
  <1>. USE DEF worldVars, dataVars, NoWrite
  <1>2. (RejectConfiguration \/ Reconcile \/ Return \/ Crash) => Stays
    BY DEF RejectConfiguration, Reconcile, M!Call, Return, Crash
  <1>3. (SourceMissing \/ SkipObject \/ LookUp(FALSE) \/ LookUp(TRUE)) => Stays
    BY DEF SourceMissing, SkipObject, LookUp, M!ReconcileFails, M!StillDependedOn,
           M!CheckForDependent
  <1>4. (\/ EndObjects \/ ListOrphans \/ EndCleaner
         \/ M!ListOrphansFails /\ NoWrite) => Stays
    BY DEF EndObjects, ListOrphans, EndCleaner, M!EndObjects, M!ListOrphans,
           M!EndCleaner, M!EndCleaners, M!ListOrphansFails
  <1>5. CASE ApplyObject \/ ApplyObjectFails
    <2>1. M!AtObject /\ (M!CreateOrUpdate \/ M!CreateOrUpdateFails)
      BY <1>5 DEF ApplyObject, ApplyObjectFails
    <2>2. M!Current.key \in Keys
      BY <2>1, AtWork
    <2>3. api'[HelmRelease] = "absent" => api[HelmRelease] = "absent"
      BY <1>0, <2>1, <2>2 DEF M!CreateOrUpdate, M!CreateOrUpdateFails, ClustersOK
    <2>. QED  BY <1>5, <2>3 DEF ApplyObject, ApplyObjectFails
  <1>6. (DeleteObject \/ DeleteOrphan \/ Drift) => Stays
    BY DEF DeleteObject, DeleteOrphan, Drift, Deletion
  <1>7. TakeOver => Stays
    BY <1>0 DEF TakeOver, ClustersOK
  <1>8. (RequestDeletion \/ Recreate \/ ChangeConfiguration \/ ChangeSource) => Stays
    BY DEF RequestDeletion, Recreate, ChangeConfiguration, ChangeSource
  <1>9. (FetchChart \/ RollOut \/ RollOutFails \/ Degrade) => Stays
    BY DEF FetchChart, RollOut, RollOutFails, Degrade
  <1>10. CASE Install
    BY <1>10 DEF Install
  <1>11. ASSUME NEW k \in Owned, Finalize(k)
         PROVE  (release => api[HelmRelease] # "absent")'
    BY <1>0, <1>11, KeyKinds DEF Finalize, ClustersOK
  <1>12. UNCHANGED vars => Stays
    BY DEF vars
  <1>. HIDE DEF Stays
  <1>. QED
    BY <1>1, <1>2, <1>3, <1>4, <1>5, <1>6, <1>7, <1>8, <1>9, <1>10, <1>11, <1>12
    DEF Next, Controller, Work, Trouble, Users, FluxControllers

LEMMA MarksStep ==
    ASSUME CallOK, RunOK, ClustersOK, MarksOK, [Next]_vars
    PROVE  MarksOK'
  <1>1. settings' \subseteq AllSettings
    BY SettingsStep DEF MarksOK
  <1>2. (release => api[HelmRelease] # "absent")'
    BY ReleaseStep DEF MarksOK
  <1>3. \A k \in Keys : label'[k] => k \in ReachOf(AllSettings)
    <2>1. CASE Written /\ M!AtObject
      <3>1. Current \in ReachOf(AllSettings)
        <4>1. PICK s \in ValidSettings : settings = {s} /\ plan = PlanOf(s)
          BY <2>1 DEF M!AtObject, RunOK
        <4>2. s \in AllSettings
          BY <4>1 DEF MarksOK
        <4>3. Current \in CopiesOf(s) \cup Owned
          BY <2>1, <4>1, PlanFits DEF M!AtObject, Current
        <4>. QED  BY <4>2, <4>3 DEF ReachOf
      <3>. HIDE DEF Current
      <3>. QED  BY <2>1, <3>1 DEF Written, MarksOK, ClustersOK
    <2>2. CASE LabelsGo
      BY <2>2 DEF LabelsGo, MarksOK
    <2>3. CASE UNCHANGED label
      BY <2>3 DEF MarksOK
    <2>4. (ApplyObject \/ ApplyObjectFails) => UNCHANGED label \/ (Written /\ M!AtObject)
      BY DEF ApplyObject, ApplyObjectFails, dataVars
    <2>. QED  BY <2>1, <2>2, <2>3, <2>4, LabelsOnlyGo
  <1>. QED  BY <1>1, <1>2, <1>3 DEF MarksOK

-----------------------------------------------------------------------------
(* How far a call has come *)

\* No cleaner has failed so far.
CleaningSucceeds ==
    (\A i \in DOMAIN results : results[i].op # "deletionFailed") /\ ~cleanupErr

\* Then the cleaners have cleared all they are past.
OrphansGone ==
    /\ phase \in {"idle", "objects"} => cleaner = 1 /\ ~listed
    /\ (phase # "idle" /\ CleaningSucceeds) =>
        /\ \A c \in DOMAIN plan.cleaners : \A k \in plan.cleaners[c] :
            (c < cleaner \/ (c = cleaner /\ listed /\ k \notin orphans)) => Clear(k)
        /\ phase = "returned" => cleaner \notin DOMAIN plan.cleaners

\* A Delete that reports every object as deleted has left none of those it is past.
ObjectsGone ==
    (phase # "idle" /\ isDeletion /\ M!AllDeleted(results)) =>
        \A i \in DOMAIN plan.objects : i < pos => Clear(plan.objects[i].key)

Placed(k) == api[k] = "present" /\ label[k] /\ content[k] = Desired(k, Setting)

\* A CreateOrUpdate without errors that nobody disturbed has put those objects
\* in place that it takes for Ready.
ObjectsPlaced ==
    (phase # "idle" /\ ~isDeletion /\ ~ContainsErrors /\ ~disturbed) =>
        \A i \in DOMAIN views : views[i] = "Ready" => Placed(plan.objects[i].key)

LEMMA AppendResult ==
    ASSUME MP!TypeOK, NEW op \in MP!OperationResults, NEW err \in BOOLEAN,
           results' = Append(results, [op |-> op, err |-> err])
    PROVE  /\ M!AllDeleted(results') => op = "deleted" /\ M!AllDeleted(results)
           /\ CleaningSucceeds' => op # "deletionFailed" /\ (cleanupErr \/ CleaningSucceeds)
           /\ ContainsErrors' <=> err \/ ContainsErrors
  <1>1. results \in Seq(MP!Result)
    BY DEF MP!TypeOK
  <1>2. /\ Len(results) \in Nat /\ DOMAIN results = 1 .. Len(results)
        /\ DOMAIN results' = 1 .. Len(results) + 1
        /\ results'[Len(results) + 1] = [op |-> op, err |-> err]
        /\ \A i \in 1 .. Len(results) : results'[i] = results[i]
    BY <1>1, AppendProperties, LenProperties DEF MP!Result
  <1>. QED  BY <1>2 DEF M!AllDeleted, CleaningSucceeds, ContainsErrors

\* Positions and keys of a plan.
LEMMA RunningPlan ==
    ASSUME CallOK, phase # "idle"
    PROVE  /\ plan.objects \in Seq(MP!ManagedObject) /\ plan.cleaners \in Seq(SUBSET Keys)
           /\ \A i \in DOMAIN plan.objects : i \in Nat \ {0} /\ plan.objects[i].key \in Keys
           /\ \A c \in DOMAIN plan.cleaners : c \in Nat \ {0} /\ plan.cleaners[c] \subseteq Keys
           /\ pos \in Nat \ {0} /\ cleaner \in Nat \ {0}
  <1>1. plan \in Plans
    BY DEF CallOK, MP!CallInv, MP!Configured
  <1>2. /\ plan.objects \in Seq(MP!ManagedObject) /\ plan.cleaners \in Seq(SUBSET Keys)
        /\ \A i \in DOMAIN plan.objects : i \in Nat \ {0} /\ plan.objects[i].key \in Keys
    BY <1>1, ManagerFits, MP!PlanTypes
  <1>3. \A c \in DOMAIN plan.cleaners : c \in Nat \ {0} /\ plan.cleaners[c] \subseteq Keys
    BY <1>2, LenProperties, ElementOfSeq
  <1>4. pos \in Nat \ {0} /\ cleaner \in Nat \ {0}
    BY DEF CallOK, MP!TypeOK
  <1>. QED  BY <1>2, <1>3, <1>4

\* The loop over the objects does not touch the cleaners.
LEMMA ObjectSteps ==
    ASSUME \/ ApplyObject \/ SourceMissing \/ ApplyObjectFails
           \/ LookUp(FALSE) \/ LookUp(TRUE) \/ SkipObject \/ DeleteObject
           \/ EndObjects
    PROVE  /\ phase = "objects" /\ phase' \in {"objects", "cleaners"}
           /\ UNCHANGED <<isDeletion, plan, cleaner, listed, orphans, cleanupErr>>
  BY DEF ApplyObject, SourceMissing, ApplyObjectFails, LookUp, SkipObject, DeleteObject,
         EndObjects, M!CreateOrUpdate, M!ReconcileFails, M!CreateOrUpdateFails,
         M!CheckForDependent, M!StillDependedOn, M!DeleteObject, M!DeleteObjectFails, M!MayDelete,
         M!AtObject, M!EndObjects, M!Conclude, M!passVars

LEMMA CleanerSteps ==
    ASSUME \/ ListOrphans \/ DeleteOrphan \/ EndCleaner
           \/ M!ListOrphansFails /\ NoWrite /\ NoView
    PROVE  /\ phase = "cleaners" /\ phase' \in {"cleaners", "returned"}
           /\ UNCHANGED <<isDeletion, plan, pos, views, settings, disturbed, sources>>
           /\ ~ApplyObject /\ ~ApplyObjectFails
  BY DEF ListOrphans, DeleteOrphan, EndCleaner, M!ListOrphansFails, M!ListOrphans,
         M!DeleteOrphan, M!DeleteOrphanFails, M!EndCleaner, M!EndCleaners,
         M!AtCleaner, M!passVars, NoWrite, NoView, worldVars, ApplyObject,
         ApplyObjectFails, M!AtObject

LEMMA OtherSteps ==
    ASSUME CallOK, RunOK, ClustersOK, [Next]_vars,
           RejectConfiguration \/ Users \/ FluxControllers \/ UNCHANGED vars
    PROVE  UNCHANGED <<callVars, settings, views>> /\ LabelsGo
  <1>1. UNCHANGED callVars
    BY OthersAct DEF Outside, CallOK
  <1>2. UNCHANGED <<settings, views>>
    BY DEF NoCall, NoFlux, vars, RejectConfiguration, Users, FluxControllers,
           RequestDeletion, Recreate, ChangeConfiguration, ChangeSource, Drift,
           TakeOver, FetchChart, Install, RollOut, RollOutFails, Degrade, Finalize
  <1>3. ApplyObject \/ ApplyObjectFails => pos' # pos
    BY DEF ApplyObject, ApplyObjectFails, M!CreateOrUpdate, M!CreateOrUpdateFails,
           M!Conclude, CallOK, MP!TypeOK
  <1>. QED  BY <1>1, <1>2, <1>3, LabelsOnlyGo DEF callVars

\* A call starts with a plan and no results.
LEMMA StartSteps ==
    ASSUME CallOK, Reconcile
    PROVE  /\ phase' = "objects" /\ pos' = 1 /\ UNCHANGED <<cleaner, listed>>
           /\ phase = "idle"
           /\ \A i \in DOMAIN plan'.objects : i \in Nat \ {0}
           /\ \A c \in DOMAIN plan'.cleaners : c \in Nat \ {0}
           /\ \A i \in DOMAIN views' : views'[i] = "Pending"
  <1>1. /\ phase = "idle" /\ phase' = "objects" /\ plan' \in Plans
        /\ UNCHANGED <<pos, cleaner, listed>>
    <2>1. \E p \in Plans : MP!StartApply(p) \/ MP!StartDelete(p)
      BY CallBegins DEF CallOK
    <2>. QED  BY <2>1 DEF MP!StartApply, MP!StartDelete, MP!Call
  <1>2. pos = 1
    BY <1>1 DEF CallOK, MP!CallInv, MP!IdleClean
  <1>3. /\ \A i \in DOMAIN plan'.objects : i \in Nat \ {0}
        /\ \A c \in DOMAIN plan'.cleaners : c \in Nat \ {0}
    BY <1>1, ManagerFits, MP!PlanTypes, LenProperties
  <1>4. \A i \in DOMAIN views' : views'[i] = "Pending"
    BY DEF Reconcile
  <1>. QED  BY <1>1, <1>2, <1>3, <1>4

LEMMA EndSteps ==
    ASSUME Return \/ Crash
    PROVE  phase' = "idle" /\ cleaner' = 1 /\ ~listed'
  BY DEF Return, Crash, Forget, M!Reset

LEMMA OrphansGoneStep ==
    ASSUME CallOK, RunOK, ClustersOK, OrphansGone, [Next]_vars
    PROVE  OrphansGone'
  <1>1. CASE Reconcile
    BY <1>1, StartSteps DEF OrphansGone
  <1>2. CASE Return \/ Crash
    BY <1>2, EndSteps DEF OrphansGone
  <1>3. CASE RejectConfiguration \/ Users \/ FluxControllers \/ UNCHANGED vars
    BY <1>3, OtherSteps, RunningPlan
    DEF OrphansGone, CleaningSucceeds, LabelsGo, Clear, callVars
  <1>4. CASE \/ ApplyObject \/ SourceMissing \/ ApplyObjectFails
             \/ LookUp(FALSE) \/ LookUp(TRUE) \/ SkipObject \/ DeleteObject
             \/ EndObjects
    <2>1. cleaner = 1 /\ ~listed
      BY <1>4, ObjectSteps DEF OrphansGone
    <2>2. /\ phase # "idle" /\ phase' \in {"objects", "cleaners"}
          /\ UNCHANGED <<plan, cleaner, listed>>
      BY <1>4, ObjectSteps
    <2>3. \A c \in DOMAIN plan.cleaners : c \in Nat \ {0}
      BY <2>2, RunningPlan
    <2>. QED  BY <2>1, <2>2, <2>3 DEF OrphansGone
  <1>5. CASE ListOrphans
    <2>1. /\ phase = "cleaners" /\ cleaner \in DOMAIN plan.cleaners
          /\ UNCHANGED <<phase, plan, results, cleaner, cleanupErr, api, label>>
          /\ orphans' = {k \in plan.cleaners[cleaner] : api[k] # "absent" /\ label[k]}
      BY <1>5 DEF ListOrphans, M!AtCleaner, M!ListOrphans, M!Orphans, NoWrite, dataVars
    <2>2. \A k \in plan.cleaners[cleaner] : k \notin orphans' => Clear(k)
      BY <2>1 DEF Clear
    <2>. QED  BY <2>1, <2>2, RunningPlan DEF OrphansGone, CleaningSucceeds, Clear
  <1>6. CASE DeleteOrphan
    <2>1. PICK k \in orphans : M!DeleteOrphan(k) \/ M!DeleteOrphanFails(k)
      BY <1>6 DEF DeleteOrphan
    <2>2. /\ phase = "cleaners" /\ k \in Keys /\ orphans' = orphans \ {k}
          /\ UNCHANGED <<phase, plan, cleaner, listed, cleanupErr>>
      BY <2>1 DEF M!DeleteOrphan, M!DeleteOrphanFails, M!AtCleaner, RunOK
    <2>3. CASE M!DeleteOrphanFails(k)
      <3>1. results' = Append(results, [op |-> "deletionFailed", err |-> TRUE])
        BY <2>3 DEF M!DeleteOrphanFails
      <3>2. ~CleaningSucceeds'
        BY <3>1, AppendResult DEF CallOK, MP!OperationResults
      <3>. QED  BY <2>2, <3>2 DEF OrphansGone
    <2>4. CASE M!DeleteOrphan(k)
      <3>1. api'[k] # "present" /\ UNCHANGED results
        BY <2>2, <2>4 DEF M!DeleteOrphan, M!Deletes, ClustersOK
      <3>2. LabelsGo
        BY <1>6, CleanerSteps, LabelsOnlyGo
      <3>. QED
        BY <2>2, <3>1, <3>2, RunningPlan
        DEF OrphansGone, CleaningSucceeds, LabelsGo, Clear
    <2>. QED  BY <2>1, <2>3, <2>4
  <1>7. CASE EndCleaner
    <2>1. UNCHANGED <<api, label, plan, results, cleanupErr>> /\ phase = "cleaners"
      BY <1>7 DEF EndCleaner, M!EndCleaner, M!EndCleaners, M!AtCleaner, M!passVars,
                  NoWrite, dataVars
    <2>2. CASE M!EndCleaner
      <3>1. listed /\ orphans = {} /\ cleaner' = cleaner + 1 /\ ~listed' /\ UNCHANGED phase
        BY <2>2 DEF M!EndCleaner
      <3>2. \A c \in DOMAIN plan.cleaners : c < cleaner + 1 => c < cleaner \/ c = cleaner
        BY <2>1, RunningPlan
      <3>. QED
        BY <2>1, <3>1, <3>2, RunningPlan DEF OrphansGone, CleaningSucceeds, Clear
    <2>3. CASE M!EndCleaners
      BY <2>1, <2>3 DEF M!EndCleaners, M!passVars, OrphansGone, CleaningSucceeds, Clear
    <2>. QED  BY <1>7, <2>2, <2>3 DEF EndCleaner
  <1>8. CASE M!ListOrphansFails
    BY <1>8 DEF M!ListOrphansFails, OrphansGone, CleaningSucceeds
  <1>. QED
    BY <1>1, <1>2, <1>3, <1>4, <1>5, <1>6, <1>7, <1>8
    DEF Next, Controller, Work, Trouble

LEMMA ObjectsGoneStep ==
    ASSUME CallOK, RunOK, ClustersOK, ObjectsGone, [Next]_vars
    PROVE  ObjectsGone'
  <1>1. CASE Reconcile
    BY <1>1, StartSteps DEF ObjectsGone
  <1>2. CASE Return \/ Crash
    BY <1>2, EndSteps DEF ObjectsGone
  <1>3. CASE RejectConfiguration \/ Users \/ FluxControllers \/ UNCHANGED vars
    <2>1. UNCHANGED <<phase, isDeletion, plan, pos, results>> /\ LabelsGo
      BY <1>3, OtherSteps DEF callVars
    <2>. QED  BY <2>1, RunningPlan DEF ObjectsGone, LabelsGo, Clear
  <1>4. CASE ApplyObject \/ SourceMissing \/ ApplyObjectFails
    <2>1. ~isDeletion
      BY <1>4 DEF ApplyObject, SourceMissing, ApplyObjectFails, M!CreateOrUpdate,
                  M!ReconcileFails, M!CreateOrUpdateFails
    <2>. QED  BY <1>4, <2>1, ObjectSteps DEF ObjectsGone
  <1>. SUFFICES ASSUME ~ApplyObject, ~ApplyObjectFails PROVE ObjectsGone'
    BY <1>4
  <1>5. LabelsGo
    BY LabelsOnlyGo
  <1>6. CASE LookUp(FALSE) \/ LookUp(TRUE) \/ EndObjects
    <2>1. UNCHANGED <<pos, results, plan, isDeletion>> /\ phase # "idle"
      BY <1>6 DEF LookUp, M!CheckForDependent, M!AtObject, EndObjects, M!EndObjects,
                  M!passVars
    <2>. QED  BY <1>5, <2>1, RunningPlan DEF ObjectsGone, LabelsGo, Clear
  <1>7. CASE SkipObject
    <2>1. results' = Append(results, [op |-> "none", err |-> TRUE])
      BY <1>7 DEF SkipObject, M!StillDependedOn, M!Conclude
    <2>2. ~M!AllDeleted(results')
      BY <2>1, AppendResult DEF CallOK, MP!OperationResults
    <2>. QED  BY <2>2 DEF ObjectsGone
  <1>8. CASE DeleteObject
    <2>1. /\ phase = "objects" /\ pos \in DOMAIN plan.objects /\ isDeletion
          /\ UNCHANGED plan
          /\ pos' = pos + 1
          /\ \E op \in {"deleted", "deletionRequested"}, err \in BOOLEAN :
                /\ results' = Append(results, [op |-> op, err |-> err])
                /\ op = "deleted" => api[plan.objects[pos].key] = "absent" /\ UNCHANGED api
      BY <1>8 DEF DeleteObject, M!DeleteObject, M!DeleteObjectFails, M!MayDelete,
                  M!AtObject, M!Current, M!Conclude
    <2>2. M!AllDeleted(results') =>
            M!AllDeleted(results) /\ api'[plan.objects[pos].key] # "present"
      BY <2>1, AppendResult DEF CallOK, MP!OperationResults
    <2>3. ASSUME M!AllDeleted(results'), NEW i \in DOMAIN plan.objects, i < pos + 1
          PROVE  Clear(plan.objects[i].key)'
      <3>1. i < pos \/ i = pos
        BY <2>1, <2>3, RunningPlan
      <3>. QED
        BY <1>5, <2>1, <2>2, <2>3, <3>1, RunningPlan DEF ObjectsGone, LabelsGo, Clear
    <2>. QED  BY <2>1, <2>3 DEF ObjectsGone
  <1>9. CASE \/ ListOrphans \/ DeleteOrphan \/ EndCleaner
             \/ M!ListOrphansFails /\ NoWrite /\ NoView
    <2>1. M!AllDeleted(results') => M!AllDeleted(results)
      BY <1>9, AppendResult
      DEF ListOrphans, DeleteOrphan, EndCleaner, M!ListOrphansFails, M!ListOrphans,
          M!DeleteOrphan, M!DeleteOrphanFails, M!EndCleaner, M!EndCleaners,
          M!passVars, CallOK, MP!OperationResults
    <2>2. phase # "idle" /\ UNCHANGED <<isDeletion, plan, pos>>
      BY <1>9, CleanerSteps
    <2>. QED  BY <1>5, <2>1, <2>2, RunningPlan DEF ObjectsGone, LabelsGo, Clear
  <1>. QED
    BY <1>1, <1>2, <1>3, <1>4, <1>6, <1>7, <1>8, <1>9
    DEF Next, Controller, Work, Trouble

-----------------------------------------------------------------------------
(* What a CreateOrUpdate has put in place *)

LEMMA ReadyExists ==
    ASSUME NEW k \in Copies \cup Owned, NEW s \in M!ObjectStates, NEW x,
           GetStatus(k, s, x) = "Ready"
    PROVE  s = "present"
  <1>1. \/ k.kind = "Secret" /\ k \notin Owned
        \/ k.kind = "ConfigMap" /\ k \notin Owned
        \/ k.kind \notin {"Secret", "ConfigMap"} /\ k \in Owned
    BY KeyKinds
  <1>. QED
    BY <1>1, SMT DEF GetStatus, SecretStatus, ConfigMapStatus, FluxStatus, M!ObjectStates

LEMMA DesiredStays ==
    ASSUME UNCHANGED <<settings, sources>>, NEW k
    PROVE  Desired(k, Setting)' = Desired(k, Setting)
  BY DEF Desired, Setting

\* What is in place stays in place while nobody touches objects that exist.
Untouched ==
    /\ UNCHANGED <<settings, sources>>
    /\ \A k \in Keys : api[k] = "present" =>
        /\ api'[k] = api[k] /\ label'[k] = label[k] /\ content'[k] = content[k]

LEMMA UntouchedStays ==
    ASSUME Untouched, NEW k \in Keys, Placed(k)
    PROVE  Placed(k)'
  BY DesiredStays DEF Untouched, Placed

\* The objects that views speak of.
LEMMA ViewedKeys ==
    ASSUME CallOK, RunOK, phase # "idle", NEW i \in DOMAIN views
    PROVE  i \in DOMAIN plan.objects /\ plan.objects[i].key \in Keys
  BY RunningPlan DEF RunOK

LEMMA OthersPlaced ==
    ASSUME CallOK, RunOK, ClustersOK, ObjectsPlaced, [Next]_vars,
           RejectConfiguration \/ Users \/ FluxControllers \/ UNCHANGED vars
    PROVE  ObjectsPlaced'
  <1>1. UNCHANGED <<phase, isDeletion, plan, results, views, settings>>
    BY OtherSteps DEF callVars
  <1>2. disturbed' = (phase # "idle") \/ (disturbed' = disturbed /\ Untouched)
    <2>. USE DEF Untouched
    <2>1. (RejectConfiguration \/ UNCHANGED vars) => disturbed' = disturbed /\ Untouched
      BY <1>1 DEF RejectConfiguration, vars, dataVars, worldVars
    <2>2. Users => disturbed' = (phase # "idle") \/ (disturbed' = disturbed /\ Untouched)
      BY <1>1 DEF Users, RequestDeletion, Recreate, ChangeConfiguration, ChangeSource,
             Drift, TakeOver, dataVars, worldVars
    <2>3. (FetchChart \/ Install \/ RollOut \/ RollOutFails \/ Degrade)
            => disturbed' = disturbed /\ Untouched
      BY <1>1 DEF FetchChart, Install, RollOut, RollOutFails, Degrade, NoFlux, dataVars,
             worldVars
    <2>4. ASSUME NEW k \in Owned, Finalize(k)
          PROVE  disturbed' = disturbed /\ Untouched
      BY <1>1, <2>4, KeyKinds DEF Finalize, NoFlux, ClustersOK
    <2>. QED  BY <2>1, <2>2, <2>3, <2>4 DEF FluxControllers
  <1>3. CASE disturbed' = (phase # "idle")
    BY <1>1, <1>3 DEF ObjectsPlaced
  <1>4. CASE disturbed' = disturbed /\ Untouched
    <2>1. ASSUME phase # "idle", NEW i \in DOMAIN views, Placed(plan.objects[i].key)
          PROVE  Placed(plan.objects[i].key)'
      BY <1>1, <1>4, <2>1, ViewedKeys, UntouchedStays
    <2>. QED  BY <1>1, <1>4, <2>1 DEF ObjectsPlaced, ContainsErrors
  <1>. QED  BY <1>2, <1>3, <1>4

\* An object that is applied and found Ready is in place.
LEMMA ApplyPlaces ==
    ASSUME CallOK, RunOK, ClustersOK, ObjectsPlaced, ApplyObject
    PROVE  ObjectsPlaced'
  <1>1. M!AtObject /\ M!CreateOrUpdate /\ Written
    BY DEF ApplyObject
  <1>2. /\ pos \in DOMAIN plan.objects /\ phase # "idle"
        /\ Current \in Copies \cup Owned /\ Current \in Keys /\ M!Current.key = Current
    BY <1>1, AtWork DEF M!AtObject
  <1>3. /\ UNCHANGED <<plan, isDeletion, phase, settings, sources, disturbed>>
        /\ results' = Append(results,
                [op |-> IF api[Current] = "absent" THEN "created" ELSE "updated",
                 err |-> FALSE])
        /\ api' = [api EXCEPT ![Current] = IF @ = "absent" THEN "present" ELSE @]
        /\ views' = [views EXCEPT ![pos] =
                        GetStatus(Current, api'[Current], condition[Current])]
    BY <1>1, <1>2 DEF ApplyObject, M!CreateOrUpdate, M!Conclude, worldVars
  <1>4. ContainsErrors' <=> ContainsErrors
    BY <1>3, AppendResult DEF CallOK, MP!OperationResults
  <1>5. DOMAIN views' = DOMAIN views
    BY <1>3
  <1>6. api'[Current] \in M!ObjectStates
    BY <1>2, <1>3 DEF ClustersOK, M!ObjectStates
  <1>7. /\ label' = [label EXCEPT ![Current] = TRUE]
        /\ content' = [content EXCEPT ![Current] = Desired(Current, Setting)]
    BY <1>1 DEF Written
  <1>8. \A k : Desired(k, Setting)' = Desired(k, Setting)
    BY <1>3, DesiredStays
  <1>9. Current = plan.objects[pos].key
    BY DEF Current
  <1>. HIDE DEF Current
  <1>10. ASSUME NEW k \in Keys, k = Current, api'[k] = "present"
         PROVE  Placed(k)'
    BY <1>2, <1>7, <1>8, <1>10 DEF Placed, ClustersOK
  <1>11. ASSUME NEW k \in Keys, k # Current, Placed(k)
         PROVE  Placed(k)'
    BY <1>3, <1>7, <1>8, <1>11 DEF Placed, ClustersOK
  <1>12. ASSUME NEW i \in DOMAIN views, views'[i] = "Ready",
                \A j \in DOMAIN views : views[j] = "Ready" => Placed(plan.objects[j].key)
         PROVE  Placed(plan.objects[i].key)'
    <2>1. PICK k \in Keys : k = plan.objects[i].key
      BY <1>2, ViewedKeys
    <2>2. CASE i = pos
      <3>1. views'[pos] = GetStatus(Current, api'[Current], condition[Current])
        BY <1>3, <1>12, <2>2
      <3>2. api'[Current] = "present"
        BY <1>2, <1>6, <1>12, <2>2, <3>1, ReadyExists
      <3>. QED  BY <1>3, <1>9, <1>10, <2>1, <2>2, <3>2 DEF Placed
    <2>3. CASE i # pos
      <3>1. Placed(k)
        BY <1>3, <1>12, <2>1, <2>3 DEF Placed
      <3>2. api'[k] = "present"
        BY <1>2, <1>3, <3>1 DEF Placed, ClustersOK
      <3>3. Placed(k)'
        BY <1>10, <1>11, <3>1, <3>2
      <3>. QED  BY <1>3, <2>1, <3>3 DEF Placed
    <2>. QED  BY <2>2, <2>3
  <1>. QED
    BY <1>2, <1>3, <1>4, <1>5, <1>12 DEF ObjectsPlaced

\* The cleaners leave what is in place alone.
LEMMA CleanersLeavePlaced ==
    ASSUME CallOK, RunOK, ClustersOK, ObjectsPlaced,
           \/ ListOrphans \/ DeleteOrphan \/ EndCleaner
           \/ M!ListOrphansFails /\ NoWrite /\ NoView
    PROVE  ObjectsPlaced'
  <1>1. /\ phase = "cleaners"
        /\ UNCHANGED <<isDeletion, plan, views, settings, disturbed, sources>>
    BY CleanerSteps
  <1>2. ContainsErrors => ContainsErrors'
    BY AppendResult
    DEF ListOrphans, DeleteOrphan, EndCleaner, M!ListOrphansFails, M!ListOrphans,
        M!DeleteOrphan, M!DeleteOrphanFails, M!EndCleaner, M!EndCleaners, M!passVars,
        CallOK, MP!OperationResults, ContainsErrors
  <1>3. \A i \in DOMAIN views : LET k == plan.objects[i].key IN
            k \in Keys /\ (Placed(k) => Placed(k)')
    <2>1. CASE UNCHANGED <<api, dataVars>>
      <3>1. Untouched
        BY <1>1, <2>1 DEF Untouched, dataVars
      <3>. QED  BY <1>1, <3>1, ViewedKeys, UntouchedStays
    <2>2. CASE DeleteOrphan
      <3>1. PICK x \in orphans : M!DeleteOrphan(x) \/ M!DeleteOrphanFails(x)
        BY <2>2 DEF DeleteOrphan
      <3>2. UNCHANGED api \/ \E s \in {"terminating", "absent"} : api' = [api EXCEPT ![x] = s]
        BY <3>1 DEF M!DeleteOrphan, M!DeleteOrphanFails, M!Deletes
      <3>3. cleaner \in DOMAIN plan.cleaners /\ x \in plan.cleaners[cleaner]
        BY <1>1 DEF CallOK, MP!CallInv, MP!OrphansAreListed
      <3>4. PICK s \in ValidSettings : settings = {s} /\ plan = PlanOf(s)
        BY <1>1 DEF RunOK
      <3>5. ASSUME NEW i \in DOMAIN views, Placed(plan.objects[i].key)
            PROVE  Placed(plan.objects[i].key)'
        <4>1. plan.objects[i].key \in Keys /\ plan.objects[i].key # x
          <5>1. i \in DOMAIN plan.objects /\ plan.objects[i].key \in Keys
            BY <1>1, ViewedKeys
          <5>2. plan.objects[i].key \in Wanted(s)
            BY <3>4, <5>1 DEF Wanted
          <5>. QED  BY <3>3, <3>4, <5>1, <5>2, CleanersSpareWanted
        <4>2. api'[plan.objects[i].key] = api[plan.objects[i].key]
          BY <3>2, <4>1 DEF ClustersOK
        <4>3. Deletion
          BY <2>2 DEF DeleteOrphan
        <4>4. /\ label'[plan.objects[i].key] = label[plan.objects[i].key]
              /\ content'[plan.objects[i].key] = content[plan.objects[i].key]
          BY <3>5, <4>1, <4>2, <4>3 DEF Deletion, Placed, ClustersOK
        <4>. QED
          BY <1>1, <3>5, <4>2, <4>4, DesiredStays DEF Placed
      <3>. QED  BY <1>1, <3>5, ViewedKeys
    <2>3. DeleteOrphan \/ UNCHANGED <<api, dataVars>>
      BY DEF ListOrphans, EndCleaner, M!ListOrphansFails, M!ListOrphans,
             M!EndCleaner, M!EndCleaners, NoWrite
    <2>. QED  BY <2>1, <2>2, <2>3
  <1>. QED  BY <1>1, <1>2, <1>3 DEF ObjectsPlaced

LEMMA ObjectsPlacedStep ==
    ASSUME CallOK, RunOK, ClustersOK, ObjectsPlaced, [Next]_vars
    PROVE  ObjectsPlaced'
  <1>1. CASE Reconcile
    BY <1>1, StartSteps DEF ObjectsPlaced
  <1>2. CASE Return \/ Crash
    BY <1>2, EndSteps DEF ObjectsPlaced
  <1>3. CASE RejectConfiguration \/ Users \/ FluxControllers \/ UNCHANGED vars
    BY <1>3, OthersPlaced
  <1>4. CASE SourceMissing \/ ApplyObjectFails
    <2>1. results' = Append(results, [op |-> "none", err |-> TRUE])
      BY <1>4 DEF SourceMissing, ApplyObjectFails, M!ReconcileFails,
                  M!CreateOrUpdateFails, M!Conclude
    <2>2. ContainsErrors'
      BY <2>1, AppendResult DEF CallOK, MP!OperationResults
    <2>. QED  BY <2>2 DEF ObjectsPlaced
  <1>5. CASE LookUp(FALSE) \/ LookUp(TRUE) \/ SkipObject \/ DeleteObject
    <2>1. isDeletion'
      BY <1>5 DEF LookUp, SkipObject, DeleteObject, M!CheckForDependent,
                  M!StillDependedOn, M!DeleteObject, M!DeleteObjectFails, M!MayDelete,
                  M!Conclude
    <2>. QED  BY <2>1 DEF ObjectsPlaced
  <1>6. CASE EndObjects
    <2>1. UNCHANGED <<isDeletion, plan, results, views, disturbed>> /\ phase # "idle"
      BY <1>6 DEF EndObjects, M!EndObjects, M!passVars, NoWrite, NoView
    <2>2. Untouched
      BY <1>6 DEF EndObjects, M!EndObjects, NoWrite, dataVars, worldVars, Untouched
    <2>. QED
      BY <2>1, <2>2, ViewedKeys, UntouchedStays DEF ObjectsPlaced, ContainsErrors
  <1>. QED
    BY <1>1, <1>2, <1>3, <1>4, <1>5, <1>6, ApplyPlaces, CleanersLeavePlaced
    DEF Next, Controller, Work, Trouble

-----------------------------------------------------------------------------
(* What a call leaves alone *)

LEMMA SettingIs ==
    ASSUME RunOK, phase # "idle"
    PROVE  /\ Setting \in ValidSettings /\ plan = PlanOf(Setting)
           /\ Wanted(Setting) \subseteq Keys
  <1>1. PICK s \in ValidSettings : settings = {s} /\ plan = PlanOf(s)
    BY DEF RunOK
  <1>2. Setting = s
    BY <1>1 DEF Setting
  <1>3. Wanted(s) \subseteq Keys
    BY PlanFits, CopiesOfAreCopies, KeyKinds DEF Wanted
  <1>. QED  BY <1>1, <1>2, <1>3

\* The steps of a call that applies leave what is wanted where it is.
LEMMA ApplyingSpares ==
    ASSUME IInv, [Next]_vars, phase # "idle", ~isDeletion, callVars' # callVars,
           NEW k \in Wanted(Setting), api[k] = "present"
    PROVE  api'[k] = "present"
  <1>. USE DEF IInv
  <1>1. Setting \in ValidSettings /\ plan = PlanOf(Setting) /\ k \in Keys
    BY SettingIs
  <1>2. CASE UNCHANGED api
    BY <1>2
  <1>3. CASE ApplyObject \/ ApplyObjectFails
    <2>1. M!AtObject /\ (M!CreateOrUpdate \/ M!CreateOrUpdateFails)
      BY <1>3 DEF ApplyObject, ApplyObjectFails
    <2>2. M!Current.key \in Keys
      BY <2>1, AtWork
    <2>. QED
      BY <1>1, <2>1, <2>2 DEF M!CreateOrUpdate, M!CreateOrUpdateFails, ClustersOK
  <1>4. CASE DeleteOrphan
    <2>1. PICK x \in orphans : M!DeleteOrphan(x) \/ M!DeleteOrphanFails(x)
      BY <1>4 DEF DeleteOrphan
    <2>2. cleaner \in DOMAIN plan.cleaners /\ x \in plan.cleaners[cleaner]
      BY <2>1 DEF M!DeleteOrphan, M!DeleteOrphanFails, M!AtCleaner, CallOK,
                  MP!CallInv, MP!OrphansAreListed
    <2>3. k # x
      BY <1>1, <2>2, CleanersSpareWanted
    <2>. QED
      BY <1>1, <2>1, <2>3 DEF M!DeleteOrphan, M!DeleteOrphanFails, M!Deletes, ClustersOK
  <1>5. (Reconcile \/ Return \/ Crash) => UNCHANGED api
    BY DEF Reconcile, M!Call, Return, Crash
  <1>6. (SourceMissing \/ SkipObject \/ LookUp(FALSE) \/ LookUp(TRUE)) => UNCHANGED api
    BY DEF SourceMissing, SkipObject, LookUp, M!ReconcileFails, M!StillDependedOn,
           M!CheckForDependent
  <1>7. (EndObjects \/ ListOrphans \/ EndCleaner \/ M!ListOrphansFails) => UNCHANGED api
    BY DEF EndObjects, ListOrphans, EndCleaner, M!EndObjects, M!ListOrphans,
           M!EndCleaner, M!EndCleaners, M!ListOrphansFails
  <1>8. ~DeleteObject
    BY DEF DeleteObject, M!DeleteObject, M!DeleteObjectFails, M!MayDelete
  <1>9. ~(RejectConfiguration \/ Users \/ FluxControllers \/ UNCHANGED vars)
    BY OthersAct DEF CallOK, Outside
  <1>. QED
    BY <1>2, <1>3, <1>4, <1>5, <1>6, <1>7, <1>8, <1>9
    DEF Next, Controller, Work, Trouble

\* A call that applies takes nothing away that it is to put in place, whatever
\* the configurations, and whatever fails or changes while it runs
\* (flux_controller.go:153-231, secret.go:140-149, configmap.go:127-136).
THEOREM WantedSurvives == Spec => WantedSurvive
  <1>1. IInv /\ [Next]_vars =>
            [phase # "idle" /\ ~isDeletion /\ callVars' # callVars =>
                \A k \in Wanted(Setting) :
                    api[k] = "present" => api'[k] = "present"]_vars
    BY ApplyingSpares
  <1>. QED  BY <1>1, IInvHolds, PTL DEF Spec, WantedSurvive

-----------------------------------------------------------------------------
(* What an outcome means *)

CallsOK == IInv /\ MarksOK /\ OrphansGone /\ ObjectsGone /\ ObjectsPlaced

LEMMA CallsOKHolds == Spec => []CallsOK
  <1>1. Init => CallsOK
    <2>. SUFFICES ASSUME Init PROVE CallsOK
      OBVIOUS
    <2>1. MarksOK /\ OrphansGone /\ ObjectsGone /\ ObjectsPlaced
      BY DEF Init, MarksOK, OrphansGone, ObjectsGone, ObjectsPlaced
    <2>. QED  BY <2>1, IInvInit DEF CallsOK
  <1>2. CallsOK /\ [Next]_vars => CallsOK'
    BY IInvStep, MarksStep, OrphansGoneStep, ObjectsGoneStep, ObjectsPlacedStep
    DEF CallsOK, IInv
  <1>. QED  BY <1>1, <1>2, PTL DEF Spec

\* Once the cleaners are done, what they would regard as orphans is clear.
LEMMA NoOrphanHere ==
    ASSUME CallsOK, phase = "returned", CleaningSucceeds,
           NEW k \in CopiesOf(Setting), k \notin Wanted(Setting)
    PROVE  Clear(k)
  <1>. USE DEF CallsOK, IInv
  <1>1. Setting \in ValidSettings /\ plan = PlanOf(Setting)
    BY SettingIs
  <1>2. \E c \in DOMAIN plan.cleaners : k \in plan.cleaners[c]
    BY <1>1, PlanCovers
  <1>3. \A c \in DOMAIN plan.cleaners : c < cleaner
    <2>1. cleaner \notin DOMAIN plan.cleaners
      BY DEF OrphansGone
    <2>. QED  BY <2>1, RunningPlan, LenProperties
  <1>. QED  BY <1>2, <1>3 DEF OrphansGone

LEMMA ReadyFollows == CallsOK => ReadySoundHere
  <1>. SUFFICES ASSUME CallsOK, phase = "returned", ~isDeletion,
                       Outcome = "Ready", ~disturbed
                PROVE  /\ \A k \in Wanted(Setting) : Placed(k)
                       /\ \A k \in CopiesOf(Setting) \ Wanted(Setting) : Clear(k)
    BY DEF ReadySoundHere, Placed, Clear
  <1>. USE DEF CallsOK, IInv
  <1>1. ~ContainsErrors /\ ~cleanupErr /\ AllResourcesReady
    BY DEF Outcome
  <1>2. CleaningSucceeds
    BY <1>1 DEF AllResourcesReady, CleaningSucceeds
  <1>3. plan = PlanOf(Setting) /\ DOMAIN views = DOMAIN plan.objects
    BY SettingIs DEF RunOK
  <1>4. \A k \in Wanted(Setting) : Placed(k)
    BY <1>1, <1>3 DEF AllResourcesReady, ObjectsPlaced, Wanted
  <1>5. \A k \in CopiesOf(Setting) \ Wanted(Setting) : Clear(k)
    BY <1>2, NoOrphanHere
  <1>. QED  BY <1>4, <1>5

LEMMA VerdictFollowsHere == CallsOK => VerdictSoundHere
  <1>. SUFFICES ASSUME CallsOK, M!Verdict
                PROVE  /\ \A k \in Owned : api[k] = "absent"
                       /\ ~release
                       /\ \A k \in CopiesOf(Setting) : Clear(k)
    BY DEF VerdictSoundHere, Clear
  <1>. USE DEF CallsOK, IInv
  <1>1. phase = "returned" /\ isDeletion /\ M!AllDeleted(results) /\ CleaningSucceeds
    BY DEF M!Verdict, M!AllDeleted, CleaningSucceeds
  <1>2. \A k \in Owned : api[k] = "absent"
    BY ManagerFits, MP!VerdictFollows
    DEF CallOK, MP!VerdictSound, MP!Verdict, M!Verdict, M!AllDeleted, MP!AllDeleted
  <1>3. plan = PlanOf(Setting)
    BY <1>1, SettingIs
  <1>4. \A k \in Wanted(Setting) : Clear(k)
    <2>1. \A i \in DOMAIN plan.objects : i < pos
      <3>1. pos \notin DOMAIN plan.objects
        BY <1>1 DEF CallOK, MP!CallInv, MP!ObjectsDone
      <3>. QED  BY <1>1, <3>1, RunningPlan, LenProperties
    <2>. QED  BY <1>1, <1>3, <2>1 DEF ObjectsGone, Wanted
  <1>5. \A k \in CopiesOf(Setting) : Clear(k)
    BY <1>1, <1>4, NoOrphanHere
  <1>6. ~release
    BY <1>2, KeyKinds DEF MarksOK
  <1>. QED  BY <1>2, <1>5, <1>6

\* A call that nobody interfered with and that sets the status to Ready has put
\* everything in place in the namespaces of its configuration and cleaned them
\* up, for all configurations, and whatever calls, failures and crashes came
\* before it (flux_controller.go:65-73, manager.go:89-110).
THEOREM ReadyIsSoundHere == Spec => []ReadySoundHere
  BY ReadyFollows, CallsOKHolds, PTL

\* When a Delete call comes to the verdict that lets the finalizer go, neither
\* Flux resources nor the chart are left, nor labelled copies in the namespaces
\* of the configuration (flux_controller.go:85-90, manager.go:89-110).
THEOREM VerdictIsSoundHere == Spec => []VerdictSoundHere
  BY VerdictFollowsHere, CallsOKHolds, PTL

\* With one namespace, what one ProviderConfig has labelled any other reaches.
LEMMA OneReach ==
    ASSUME OneNamespace, NEW s \in AllSettings
    PROVE  ReachOf(AllSettings) = Owned \cup CopiesOf(s)
  <1>1. \A t \in AllSettings : t.fv.namespace = s.fv.namespace
    BY DEF AllSettings, Settings, OneNamespace
  <1>2. \A t \in AllSettings : CopiesOf(t) = CopiesOf(s)
    BY <1>1 DEF CopiesOf
  <1>. QED  BY <1>2 DEF ReachOf

\* So nothing else is labelled.
LEMMA LabelledHere ==
    ASSUME OneNamespace, CallsOK, phase # "idle", NEW k \in Keys, label[k]
    PROVE  k \in Owned \cup CopiesOf(Setting)
  <1>1. PICK s \in ValidSettings : settings = {s}
    BY DEF CallsOK, IInv, RunOK
  <1>2. Setting = s
    BY <1>1 DEF Setting
  <1>. QED  BY <1>1, <1>2, OneReach DEF CallsOK, MarksOK

\* As long as all versions are deployed to one namespace, a call that nobody
\* interfered with and that sets the status to Ready has put everything in
\* place, whatever calls, failures and crashes came before it
\* (flux_controller.go:65-73, manager.go:89-110).
THEOREM ReadyIsSound == OneNamespace => (Spec => []ReadySound)
  <1>. SUFFICES ASSUME OneNamespace PROVE Spec => []ReadySound
    OBVIOUS
  <1>1. CallsOK => ReadySound
    <2>. SUFFICES ASSUME CallsOK, phase = "returned", ~isDeletion,
                         Outcome = "Ready", ~disturbed
                  PROVE  InPlace(Setting)
      BY DEF ReadySound
    <2>1. /\ \A k \in Wanted(Setting) : Placed(k)
          /\ \A k \in CopiesOf(Setting) \ Wanted(Setting) : Clear(k)
      BY ReadyFollows DEF ReadySoundHere, Placed, Clear
    <2>2. Setting \in ValidSettings
      BY SettingIs DEF CallsOK, IInv
    <2>3. Owned \subseteq Wanted(Setting)
      BY <2>2, WantedKeys
    <2>4. \A k \in Keys \ Wanted(Setting) : label[k] => api[k] # "present"
      BY <2>1, <2>3, LabelledHere DEF Clear
    <2>. QED  BY <2>1, <2>4 DEF InPlace, Placed
  <1>. QED  BY <1>1, CallsOKHolds, PTL

\* When the verdict falls, everything is gone.
LEMMA VerdictMeansNothingLeft ==
    ASSUME OneNamespace, CallsOK, M!Verdict
    PROVE  /\ \A k \in Owned : api[k] = "absent"
           /\ \A k \in Keys : Clear(k)
  <1>1. /\ \A k \in Owned : api[k] = "absent"
        /\ \A k \in CopiesOf(Setting) : Clear(k)
        /\ phase # "idle"
    BY VerdictFollowsHere DEF VerdictSoundHere, Clear, M!Verdict
  <1>. QED  BY <1>1, LabelledHere DEF Clear

LEMMA NothingLeftStep ==
    ASSUME NothingWithdrawn, OneNamespace, CallsOK, CallsOK', NothingLeft, [Next]_vars
    PROVE  NothingLeft'
  <1>. USE DEF CallsOK, IInv
  <1>. SUFFICES ASSUME stage' = "gone"
                PROVE  /\ \A k \in Owned : api'[k] = "absent"
                       /\ \A k \in Keys : Clear(k)'
    BY KeyKinds DEF NothingLeft, Clear, MarksOK
  <1>1. CASE stage = "gone"
    <2>1. phase = "idle"
      BY <1>1 DEF CallOK
    <2>2. LabelsGo
      BY <2>1, LabelsOnlyGo
      DEF ApplyObject, ApplyObjectFails, M!AtObject
    <2>3. MP!OwnedStayGone
      <3>1. RejectConfiguration \/ Users \/ FluxControllers \/ UNCHANGED vars
        BY <1>1, <2>1, ObjectSteps, CleanerSteps
        DEF Next, Controller, Work, Trouble, Reconcile, Crash, Return
      <3>. QED  BY <3>1, OthersAct, OutsideTypes DEF CallOK
    <2>. QED  BY <1>1, <2>2, <2>3 DEF NothingLeft, LabelsGo, Clear, MP!OwnedStayGone
  <1>2. CASE stage # "gone"
    <2>1. M!Verdict /\ UNCHANGED <<api, label>>
      <3>1. ~RejectConfiguration
        <4>1. Offered(pc, version)
          BY DEF NothingWithdrawn, CallOK, Offered
        <4>. QED
          BY <1>2, <4>1 DEF RejectConfiguration, CreateObjectManager
      <3>2. Return
        BY <1>2, <3>1
        DEF Next, Controller, Work, Trouble, Users, FluxControllers, Reconcile,
            ApplyObject, SourceMissing, LookUp, SkipObject, DeleteObject, EndObjects,
            ListOrphans, EndCleaner, DeleteOrphan, ApplyObjectFails, Crash,
            RequestDeletion, Recreate, ChangeConfiguration, ChangeSource, Drift,
            TakeOver, FetchChart, Install, RollOut, RollOutFails, Degrade, Finalize,
            NoWrite, NoFlux, fluxVars, vars
      <3>. QED  BY <1>2, <3>2 DEF Return, dataVars
    <2>. QED  BY <2>1, VerdictMeansNothingLeft DEF Clear
  <1>. QED  BY <1>1, <1>2

\* As long as, besides, no version is withdrawn, nothing of a Flux object is
\* left when its finalizer comes off, over any number of calls, crashes,
\* failures and changes (flux_controller.go:85-90, manager.go:89-110).
THEOREM DeletionLeavesNothing ==
    NothingWithdrawn /\ OneNamespace => (Spec => []NothingLeft)
  <1>. SUFFICES ASSUME NothingWithdrawn, OneNamespace PROVE Spec => []NothingLeft
    OBVIOUS
  <1>1. Init => NothingLeft
    BY DEF Init, NothingLeft
  <1>2. CallsOK /\ CallsOK' /\ NothingLeft /\ [Next]_vars => NothingLeft'
    BY NothingLeftStep
  <1>. QED  BY <1>1, <1>2, CallsOKHolds, PTL DEF Spec

=============================================================================
