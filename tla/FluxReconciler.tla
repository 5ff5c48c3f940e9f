--------------------------- MODULE FluxReconciler ---------------------------
(***************************************************************************)
(* The controller of internal/controller/flux_controller.go at work on one *)
(* Flux object: it turns the ProviderConfig and the requested version into *)
(* a manager (pkg/flux/{secret,configmap,flux}.go), runs Manager's Apply   *)
(* or Delete and reports what came of it.                                  *)
(*                                                                         *)
(* Manager gives the requests of a call; this module adds to each of them  *)
(* what the object contains and whether it bears the managed-by label, and *)
(* around them: the ProviderConfig changing between and during calls, the  *)
(* source secrets being rotated or missing, copies deleted by others, the  *)
(* Flux controllers of the platform cluster installing and uninstalling    *)
(* the chart, and the runtime that calls again and drops the finalizer     *)
(* when Delete returns without error and without a requeue.                *)
(*                                                                         *)
(* One worker handles a Flux object at a time, so calls do not overlap.    *)
(***************************************************************************)
EXTENDS Naturals, Sequences, FiniteSets

CONSTANTS
    Versions,         \* values of Flux.Spec.Version
    Secrets,          \* names of source secrets in the pod namespace
    Namespaces,       \* namespaces of the control plane
    Foreign,          \* keys of objects in them that users made for themselves
    ProviderConfigs,  \* the ProviderConfigs an operator may write
    Retries,          \* of a rollout that fails
    MaxUpsets,        \* bound on failures, crashes, drift, source changes
    MaxChanges        \* bound on configuration changes and re-creations

Tenant == "tenant namespace"    \* on the platform cluster
CABundle == "custom-ca-bundle"
Sources == Secrets \cup {CABundle}

(***************************************************************************)
(* A FluxVersion names a chart, at most one chart pull secret, and helm    *)
(* values, of which the controller reads the namespace and the image pull  *)
(* secrets; they may be malformed.  A ProviderConfig offers versions and   *)
(* may refer to a CA bundle, properly or without a key.                    *)
(***************************************************************************)
FluxVersion ==
    [chart: Nat, chartPullSecret: Seq(Secrets), values: {"ok", "malformed"},
     namespace: Namespaces, imagePullSecrets: Seq(Secrets)]

ASSUME ConfigAssumption ==
    \A pc \in ProviderConfigs :
        /\ DOMAIN pc.versions \subseteq Versions
        /\ \A v \in DOMAIN pc.versions : pc.versions[v] \in FluxVersion
        /\ pc.caBundleRef \in {"none", "ok", "noKey"}

SecretKey(ns, s) == [kind |-> "Secret", ns |-> ns, name |-> s]
ConfigMapKey(ns) == [kind |-> "ConfigMap", ns |-> ns, name |-> CABundle]
OCIRepository == [kind |-> "OCIRepository", ns |-> Tenant, name |-> "flux"]
HelmRelease == [kind |-> "HelmRelease", ns |-> Tenant, name |-> "flux"]

Copies == {SecretKey(ns, s) : ns \in Namespaces \cup {Tenant}, s \in Secrets}
          \cup {ConfigMapKey(ns) : ns \in Namespaces}
Owned == {OCIRepository, HelmRelease}
Keys == Copies \cup Owned \cup Foreign
Before == {<<HelmRelease, OCIRepository>>}

ASSUME ForeignAssumption ==
    /\ Foreign \cap (Copies \cup Owned) = {}
    /\ \A k \in Foreign : k.ns \in Namespaces

\* The tenant namespace is on another cluster.
ASSUME TenantAssumption == Tenant \notin Namespaces

ASSUME BoundsAssumption == {Retries, MaxUpsets, MaxChanges} \subseteq Nat

-----------------------------------------------------------------------------
(* createObjectManager *)

Offered(pc, v) == v \in DOMAIN pc.versions

\* "invalid": selectFluxVersion finds no such version, a user's mistake whose
\* error IgnoreInvalidUserInput swallows; "error": any other failure.
CreateObjectManager(pc, v) ==
    CASE ~Offered(pc, v) -> "invalid"
      [] Offered(pc, v) /\ (\/ pc.versions[v].values = "malformed"
                            \/ pc.caBundleRef = "noKey") -> "error"
      [] OTHER -> "ok"

\* What the manager is built from; fixed for the rest of the call.
Settings(pc, v) == [fv |-> pc.versions[v], ca |-> pc.caBundleRef = "ok"]

ManagedObject(k, deps) == [key |-> k, dependsOn |-> deps, policy |-> "delete"]

\* ManagePullSecrets: one copy per reference, in their order.
ManagePullSecrets(ns, refs) ==
    [i \in DOMAIN refs |-> ManagedObject(SecretKey(ns, refs[i]), {})]

ManageCaConfigMap(s) ==
    IF s.ca THEN <<ManagedObject(ConfigMapKey(s.fv.namespace), {})>> ELSE <<>>

\* ManageFluxResources, after n other objects.
ManageFluxResources(n) ==
    << ManagedObject(OCIRepository, {}), ManagedObject(HelmRelease, {n + 1}) >>

\* Mutant: a cleaner does not know what is still needed.
OrphansKeepingNone(kind, ns, keep) == {k \in Keys : k.kind = kind /\ k.ns = ns}

\* What a cleaner would regard as orphans.
OrphansOf(kind, ns, keep) ==
    {k \in Keys : k.kind = kind /\ k.ns = ns /\ k.name \notin keep}

\* The control plane's objects come before those of the platform cluster.
PlanOf(s) ==
    LET first == ManagePullSecrets(s.fv.namespace, s.fv.imagePullSecrets)
                 \o ManageCaConfigMap(s)
                 \o ManagePullSecrets(Tenant, s.fv.chartPullSecret)
        named(refs) == {refs[i] : i \in DOMAIN refs}
    IN  [objects  |-> first \o ManageFluxResources(Len(first)),
         cleaners |->
            << OrphansOf("Secret", Tenant, named(s.fv.chartPullSecret)),
               OrphansOf("Secret", s.fv.namespace, named(s.fv.imagePullSecrets)),
               OrphansOf("ConfigMap", s.fv.namespace,
                         IF s.ca THEN {CABundle} ELSE {}) >>]

Plans == {PlanOf(s) : s \in UNION {{Settings(pc, v) : v \in DOMAIN pc.versions} :
                                    pc \in ProviderConfigs}}

-----------------------------------------------------------------------------
(* State *)

VARIABLES
    (* the configuration and the Flux object *)
    pc,        \* the ProviderConfig
    version,   \* Flux.Spec.Version
    stage,     \* of the Flux object: "live", "deleting", "gone"
    status,    \* its status.phase: "none" or an InstancePhase
    (* the clusters *)
    sources,   \* data of a source secret or config map; 0: it does not exist
    api,       \* state of each object, as in Manager
    label,     \* whether it bears the managed-by label
    content,   \* {what it holds}; {} if it does not exist
    condition, \* {what its Ready condition, now True, was computed from}
    failures,  \* of Helm: how often the rollout of what has failed
    namespaces,\* the namespaces that exist in the control plane
    release,   \* the chart is installed in the control plane
    (* the running call *)
    phase, isDeletion, plan, pos, seen, blocked, results, cleaner, orphans,
    listed, cleanupErr,  \* as in Manager
    settings,  \* {what the manager was built from}
    views,     \* phase each configured object's in-memory copy would report
    disturbed, \* since the call began others changed objects or sources
    (* bounds *)
    upsets, changes

callVars == <<phase, isDeletion, plan, pos, seen, blocked, results, cleaner,
              orphans, listed, cleanupErr>>
fluxVars == <<pc, version, stage, status>>
dataVars == <<label, content, condition, failures>>
worldVars == <<sources, namespaces, release>>
boundVars == <<upsets, changes>>
vars == <<fluxVars, worldVars, api, dataVars, callVars, settings, views,
          disturbed, boundVars>>

M == INSTANCE Manager WITH leaving <- (stage = "deleting")

NoFailures == [of |-> {}, times |-> 0]

Phases == {"Pending", "Progressing", "Ready", "Terminating"}

TypeOK ==
    /\ pc \in ProviderConfigs /\ version \in Versions
    /\ stage \in {"live", "deleting", "gone"}
    /\ status \in Phases \cup {"none"}
    /\ sources \in [Sources -> Nat]
    /\ api \in [Keys -> M!ObjectStates]
    /\ label \in [Keys -> BOOLEAN]
    /\ DOMAIN content = Keys /\ DOMAIN condition = Keys
    /\ \A k \in Keys : content[k] = {} <=> api[k] = "absent"
    /\ \A k \in Keys : api[k] = "absent" => ~label[k] /\ condition[k] = {}
    /\ failures.times \in 0 .. Retries + 1
    /\ namespaces \subseteq Namespaces /\ release \in BOOLEAN
    /\ phase \in {"idle", "objects", "cleaners", "returned"}
    /\ phase = "idle" <=> settings = {}
    /\ phase # "idle" => plan \in Plans /\ DOMAIN views = DOMAIN plan.objects
    /\ \A i \in DOMAIN views : views[i] \in Phases
    /\ disturbed \in BOOLEAN
    /\ upsets \in 0 .. MaxUpsets /\ changes \in 0 .. MaxChanges

Init ==
    /\ pc \in ProviderConfigs
    /\ version \in Versions
    /\ stage = "live"
    /\ status = "none"
    /\ sources \in [Sources -> 0 .. 1]
    /\ api = [k \in Keys |-> IF k \in Foreign THEN "present" ELSE "absent"]
    /\ label = [k \in Keys |-> FALSE]
    /\ content = [k \in Keys |-> IF k \in Foreign THEN {"foreign"} ELSE {}]
    /\ condition = [k \in Keys |-> {}]
    /\ failures = NoFailures
    /\ namespaces = {k.ns : k \in Foreign}
    /\ release = FALSE
    /\ phase = "idle" /\ isDeletion = FALSE /\ plan = M!NoPlan /\ pos = 1
    /\ seen = {} /\ blocked = FALSE /\ results = <<>>
    /\ cleaner = 1 /\ orphans = {} /\ listed = FALSE /\ cleanupErr = FALSE
    /\ settings = {}
    /\ views = <<>>
    /\ disturbed = FALSE
    /\ upsets = MaxUpsets
    /\ changes = MaxChanges

-----------------------------------------------------------------------------
(* Objects and their contents *)

Setting == CHOOSE s \in settings : TRUE

\* What the reconcile functions write into the object k.
Desired(k, s) ==
    CASE k.kind \in {"Secret", "ConfigMap"} -> {sources[k.name]}
      [] k = OCIRepository ->
            {[chart |-> s.fv.chart, secretRef |-> s.fv.chartPullSecret]}
      [] k = HelmRelease ->
            {[namespace |-> s.fv.namespace, pull |-> s.fv.imagePullSecrets,
              ca |-> s.ca]}

\* Whether they can: the source of a copy must exist, and a new copy needs its
\* namespace.
Reconcilable(k) ==
    k.kind \in {"Secret", "ConfigMap"} =>
        /\ sources[k.name] # 0
        /\ k.ns = Tenant \/ k.ns \in namespaces

\* The phase an in-memory object in state s reports.  One that was never read,
\* or was read when it did not exist, has no UID.
SecretStatus(s) ==
    CASE s = "terminating" -> "Terminating"
      [] s = "absent" -> "Pending"
      [] s = "present" -> "Ready"
ConfigMapStatus(s) == SecretStatus(s)

\* Mutant: what exists is ready.
FluxStatusByExistence(s, c) == SecretStatus(s)

\* For an object of Flux it depends on the Ready condition c.
FluxStatus(s, c) ==
    CASE s = "terminating" -> "Terminating"
      [] s = "present" /\ c # {} -> "Ready"
      [] OTHER -> "Pending"

GetStatus(k, s, c) ==
    CASE k.kind = "Secret" -> SecretStatus(s)
      [] k.kind = "ConfigMap" -> ConfigMapStatus(s)
      [] k \in Owned -> FluxStatus(s, c)

Current == plan.objects[pos].key

\* An object that is gone has no content; a Flux object keeps a finalizer of
\* its controller, a copy has none.
Deletion ==
    /\ \A k \in Keys : (api[k] # "terminating" /\ api'[k] = "terminating") => k \in Owned
    /\ label' = [k \in Keys |-> label[k] /\ api'[k] # "absent"]
    /\ content' = [k \in Keys |-> IF api'[k] = "absent" THEN {} ELSE content[k]]
    /\ condition' = [k \in Keys |-> IF api'[k] = "absent" THEN {} ELSE condition[k]]
    /\ failures' = IF api'[HelmRelease] = "absent" THEN NoFailures ELSE failures
    /\ (release /\ api[HelmRelease] # "absent") => api'[HelmRelease] # "absent"

Written ==
    /\ label' = [label EXCEPT ![Current] = TRUE]
    /\ content' = [content EXCEPT ![Current] = Desired(Current, Setting)]
    /\ UNCHANGED <<condition, failures>>

Upset == upsets > 0 /\ upsets' = upsets - 1 /\ UNCHANGED changes
Change == changes > 0 /\ changes' = changes - 1 /\ UNCHANGED upsets

-----------------------------------------------------------------------------
(* A call *)

\* CreateOrUpdate or Delete begins: the manager is built from the
\* configuration of this moment.
Reconcile ==
    /\ stage # "gone"
    /\ CreateObjectManager(pc, version) = "ok"
    /\ LET s == Settings(pc, version) IN
        /\ M!Call(stage = "deleting", PlanOf(s))
        /\ settings' = {s}
        /\ views' = [i \in DOMAIN PlanOf(s).objects |-> "Pending"]
    /\ disturbed' = FALSE
    /\ UNCHANGED <<fluxVars, worldVars, dataVars, boundVars>>

\* Mutant: the failure is returned but not written to the status.
RejectSilently ==
    /\ phase = "idle" /\ stage # "gone"
    /\ CreateObjectManager(pc, version) # "ok"
    /\ stage' = IF stage = "deleting" /\ CreateObjectManager(pc, version) = "invalid"
                THEN "gone" ELSE stage
    /\ UNCHANGED <<pc, version, status, worldVars, api, dataVars, callVars,
                   settings, views, disturbed, boundVars>>

\* It ends at once if no manager can be built.  A user's mistake is not an
\* error to the runtime, so a Delete that runs into one is taken as done.
RejectConfiguration ==
    /\ phase = "idle" /\ stage # "gone"
    /\ CreateObjectManager(pc, version) # "ok"
    /\ status' = "Progressing"
    /\ stage' = IF stage = "deleting" /\ CreateObjectManager(pc, version) = "invalid"
                THEN "gone" ELSE stage
    /\ UNCHANGED <<pc, version, worldVars, api, dataVars, callVars, settings,
                   views, disturbed, boundVars>>

\* The rest of the step of a call that writes no object.
NoWrite == UNCHANGED <<dataVars, settings, disturbed, fluxVars, worldVars>>
NoView == UNCHANGED views

ApplyObject ==
    /\ M!AtObject
    /\ Reconcilable(Current)
    /\ M!CreateOrUpdate
    /\ Written
    /\ views' = [views EXCEPT ![pos] =
                    GetStatus(Current, api'[Current], condition[Current])]
    /\ UNCHANGED <<settings, disturbed, fluxVars, worldVars, boundVars>>

\* The object was read but could not be written.
SourceMissing ==
    /\ M!AtObject
    /\ ~Reconcilable(Current)
    /\ M!ReconcileFails
    /\ views' = [views EXCEPT ![pos] =
                    GetStatus(Current, api[Current], condition[Current])]
    /\ NoWrite
    /\ UNCHANGED boundVars

\* The request fails before or after it took effect.
ApplyObjectFails ==
    /\ M!AtObject
    /\ M!CreateOrUpdateFails
    /\ \/ UNCHANGED <<api, dataVars>>
       \/ Reconcilable(Current) /\ api'[Current] # "absent" /\ Written
    /\ \E p \in {"Pending", GetStatus(Current, api[Current], condition[Current])} :
        views' = [views EXCEPT ![pos] = p]
    /\ UNCHANGED <<settings, disturbed, fluxVars, worldVars>>
    /\ Upset

\* The Get that looks for a dependent refreshes its in-memory copy.
LookUp(fails) ==
    /\ M!CheckForDependent(fails)
    /\ LET j == CHOOSE j \in seen' \ seen : TRUE
           k == plan.objects[j].key
       IN  views' = IF fails \/ api[k] = "absent" THEN views
                    ELSE [views EXCEPT ![j] = GetStatus(k, api[k], condition[k])]
    /\ NoWrite

SkipObject == M!StillDependedOn /\ NoWrite /\ NoView /\ UNCHANGED boundVars

DeleteObject ==
    /\ \/ M!DeleteObject /\ UNCHANGED boundVars
       \/ M!DeleteObjectFails /\ Upset
    /\ Deletion
    /\ NoView
    /\ UNCHANGED <<settings, disturbed, fluxVars, worldVars>>

EndObjects == M!EndObjects /\ NoWrite /\ NoView

\* Mutant: List selects by namespace only.
ListAll ==
    /\ M!AtCleaner
    /\ M!ListOrphans(M!Orphans)
    /\ NoWrite /\ NoView

\* List selects by namespace and label.
ListOrphans ==
    /\ M!AtCleaner
    /\ M!ListOrphans({k \in M!Orphans : label[k]})
    /\ NoWrite /\ NoView

DeleteOrphan ==
    /\ \E k \in orphans :
        \/ M!DeleteOrphan(k) /\ UNCHANGED boundVars
        \/ M!DeleteOrphanFails(k) /\ Upset
    /\ Deletion
    /\ NoView
    /\ UNCHANGED <<settings, disturbed, fluxVars, worldVars>>

EndCleaner == (M!EndCleaner \/ M!EndCleaners) /\ NoWrite /\ NoView

-----------------------------------------------------------------------------
(* The end of a call *)

\* resultsToResources: is there an error, is every reported phase Ready.  The
\* entry of a failed cleanup reports Terminating.
ContainsErrors == \E i \in DOMAIN results : results[i].err
AllResourcesReady ==
    /\ \A i \in DOMAIN views : views[i] = "Ready"
    /\ \A i \in DOMAIN results : results[i].op # "deletionFailed"

\* Mutant: the error of a cleaner is only logged.
OutcomeIgnoringCleanup ==
    IF ContainsErrors THEN "Progressing"
    ELSE IF isDeletion THEN "Terminating"
    ELSE IF AllResourcesReady THEN "Ready" ELSE "Progressing"

\* Mutant: the status is Ready whenever every resource is.
OutcomeByPhase ==
    IF isDeletion THEN "Terminating"
    ELSE IF AllResourcesReady THEN "Ready" ELSE "Progressing"

\* status.phase as CreateOrUpdate and Delete leave it.
Outcome ==
    IF ContainsErrors \/ cleanupErr
    THEN "Progressing"
    ELSE IF isDeletion THEN "Terminating"
    ELSE IF AllResourcesReady THEN "Ready" ELSE "Progressing"

\* Mutant: the manager is kept for the next call.
ForgetNothing ==
    /\ phase' = "idle"
    /\ M!Reset
    /\ views' = <<>>
    /\ disturbed' = FALSE
    /\ UNCHANGED settings

\* Nothing is left of a manager after its call.
Forget ==
    /\ phase' = "idle"
    /\ M!Reset
    /\ settings' = {}
    /\ views' = <<>>
    /\ disturbed' = FALSE

\* Mutant: the finalizer goes when nothing failed, with no regard to RequeueAfter.
ReturnWithoutRequeue ==
    /\ phase = "returned"
    /\ status' = Outcome
    /\ stage' = IF isDeletion /\ Outcome = "Terminating" THEN "gone" ELSE stage
    /\ Forget
    /\ UNCHANGED <<pc, version, worldVars, api, dataVars, boundVars>>

Return ==
    /\ phase = "returned"
    /\ status' = Outcome
    /\ stage' = IF M!Verdict THEN "gone" ELSE stage
    /\ Forget
    /\ UNCHANGED <<pc, version, worldVars, api, dataVars, boundVars>>

Crash ==
    /\ phase # "idle"
    /\ Forget
    /\ Upset
    /\ UNCHANGED <<fluxVars, worldVars, api, dataVars>>

-----------------------------------------------------------------------------
(* Users and operators *)

NoCall == UNCHANGED <<callVars, settings, views>>

RequestDeletion ==
    /\ stage = "live"
    /\ stage' = "deleting"
    /\ NoCall
    /\ UNCHANGED <<pc, version, status, worldVars, api, dataVars, disturbed,
                   boundVars>>

Recreate ==
    /\ stage = "gone"
    /\ stage' = "live" /\ status' = "none"
    /\ Change
    /\ NoCall
    /\ UNCHANGED <<pc, version, worldVars, api, dataVars, disturbed>>

ChangeConfiguration ==
    /\ \/ pc' \in ProviderConfigs \ {pc} /\ UNCHANGED version
       \/ stage = "live" /\ version' \in Versions \ {version} /\ UNCHANGED pc
    /\ Change
    /\ NoCall
    /\ UNCHANGED <<stage, status, worldVars, api, dataVars, disturbed>>

\* A source is rotated, deleted or created again.
ChangeSource ==
    /\ \E s \in Sources, d \in 0 .. 2 :
        d # sources[s] /\ sources' = [sources EXCEPT ![s] = d]
    /\ disturbed' = (phase # "idle")
    /\ Upset
    /\ NoCall
    /\ UNCHANGED <<fluxVars, namespaces, release, api, dataVars>>

\* Somebody deletes a copy.
Drift ==
    /\ \E k \in Copies :
        api[k] = "present" /\ api' = [api EXCEPT ![k] = "absent"]
    /\ Deletion
    /\ disturbed' = (phase # "idle")
    /\ Upset
    /\ NoCall
    /\ UNCHANGED <<fluxVars, worldVars>>

\* Somebody makes the object under a copy's name in the control plane their
\* own: they create or replace it, or take the label off.
TakeOver ==
    /\ \E k \in Copies :
        /\ k.ns \in namespaces
        /\ api' = [api EXCEPT ![k] = "present"]
        /\ label' = [label EXCEPT ![k] = FALSE]
        /\ content' = [content EXCEPT ![k] = {"own"}]
    /\ disturbed' = (phase # "idle")
    /\ Upset
    /\ NoCall
    /\ UNCHANGED <<fluxVars, worldVars, condition, failures>>

-----------------------------------------------------------------------------
(* The Flux controllers of the platform cluster *)

SpecOf(k) == CHOOSE c \in content[k] : TRUE
NoFlux == NoCall /\ UNCHANGED <<fluxVars, sources, disturbed, boundVars>>

CopyReady(ns, refs) ==
    \A i \in DOMAIN refs : api[SecretKey(ns, refs[i])] = "present"

\* source-controller fetches the chart.
FetchChart ==
    /\ api[OCIRepository] = "present"
    /\ CopyReady(Tenant, SpecOf(OCIRepository).secretRef)
    /\ condition[OCIRepository] # content[OCIRepository]
    /\ condition' = [condition EXCEPT ![OCIRepository] = content[OCIRepository]]
    /\ NoFlux
    /\ UNCHANGED <<api, label, content, failures, namespaces, release>>

\* What a HelmRelease is rolled out from.
Chart == {[fetched |-> condition[OCIRepository], values |-> content[HelmRelease]]}

\* helm-controller installs it, creating its namespace.
Install ==
    /\ api[HelmRelease] = "present" /\ condition[OCIRepository] # {}
    /\ LET ns == SpecOf(HelmRelease).namespace IN
        /\ ~release \/ ns \notin namespaces
        /\ namespaces' = namespaces \cup {ns}
    /\ release' = TRUE
    /\ NoFlux
    /\ UNCHANGED <<api, dataVars>>

\* What the chart's pods need to pull their images and mount the CA bundle.
Needed(v) ==
    {SecretKey(v.namespace, v.pull[i]) : i \in DOMAIN v.pull}
    \cup (IF v.ca THEN {ConfigMapKey(v.namespace)} ELSE {})

\* After so many failures helm-controller gives up on this release.
Stalled == failures.of = Chart /\ failures.times > Retries

RollingOut ==
    /\ release /\ api[HelmRelease] = "present" /\ condition[OCIRepository] # {}
    /\ SpecOf(HelmRelease).namespace \in namespaces
    /\ condition[HelmRelease] # Chart
    /\ ~Stalled

\* The pods run once they have what they need ...
RollOut ==
    /\ RollingOut
    /\ \A k \in Needed(SpecOf(HelmRelease)) : api[k] = "present"
    /\ condition' = [condition EXCEPT ![HelmRelease] = Chart]
    /\ failures' = NoFailures
    /\ NoFlux
    /\ UNCHANGED <<api, label, content, namespaces, release>>

\* ... and the attempt times out while a copy is missing that cannot be made.
\* One that can is made before that.
RollOutFails ==
    /\ RollingOut
    /\ \E k \in Needed(SpecOf(HelmRelease)) :
        api[k] # "present" /\ sources[k.name] = 0
    /\ condition' = [condition EXCEPT ![HelmRelease] = {}]
    /\ failures' = [of |-> Chart,
                    times |-> IF failures.of = Chart THEN failures.times + 1 ELSE 1]
    /\ NoFlux
    /\ UNCHANGED <<api, label, content, namespaces, release>>

\* Ready turns False for a while.
Degrade ==
    /\ \E k \in Owned :
        condition[k] # {} /\ condition' = [condition EXCEPT ![k] = {}]
    /\ Upset
    /\ NoCall
    /\ UNCHANGED <<fluxVars, worldVars, api, label, content, failures, disturbed>>

\* The finalizer is done; that of a HelmRelease uninstalls the chart.
Finalize(k) ==
    /\ api[k] = "terminating"
    /\ api' = [api EXCEPT ![k] = "absent"]
    /\ label' = [label EXCEPT ![k] = FALSE]
    /\ content' = [content EXCEPT ![k] = {}]
    /\ condition' = [condition EXCEPT ![k] = {}]
    /\ release' = (release /\ k # HelmRelease)
    /\ failures' = IF k = HelmRelease THEN NoFailures ELSE failures
    /\ NoFlux
    /\ UNCHANGED namespaces

-----------------------------------------------------------------------------

\* A call goes its way, without and with trouble.
Work ==
    \/ ApplyObject \/ SourceMissing
    \/ LookUp(FALSE) /\ UNCHANGED boundVars
    \/ SkipObject \/ DeleteObject
    \/ (EndObjects \/ ListOrphans \/ EndCleaner) /\ UNCHANGED boundVars
    \/ DeleteOrphan

Trouble ==
    \/ ApplyObjectFails
    \/ LookUp(TRUE) /\ Upset
    \/ M!ListOrphansFails /\ NoWrite /\ NoView /\ Upset
    \/ Crash

Controller == Reconcile \/ RejectConfiguration \/ Work \/ Trouble \/ Return
Users ==
    \/ RequestDeletion \/ Recreate \/ ChangeConfiguration
    \/ ChangeSource \/ Drift \/ TakeOver
FluxControllers ==
    \/ FetchChart \/ Install \/ RollOut \/ RollOutFails \/ Degrade
    \/ \E k \in Owned : Finalize(k)

Next == Controller \/ Users \/ FluxControllers

Spec == Init /\ [][Next]_vars

(***************************************************************************)
(* The worker runs on; the runtime calls again after every return (after   *)
(* an error, after RequeueAfter, or after the ProviderConfig's poll        *)
(* interval); the Flux controllers do their work.  Upsets and changes are  *)
(* bounded, so from some point on there are none.                          *)
(***************************************************************************)
Fairness ==
    /\ WF_vars(Reconcile \/ RejectConfiguration)
    /\ WF_vars(Work)
    /\ WF_vars(Return)
    /\ WF_vars(FetchChart) /\ WF_vars(Install) /\ WF_vars(RollOut)
    /\ \A k \in Owned : WF_vars(Finalize(k))

FairSpec == Spec /\ Fairness

-----------------------------------------------------------------------------
(* Properties *)

Wanted(s) == {PlanOf(s).objects[i].key : i \in DOMAIN PlanOf(s).objects}

\* The clusters hold what settings s ask for, and nothing labelled besides.
InPlace(s) ==
    /\ \A k \in Wanted(s) :
        api[k] = "present" /\ label[k] /\ content[k] = Desired(k, s)
    /\ \A k \in Keys \ Wanted(s) : label[k] => api[k] # "present"

\* A call that nobody interfered with and that sets the status to Ready has put
\* everything in place: copies hold the data of their sources, no previously
\* copied secret or config map is left over, no error is covered up although
\* unchanged objects still report Ready (flux_controller.go:65-73).
ReadySound ==
    (phase = "returned" /\ ~isDeletion /\ Outcome = "Ready" /\ ~disturbed)
        => InPlace(Setting)

\* Copies that settings s may ask for; the cleaners of their call know of no
\* others.
CopiesOf(s) ==
    {SecretKey(ns, x) : ns \in {Tenant, s.fv.namespace}, x \in Secrets}
    \cup {ConfigMapKey(s.fv.namespace)}

\* Of these, at least, ReadySound holds whatever namespaces the versions are
\* deployed to: what is wanted is in place, and what previous configurations
\* have left there is gone (flux_controller.go:65-73, secret.go:140-149).
ReadySoundHere ==
    (phase = "returned" /\ ~isDeletion /\ Outcome = "Ready" /\ ~disturbed)
        => /\ \A k \in Wanted(Setting) :
                api[k] = "present" /\ label[k] /\ content[k] = Desired(k, Setting)
           /\ \A k \in CopiesOf(Setting) \ Wanted(Setting) :
                label[k] => api[k] # "present"

\* When a Delete call comes to the verdict that lets the finalizer go, the Flux
\* resources and the chart are gone, and of the copies those that it knows of,
\* wanted or left by previous configurations (flux_controller.go:85-90).
VerdictSoundHere ==
    M!Verdict =>
        /\ \A k \in Owned : api[k] = "absent"
        /\ ~release
        /\ \A k \in CopiesOf(Setting) : label[k] => api[k] # "present"

\* pkg/flux/manager.go:48 says of the cleaners: "OrphanCleaner removes any
\* previously managed objects that are no longer part of the desired state."
\* So no labelled copy that is not wanted any more outlives a call that ends
\* in Ready, wherever it was put.
OrphansRemoved ==
    (phase = "returned" /\ ~isDeletion /\ Outcome = "Ready" /\ ~disturbed)
        => \A k \in Keys \ Wanted(Setting) : label[k] => api[k] # "present"

\* README.md:14 promises "Status Tracking - Real-time status reporting of all
\* managed resources".  So Ready is said of what was just applied, not of what
\* the Flux controllers made of an earlier version.
ReadyMeansRolledOut ==
    (phase = "returned" /\ ~isDeletion /\ Outcome = "Ready" /\ ~disturbed)
        => /\ condition[OCIRepository] = content[OCIRepository]
           /\ condition[HelmRelease] = Chart

\* When the finalizer of the Flux object comes off, nothing of it is left: no
\* HelmRelease, no OCIRepository, no chart in the control plane, and no
\* labelled copy that is not at least being deleted (flux_controller.go:85-90).
NothingLeft ==
    stage = "gone" =>
        /\ \A k \in Owned : api[k] = "absent"
        /\ ~release
        /\ \A k \in Keys : label[k] => api[k] # "present"

\* The calls of the controller are calls of the object manager: whatever else
\* happens around them, a call starts, is cut off and ends only as Manager
\* allows it, the clusters change under it as Manager expects, and the
\* finalizer goes with Manager's verdict and not without it
\* (flux_controller.go:57-105).
RunsManager == M!Spec

\* The controller keeps the promise of Teardown, with the finalizer as the
\* announcement: a HelmRelease is not brought back after it, and the
\* OCIRepository never goes before the HelmRelease (flux.go:149).
T == INSTANCE Teardown WITH cleared <- (stage = "gone")
PromiseKept == T!Spec

\* What users made for themselves is left alone, also where copies are put and
\* cleaned up (secret.go:140-149, configmap.go:127-136).
ForeignUntouched ==
    [][\A k \in Foreign : api'[k] = api[k] /\ content'[k] = content[k]]_vars

\* What a cleaner deletes bears the label.  It deletes by name what it has
\* listed some requests ago (secret.go:140-149), so an object under a copy's
\* name that is not labelled may only go if it lost the label, or took the
\* place of one that had it, while the call was running.
CleanersSpareUnlabelled ==
    [][\A k \in orphans \ orphans' :
        (phase = "cleaners" /\ phase' = "cleaners"
            /\ api[k] = "present" /\ api'[k] # "present")
        => label[k] \/ disturbed]_vars

\* A call that applies never takes away what it is to put in place, whatever
\* requests fail and whatever others do to the clusters and sources meanwhile:
\* the cleaners and the objects of a manager, which are built from the same
\* references in different places (flux_controller.go:153-231), agree.
WantedSurvive ==
    [][phase # "idle" /\ ~isDeletion /\ callVars' # callVars =>
        \A k \in Wanted(Setting) : api[k] = "present" => api'[k] = "present"]_vars

\* Deletion terminates, also when source secrets are gone or changed.
EventuallyReleased == stage = "deleting" ~> stage # "deleting"

\* A configuration that no manager can be built from stops deletions, but only
\* until it is repaired (flux_controller.go:80-84).
EventuallyReleasedOnceRepaired ==
    <>[](CreateObjectManager(pc, version) = "ok") => EventuallyReleased

\* In the end the clusters hold what the configuration asks for, the rollout
\* has caught up with it, and the status says Ready, and so it stays.  The
\* first copies have to wait for the namespace that the HelmRelease creates,
\* and its pods for the copies, so a call must get past objects that fail.  Only
\* a release that Helm has given up on stays as it is until it is changed.
Installable ==
    /\ stage = "live" /\ CreateObjectManager(pc, version) = "ok"
    /\ \A k \in Wanted(Settings(pc, version)) \cap Copies : sources[k.name] # 0
Converged ==
    /\ InPlace(Settings(pc, version))
    /\ condition[OCIRepository] = content[OCIRepository]
    /\ condition[HelmRelease] = Chart
    /\ status = "Ready"
Converges == <>[](Installable => Converged \/ Stalled)

\* A rollout that Helm has given up on, for a source that was missing too long,
\* is not reported as Ready once the source and the copy are there (flux.go:173,
\* flux_controller.go:68): nothing but the status tells of it.
StallShows == <>[](stage = "live" /\ Stalled => status # "Ready")

\* A configuration that cannot be deployed does not stay hidden behind the
\* Ready of an earlier one (flux_controller.go:61-64).
BrokenShows ==
    <>[]((stage = "live" /\ CreateObjectManager(pc, version) # "ok")
            => status = "Progressing")

=============================================================================
