# TLA+ models of service-provider-flux

The service provider installs Flux into managed control planes. A user creates
a `Flux` object with a version; the controller copies pull secrets and a CA
bundle, creates an `OCIRepository` and a `HelmRelease` on the platform cluster,
and the Flux controllers there install the chart into the control plane. On
deletion everything goes in the opposite order before the finalizer comes off.

## The system

| component | source | state it keeps | operations | what makes it correct |
|---|---|---|---|---|
| object manager | `pkg/flux/manager.go`, `managedobject.go`, `managedcluster.go` | nothing between calls; within a call the list of results | `Apply`, `Delete`, `AddCluster`, `AddCleaner`, `AllDeleted` | dependents go first; "all deleted" is true when said; every object is attempted; deletion ends |
| Flux controller | `internal/controller/flux_controller.go` | nothing; writes `status` of the `Flux` object | `CreateOrUpdate`, `Delete`, `createObjectManager` | Ready only when everything is in place; nothing left when `Delete` succeeds; broken configurations show |
| Flux resources | `pkg/flux/flux.go` | `OCIRepository`, `HelmRelease` in the tenant namespace | `ManageFluxResources`, `FluxStatus` | contents follow the ProviderConfig; status is that of the object |
| secret copies | `pkg/flux/secret.go`, `objectutils.go` | labelled secrets in two clusters | `ManagePullSecrets`, `SecretStatus`, cleaner | copies equal their sources; old copies go; users' secrets stay |
| CA copy | `pkg/flux/configmap.go` | one labelled config map | `ManageCaConfigMap`, `ConfigMapStatus`, cleaner | the same |
| helm values | `pkg/flux/helm.go` | none | `ExtractHelmValues`, `AddCAToHelmValues` | every controller gets the bundle, users' mounts keep working |
| API types | `api/v1alpha1` | the ProviderConfig and Flux objects | defaulting | (inputs) |
| start-up | `cmd/service-provider-flux/main.go` | CRDs, access requests, the lease of the leader | `init`, `run` | the job installs the CRDs; the controller comes up with a client; one active controller |
| runtime, Flux controllers, API server | external | queue, finalizers, releases | calls again, releases the finalizer, installs and uninstalls | (environment) |

How they interact: the runtime calls the controller with a snapshot of the
`Flux` object and of the ProviderConfig. The controller builds a manager from
them, which goes through the objects one by one, and then through the cleaners,
with one API request after the other. It returns the results, from which the
controller computes status and verdict. `Delete` returning without error and
without a requeue makes the runtime drop the finalizer.

What is hard: a call consists of many requests, and everything around it moves
between them (finalizers, the Flux controllers, users, operators, rotated
secrets). Requests fail before or after they took effect. The process may
crash. Nothing is remembered, so every call starts from what is in the
clusters, and the one irrevocable step, letting go of the finalizer, rests on
results that may be old. The copies need a namespace that the HelmRelease
creates, which comes after them in the list, and whose pods need the copies.

## Modules

| module | models | corresponds to the code |
|---|---|---|
| `Teardown` | the promise: while "cleared" stands nothing owned exists, dependents go first | the deletion promise of `docs/overview/manager-pattern.md`, without any mechanism |
| `Manager` | the engine of `manager.go` with the cleaners | one action per request; see below |
| `MCManager` | three configurations of it for TLC | |
| `ManagerProofs` | theorems about `Manager` | |
| `FluxReconciler` | controller, copies, cleaners, status, finalizer, ProviderConfig, Flux controllers; uses `Manager` by INSTANCE for the course of a call | |
| `MCFluxReconciler` | ProviderConfigs for TLC | |
| `FluxReconcilerProofs` | theorems about `FluxReconciler`: types, refinement of `Teardown` and of `Manager`, users' objects | |
| `OutcomeProofs` | theorems about what the end of a call says about the clusters | |
| `HelmValues`, `MCHelmValues` | `AddCAToHelmValues` and its inputs | |
| `HelmValuesProofs` | theorems about `HelmValues` | |
| `Startup` | the commands `init` and `run` of `main.go` | the two branches of `main`, `requestOnboardingClusterAccess` |
| `StartupProofs` | theorems about `Startup` | |
| `Replicas`, `MCReplicas` | two processes of `run` during a rolling update, with and without leader election; uses `Manager` twice | `main.go:306-324`, `411-416` |
| `ReplicasProofs` | theorems about `Replicas` | |

### Manager

`plan` is what a manager was built from: objects in order, with positions they
depend on and a policy, and per cleaner the keys it regards as orphans. `Call`
starts `reconcileObjects`; `pos` is the loop variable. In Apply each object is
one `CreateOrUpdate`, or `ReconcileFails` when the object's own reconcile function
returns an error (a copy's source is missing), or `CreateOrUpdateFails` when the
request does. In Delete an object takes one
`CheckForDependent` per dependent (`seen`, `blocked` are the progress and the
error list of `checkForDependents`), then one of `StillDependedOn`,
`OrphanObject`, `DeleteObject`, `DeleteObjectFails`. `Conclude` appends the
result. Cleaners list what bears the label, any subset of the orphans at
this level of detail (`ListOrphans`), and delete one by one (`DeleteOrphan`);
only a failing List ends the call early. `Verdict` is the test of
`flux_controller.go:88`. `api[k]` is absent, present or terminating; `Meddle` and `MeddleElsewhere` are what
others do to objects that are not owned, and to things that `Manager` does not look
at.

`controllerutil.CreateOrUpdate` is one step although it reads and then writes:
the write carries the resource version that was read (or is a create), so the
API server refuses it if the object changed in between, which is one of the
failures. Reads see the present state of the cluster: `clusters.Cluster.Client()`
is taken to be a client without cache. With a cached one, `CheckForDependent`
could miss a dependent and the theorems below would not apply.

### FluxReconciler

`Reconcile` begins a call, `RejectConfiguration` is the early return when no
manager can be built, `Return` computes status and finalizer from the results.
The request actions are those of `Manager` conjoined with what they do to
contents, labels and in-memory objects: `views[i]` is the phase that the status
function would compute from the in-memory object `i`, refreshed by
`CreateOrUpdate` and by the lookup of dependents, not by a deletion. `content[k]`
is what an object holds; `condition[k]` is what its Ready condition was computed
from, the model's form of `observedGeneration`. A chart pull secret's copy bears
the source's name instead of the prefixed one. `disturbed` is a history variable
that says whether others changed copies or sources during a call; properties
about the end of a call use it where they would otherwise ask for clairvoyance.

Users interfere in three ways: `Drift` deletes a copy, `ChangeSource` deletes or
rotates what it is copied from (a source may also be missing from the start),
`TakeOver` makes the object under a copy's name in the control plane a user's own,
without the label.

The Flux controllers are modelled only as far as the provider relies on them:
`FetchChart`, `Install` (creates the namespace, `flux.go:124`), `RollOut` (pods
run once pull secrets and CA bundle are there), `RollOutFails`, `Degrade`, and
`Finalize` (the uninstall). An attempt to roll out fails when a copy that the
pods need is missing and cannot be made, since its source is missing too; after
`Retries` more failures (`flux.go:126` and `132`) helm-controller gives up until
the chart or the values change (`Stalled`). That an attempt does not time out
while the copy is only waiting for the provider's next call is an assumption:
an attempt takes minutes, the provider is called again within its backoff or the
poll interval.

### HelmValues

One section per controller, three lists in it; each entry is what it is matched
by and whom it is from. `Without` is the loop that the three functions that
remove conflicts have in common, as a recursive function. `AddCA` treats the next
controller, `Fail` meets a section that does not unmarshal.

### Startup

`at[c]` is the line the process of a command has come to. `AccessFails` stands
for every error of `requestOnboardingClusterAccess`, the 30 minutes of
`main.go:245` included: it is logged, and the process goes on without a client
(`cluster[c]`). The access request outlives the process. What a library makes of
the missing client is not known from here, so both outcomes are allowed, a panic
and an error. `run` is started again whenever it ends, `init` unless it ends
without an error. The job may install any set of the CRDs when it fails.

### Replicas

`Manager` twice, on the same `api`: `O` is the call of the old process, `N` that
of the new one. `Surge` starts the new process, `Retire` stops the old one in the
middle of whatever it does, `Restart` is a crash or a lost lease, after which
`mgr.Start` returns and the process exits (`main.go:412`). The lease of a process
that has ended expires (`Expire`); it is not released (`main.go:323`).
`MayAct` says what the flag does: with `LeaderElection` only the holder of the
lease starts calls. A request that was sent before the lease was lost is taken to
be over when the other process acquires it.

## Runs

| run | bounds | shows |
|---|---|---|
| `MCManager` | 4 keys, 3 plans, 2 upsets | `CallInv`, `EveryObjectAttempted`, `VerdictSound`, refinement of `Teardown`, `EventuallyReleased` |
| `MCFluxReconciler_safety` | 2 ProviderConfigs for different namespaces, 1 secret, 1 upset, 2 changes | `ReadySoundHere`, `VerdictSoundHere`, `ForeignUntouched`, `CleanersSpareUnlabelled`, `WantedSurvive`, refinement of `Teardown` |
| `MCFluxReconciler_live` | 2 ProviderConfigs for one namespace, 1 upset, 1 change; namespace and sources may not exist at first | `ReadySound`, `NothingLeft`, refinement of `Manager` (`RunsManager`), `EventuallyReleased`, `Converges`, `StallShows` |
| `MCFluxReconciler_broken` | 3 ProviderConfigs (one lacks a version, two cannot be deployed), 2 versions, 2 changes | `BrokenShows`, `EventuallyReleasedOnceRepaired` |
| `MCHelmValues` | lists of up to 2 entries, own or conflicting; a second controller that is empty, conflicting or malformed | `CAInstalled`, `StaysValid`, `MountsKeepMeaning` |
| `MCStartup` | 3 upsets | `RunningSound`, `EventuallyRunning` |
| `MCReplicas_elected` | 2 processes, 3 keys, 2 upsets | `NothingLeft`, refinement of `Teardown` and `EventuallyReleased` across a rolling update |

Bounds: `MaxUpsets` bounds failures, lost answers, crashes, lost leases, drift
and foreign writes together, `MaxChanges` edits and re-creations. A call's
correctness depends on one object and those that depend on it, and the code's
dependency graph has one edge, so the four objects of a plan (a copy, the two
Flux resources, an orphan) show each situation; two upsets allow one to hit the
recovery from the other. A second change lets a configuration come back: in
`MCFluxReconciler_broken` it breaks and is repaired around a deletion. In
`MCFluxReconciler_live` the upset may bring a missing source back after Helm has
given up. `MCFluxReconciler_safety` changes the namespace and everything else at once,
and back, so that what one configuration leaves behind is there when the next one
is put in place. `Retries` is 1 where the code says 3: what counts is that they end.
The proofs remove the bounds for everything but liveness. In `HelmValues` two
entries are needed for a conflict by name and one by path in one list. In
`Startup` three upsets allow each process a failure and one of them a second.

`Converges` says what is not obvious from any one place of the code: the copies
need the namespace, the HelmRelease creates it, comes after them in the list, and
its pods need the copies. The one exception it has to make is a release that Helm
has given up on; nothing in the provider touches it again (`StallShows` says that
at least the status tells).

`CleanersSpareUnlabelled` leaves a window that the code leaves: a cleaner deletes
by name what it has listed before, without a precondition, so an object taken
over in between goes (`secret.go:149`, `configmap.go:136`).

`ReadySoundHere` and `VerdictSoundHere` are what remains of `ReadySound` and
`NothingLeft` when the namespace does change: both speak of the copies in the
namespaces of the call's own configuration (`CopiesOf`), and the second of the
verdict and not of the finalizer, which a withdrawn version removes without one.
So they hold in the situations in which `MCFluxReconciler_moved` and
`MCFluxReconciler_withdrawn` refute what was meant, and tell what the code still
guarantees there.

Five runs refute a statement of the repository:

| run | statement | what the code does |
|---|---|---|
| `MCFluxReconciler_withdrawn` | manager-pattern.md:88, no orphaned deployments | the version is withdrawn, `Delete` swallows the error and the finalizer goes (`flux_controller.go:83`) |
| `MCFluxReconciler_moved` | manager.go:48, cleaners remove what is not desired | not in the namespace that was used before (`flux_controller.go:217`) |
| `MCFluxReconciler_stale` | README.md:14, real-time status | Ready of the old version is reported for the new one (`flux.go:173`) |
| `MCStartup_init` | main.go:247, the job installs CRDs | one timeout, and it ends without an error and without them (`main.go:262`, `271`) |
| `MCReplicas_default` | manager-pattern.md:88, no orphaned deployments | with the default flags, the old process goes on with an Apply while the new one finds everything gone and lets the finalizer go (`main.go:132`) |

`CHECK_DEADLOCK FALSE` is set where the system may really stop: a `Flux` object
that is gone and is not created again, values that have been computed, a
controller that is up.

### Fairness

`Work` (the next request of a running call is answered), `Return`/`Take` and the
next call are weakly fair: a worker runs on, and the runtime calls again after an
error (backoff), after `RequeueAfter` (`flux_controller.go:94`) and after the poll
interval (`providerconfig_types.go:145`). Without the poll interval `Converges`
would not be justified, as `CreateOrUpdate` does not ask for a requeue when
resources are not ready (`flux_controller.go:74`). `Finalize`/`Vanish`,
`FetchChart`, `Install`, `RollOut` are the environment's part: finalizers are
done and what can be installed is. In `Startup` a process is started again by
Kubernetes and access is granted in the end; in `Replicas` a lease that nobody
holds is taken. There is no fairness for `Surge` and `Retire`: the update may stay
half done. Failures are bounded, not fair. There is
fairness neither for deletion requests nor for edits.

## Proofs

`ManagerProofs` holds for all keys, plans and numbers of upsets, under the
assumptions of `Manager`: owned objects are keys, a plan manages all of them
with the deleting policy (`Complete`), declares the dependencies in `Before`
(`Declared`), and no cleaner goes after something that an owned object depends
on (`CleanersSpare`).

* `TypeCorrect` -- `Spec => []TypeOK`.
* `CallInvariant` -- `Spec => []CallInv`. The verdict is about the clusters, the
  code looks at results: what connects them is that an owned object once found
  gone stays gone until the end of a Delete call (`DeletedAreGone`), likewise
  the dependents that were looked up (`SeenAreGone`). Neither is inductive
  without the shape of the result list (`EveryObjectAttempted`) and what holds
  between the phases (`ObjectsDone`, `OrphansAreListed`, `IdleClean`).
* `VerdictIsSound` -- from `DeletedAreGone`, `Complete` and the length of the
  results.
* `AttemptsEvery`.
* `ManagerImplementsTeardown` -- every step is a step of `Teardown` or a
  stutter. A deletion maps to `Remove`, which asks that the dependents are
  absent: that is `SeenAreGone` with `Declared`; a cleaner's deletion is covered
  by `CleanersSpare`; `Take` and `Crash` map to `Withdraw`, the last step of a
  call to `Announce`.

`FluxReconcilerProofs` holds for all ProviderConfigs, versions, secrets and
namespaces. That the plans of `createObjectManager` are plans as `Manager` wants
them is proved (`PlanFits`), so `ManagerProofs` can be instantiated for the calls
of the controller, with "the `Flux` object is being deleted" for the caller that
is leaving, and its lemmas about a step of a call are used as they are. What is
added:

* `CallOK` -- `Manager`'s invariant holds here too, where others move the clusters
  during a call, and a call runs only for a `Flux` object that exists.
* `ControllerImplementsTeardown` -- each step of a call is one of `Manager` and so
  one of `Teardown`; the finalizer comes off with a verdict only, and the verdict
  is sound by `CallOK`. It assumes `NothingWithdrawn`: `Delete` takes a version
  that is no longer offered for deleted without looking, as the run
  `flux_withdrawn` shows.
* `ControllerImplementsManager` -- under the same hypothesis, everything the
  controller and its world do is a behaviour of `Manager`. Three lemmas: the steps of
  a call (`WorkRunsManager`), its start and its end (`CallRunsManager`: `Return` maps
  to `Take`, since a verdict is only reached while the object is being deleted), and
  all the rest (`OthersRunManager`): drift and users map to `Meddle`, what only moves
  contents or sources to `MeddleElsewhere`, finalizers to `Vanish`, and a new Flux
  object, a new configuration, a rejected one and a rollout are no steps of `Manager`.
* `ControllerTypeCorrect`, `ForeignIsUntouched`, `CleanersAreSparing` -- from
  `IInv`: an object has content as long as it exists and a label only then
  (`ClustersOK`); a call's plan is that of its settings, and what a cleaner has
  listed still bears the label unless others meddled (`RunOK`).

`OutcomeProofs` shows `ReadySoundHere` and `VerdictSoundHere`, for all configurations
and without a hypothesis, and from them `ReadySound` and `NothingLeft`. All say at the end of a
call what was brought about one request after the other, so `CallsOK` adds to
`IInv` how far a call has come: cleaners have cleared all they are past unless
one failed (`OrphansGone`), a `Delete` that has all objects deleted so far left
none of them (`ObjectsGone`), a `CreateOrUpdate` without errors that nobody
disturbed has put in place what it views as Ready (`ObjectsPlaced`), and only
objects within reach of some configured settings bear a label (`MarksOK`). The core
is that every copy within reach is either wanted or falls to a cleaner
(`PlanCovers`) and none is both (`CleanersSpareWanted`). The latter also gives
`WantedSurvives`, a property of every single step of an Apply. That "within reach of
the call" is all that was ever labelled needs `OneNamespace`, that all versions are
deployed to the same namespace: the cleaners look nowhere else, as the run
`flux_moved` shows. It and, for the finalizer, `NothingWithdrawn` are the hypotheses
of `ReadyIsSound` and `DeletionLeavesNothing`, and of no other theorem of this
module. Of the constants it is assumed
that the tenant namespace is none of the namespaces copies are put in
(`TenantAssumption`; it is on another cluster).

`ReplicasProofs` instantiates `ManagerProofs` once for each process.
`ReplicasTypeCorrect` holds with and without leader election; `ElectedLeaveNothing`
and `ElectedKeepPromise` assume it. Their invariant `ElectedOK` says that a process
with a call under way holds the lease: then what one process learns is disturbed
by the other only while no call of its own is running, and the lemmas for a
single call apply to both in turn. Without the flag this is what fails, as the run
`replicas_default` shows.

`StartupProofs` holds for any number of upsets (`StartupTypeCorrect`,
`RunsSoundly`). `RunningSound` is not inductive: `StartManager` looks at the CRDs
only, so `StartInv` adds that a process that has passed `NewManager` has a client,
and that a client implies that access was granted.

`HelmValuesProofs` holds for lists of any length and any number of controllers, of
which it is assumed that none is listed twice (`ControllersAssumption`, true of
`helm.go:44-52`). `HelmValuesInstallCA`, `HelmValuesStayValid` and
`HelmValuesKeepMounts` rest on `WithoutLeaves`: what the loop leaves of a list are
exactly the entries that are not in the way, in their order. It takes two
inductions over the length of the list, one for the entries and one because the
recursive function has to be shown to exist. The library's induction theorems have
an operator as a parameter, so `NatSetInduction` is stated for sets of numbers, and
follows from the minimality theorem for well-founded relations (`WFMin`). The
invariant `HInv` says that the sections of the controllers treated so far are what
`addCAToController` makes of the user's, and that the others are as they were
given; that a section is changed once only needs that no controller is listed twice.

Only model-checked: all liveness, which the proof system does not reach
(`EventuallyReleased`, `Converges`, `StallShows`, `BrokenShows`,
`EventuallyReleasedOnceRepaired`, `EventuallyRunning`).

## What the models tell besides

* During a normal deletion the status is Progressing with a reconcile error most
  of the time: "dependent object still exists" counts as an error of the object
  that waits (`manager.go:118-124`), and the retry is a backoff, not the five
  seconds of `flux_controller.go:94`.
* `Delete` removes the copies at once, before the uninstall is through.
* A ProviderConfig that becomes malformed blocks deletion until it is repaired,
  as `Delete` needs a manager built from it.
* Apply goes on to the HelmRelease after the OCIRepository it depends on has
  failed (`manager.go:153`), unlike what `docs/overview/manager-pattern.md:37`
  says. `Converges` holds all the same, as helm-controller waits for the source.
* An object under the orphan policy that depends on a deleted one would block the
  deletion for good (`manager.go:118`). Nothing in the code uses the policy; the
  plans checked have an orphaned object that depends on nothing.
* An object whose deletion was requested in this call is reported as Pending, not
  as Terminating (`manager.go:136` deletes without reading the object back).
* An image pull secret's copy has the source's name without a prefix: an object a
  user has under that name in the control plane is overwritten, labelled, and
  deleted with the Flux object (`secret.go:69`). `TakeOver` makes it happen.
* `OCIRepository` and `HelmRelease` are owned by the provider alone; all results
  rest on nobody else creating objects of these names in the tenant namespace.

## Not modelled

Left out: generated code and embedded CRDs (no behaviour of their own),
flags, certificates, metrics and the debug switch of `main.go`, wording of
conditions and messages, access to the control plane (granted by the external
runtime before a call), truncation of long secret names, and duplicate pull secret
references, which the object list treats as one object written twice.
