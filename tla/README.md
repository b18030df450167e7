# csm-operator: TLA+ specifications

The CSM operator reconciles `ContainerStorageModule` objects (CRs) of Dell's CSI
and COSI drivers and of the CSM modules. These modules specify its control: when
it writes what, in which order, what it reads from which cache, and what is left
when a call fails or the operator stops. TLC checks them on small instances, and
TLAPS proves the central results for every instance.

Source paths below are relative to the repository (`src/` in `PROJECT.json`).

## The system and its parts

| Part | Source | Modelled by |
|---|---|---|
| Reconcile loop: watch, predicate, finalizer, annotations, `SyncCSM`, deletion branch | `controllers/csm_controller.go`, `main.go` | `DriverResources`, `CSMReconciler`, abstract: `CSMLifecycle` |
| Informers per CSM (`ContentWatch`) and their stop channels | `controllers/csm_controller.go` 586-676 | `ContentWatch` |
| Event handlers, `HandleSuccess`, `UpdateStatus`, `calculateState` | `pkg/operatorutils/status.go`, `controllers/csm_controller.go` 435-583 | `CSMStatus` |
| Config versions, upgrade tables, version annotation | `pkg/operatorutils/utils.go` 933-1203, `checkUpgrade` | `ConfigVersion` |
| PowerMax reverse proxy, sidecar or Deployment | `pkg/modules/reverseproxy.go` | `ReverseProxyMode`; the injected container in `PodInjection` |
| What the reconciles of several CSMs share: work queue, worker, package variable, map of watches | `controllers/csm_controller.go`, `pkg/modules/reverseproxy.go` | `OperatorProcess`, composed of `ReverseProxyMode` and `ContentWatch` |
| The driver's Deployment and DaemonSet: images, containers, volumes, environment, rules | `pkg/drivers/commonconfig.go`, `pkg/operatorutils/utils.go`, `SyncCSM` | `PodTemplates`, `PodInjection`, `DriverPods` |
| Resiliency, authorization sidecar | `pkg/modules/resiliency.go`, `authorization.go` 200-600 | `PodInjection`, `DriverPods` |
| Observability module, component by component | `pkg/modules/observability.go`, `reconcileObservability` | `Observability` |
| Authorization proxy server, NGINX and Gateway API | `pkg/modules/authorization.go`, `reconcileAuthorization` | `AuthorizationServer` |
| cert-manager (`CommonCertManager`) | `pkg/modules/commonconfig.go` | in `Observability` and `AuthorizationServer` |
| Replication module | `pkg/modules/replication.go` | objects in `DriverResources`, sidecar and rules in `PodInjection` |
| Prechecks of drivers and modules, the Secrets that pods mount | `PreChecks`, `pkg/drivers/*.go`, `pkg/modules/*.go` | `PreChecks`; one condition `valid` in `CSMReconciler` |
| Apply and delete helpers | `pkg/operatorutils/utils.go` 802-893, `pkg/resources/` | the steps of the plans |
| Images of a version, from the ConfigMap `csm-images` | `pkg/operatorutils/utils.go` | `PodTemplates`, `DriverPods`; a step that may fail in `CSMReconciler` |
| API types, logging, constants, start | `api/v1`, `pkg/logger`, `pkg/constants`, `main.go` | the fields the control depends on |

How they interact. A change of a CR reaches the work queue through an informer
cache and a predicate that lets only changes of the generation pass. One worker
takes the key, reads the CR *from the cache*, and runs `Reconcile`: prechecks,
finalizer, version annotation, `HandleSuccess`, `SyncCSM` (some twenty calls that
create or update objects), then `UpdateStatus` and `ContentWatch`. The informers
that `ContentWatch` starts call handlers, each in its own goroutine, that write
the same status. A deletion runs the same prechecks, then removes the objects and
the finalizer last. Module code keeps a few *package variables* that survive from
one CR's reconcile to the next one's.

## Conventions

`SyncCSM`, `removeDriver` and the functions of a module are straight-line lists of
calls. A module gives such a list as a *plan*, a sequence of steps `[op, obj]`
that a constant-level operator computes from the spec that was read; the worker
then takes the plan step by step, and everybody else moves between two steps. The
`op` says what the code does with an error of this call (abort, log, ignore) and
which cache the call reads. Every step of a plan can fail without effect, or take
effect and lose the answer. Objects are names; of their contents only what a
property tells apart is kept (the version of the controller Deployment, its owner,
what a workload mounts).

Definitions that end in `_mut` are deliberate bugs next to the definition they
would replace. No action uses them; they show that a property can fail.

## The modules

**DriverResources** (constant level). The objects of a driver, the order in which
`SyncCSM` applies them (`SyncPlan`), in which `removeDriver` and the deletion branch
remove them (`RemovalPlan`), the cleanup of dropped modules (`CleanupSteps`), and
`NotCovered`: what `removeDriver` does not look at.

**CSMReconciler**. One driver CR. `api` is the object in the API server, `cache` the
informer's copy, `csm` the worker's; `cacheCurrent` and `csmCurrent` say whether a copy
has the latest resourceVersion, so that an Update of a stale copy is refused. `pc`
and `plan` are the worker's position. `cluster`, `unseen` (created but not yet in
the object cache), `owner` and `installed` are the objects. Actions: the user
(`Create`, `EditSpec`, `Delete`, `ChangePrerequisites`), the caches, each step of
`Reconcile`, the failures of each, the garbage collector, and `Restart`.
`abandoned` is a history variable: the objects a removal passed over because the
code ignores the failure of that deletion, because the cached Get did not find
the object, because the module is not in the spec any more, or because
`forceRemoveDriver` is false.

**CSMLifecycle** is the promise in four phases (absent, open, held, deleting) and a
set of objects; `CSMReconciler` is shown to implement it with phase computed from
`api` and the objects being `Owed`, those of the driver that are not `abandoned`.
**CSMReconcilerProofs** holds the proofs.

**ContentWatch**. The map from CSM to stop channel, the informers that run, and the
two steps (`ContentWatch` starts, `Reconcile` registers) between which a restart can
fall. The map's key is the CSM's *name*. **ContentWatchProofs** has its proofs.

**CSMStatus**. The worker and three handlers write the status from lagging caches
under two mutexes (`dMutex` of package controllers around the handlers, `dMutex` of
operatorutils inside `UpdateStatus`). A configuration is a number. The CR is a driver's
or an authorization server's; the latter has no controller and no DaemonSet, its
`SyncCSM` writes no annotation, and the pods of some of its Deployments lack the label
`csmNamespace`, so that `informerUpdate` does not pass their events on.
**CSMStatusProofs** has its proofs.

**ConfigVersion**. `MinVersionCheck`, `IsValidUpgrade`, `checkUpgrade`, the annotation;
`NotNewer` and `ValidChange` are the reference definitions: semantic versioning's
order with patches, which the code does not compare.

**PreChecks** extends ConfigVersion. For one driver CR, `Checks` is the list of the
calls that `PreChecks` makes: the driver's own (`PrecheckPowerScale` and so on), the
PowerFlex arrays and zones, `checkUpgrade`, then one module after the other. `Mounts` is
worked out separately, from the code that renders the pods. The worker takes the
checks one by one (`RunCheck`, or `GetFails` when a Get fails with something other
than NotFound, which the code lets pass), then writes the version (`Annotate`, refused
when the CR has changed) and deploys (`Sync`). Users change the CR, its version, the
Secrets and the content of the PowerFlex Secret at any time (`EditCR`, `ChangeSecrets`).
`driver` keeps what the reconcile that deployed had read. The loops over the arrays of
the PowerFlex Secret are recursive functions (`ArraysAccepted`, `ZonesAccepted`) whose
step is the body of the loop. **PreChecksProofs** has the proofs of both modules.

**ReverseProxyMode**. Two CSMs and the package variable `deployAsSidecar` through
which both go, read twice in one `SyncCSM`. A module that a CR lists is enabled by
the precheck, whatever the CR says; a minimal CR does not list it. A deletion marks
the CR and is then reconciled in three steps, each of which may fail half way and is
taken up again by another reconcile, which may by then find the variable changed:
`RemoveDriver` (without `forceRemoveDriver` it deletes nothing), `RemoveModule`, which
deletes the proxy Deployment in either case, and `RemoveFinalizer`. `synced` is a history
variable: what the CR said when its controller was applied, until a deletion removes.

**OperatorProcess** extends ReverseProxyMode and instances ContentWatch: one work
queue and one worker take several PowerMax CSMs through both. A reconcile is `Take`,
the steps of ReverseProxyMode, the start and the registration of the watch; a
deletion is the removal in its steps and the end of the watch. A reconcile can fail at each step
and is queued again; a restart loses the variable and the map and queues every CSM.
**OperatorProcessProofs** proves that each component is implemented, and carries
what is proved of the components over to the process.

**PodTemplates** (constant level). An image is the sequence of the segments of its
path, so that `ResolveImage` (domain dropped, path retained or not) does to it what
the code does to the string. The templates of PowerFlex, PowerMax and PowerStore,
`GetController` and `GetNode`: which containers are kept, which image each gets from
ConfigMap, registry, CR or template, whose environment is replaced.
**PodTemplatesProofs** settles when resolving an image twice is harmless.

**PodInjection** (constant level). What `SyncCSM` changes in these pods: credentials and
proxy of PowerMax, optional volumes of PowerFlex, the sidecars of replication,
resiliency and authorization with mounts, volumes, variables and cluster rules.

**DriverPods**. `SyncCSM` from the CR to the applied Deployment and DaemonSet, cut where
it reads something that may have changed: `csm-images` (at the start and again by each
authorization sidecar) and the Secret `karavi-authorization-config` (twice per pod,
for the mounts and for the volumes). A failed read of the first by the sidecar is only
logged, and a failed read of the second passes for found (`InjectUnread`,
`InjectUnreadVolumes`); the worker goes on in both cases. Users edit the CR and change both objects between
the steps. `Rejected` is the API server's validation: a mount without a volume, or
two containers, volumes or variables of one name.

**Observability**. `reconcileObservability` for enabled, dropped and disabled
components, the readiness gate of the cert-manager webhook (a cached read), the
certificates that need webhook and CRDs, and the cleanup after an edit.
**ObservabilityProofs** has its proofs.

**AuthorizationServer**. `reconcileAuthorization` for v2.3 and above: server, redis,
the services, NGINX (up to v2.4) or gateway controller, Gateway and data plane
(v2.5), the waits for a controller, certificates, the deletion, and the package
variable with the config SecretProviderClass. `lingering` is a gateway controller
that has been deleted and still terminates. `unseen` are the objects the cache does not
hold yet: `ApplyObject` fails on them (the Create finds them there), `DeleteObject` takes
them for absent, and `abandoned` keeps those a reconcile passed over in this way or
because the failed deletion is only logged. **AuthorizationServerProofs** has its proofs.

`MC*` modules define the constants of the instances, nothing else.

## What TLC checks

| Run | Instance | Shows |
|---|---|---|
| `reconcile_modules` | PowerStore; both modules and the DR CRD on and off; 2 edits, 1 failure or restart | `ObjectsUnderFinalizer`: an object of the driver that is not abandoned is protected by the finalizer of an existing CR. `ModulesRecorded`: the applied-configuration annotation is written before a module is applied, so the cleanup never misses one. `Lifecycle`: refinement of `CSMLifecycle` |
| `reconcile_recreate` | COSI; `forceRemoveDriver` unset and false; the CR is created twice; the object cache lags | `IInv`, the inductive invariant, where stale copies of a predecessor exist. `CreatesOnlyUnderFinalizer`: nothing is created once the finalizer is gone |
| `reconcile_live` | PowerFlex; modules and metrics; 1 edit, 1 failure | `DeletionCompletes`, `Converges` |
| `content_watch_same_name` | two CSMs of one name in two namespaces | **violated**: `DeployedAreServed` |
| `status`, `status_live` | a driver with 1 replica, and an authorization server up to v2.4; 2 configurations for safety, 1 for liveness; 2 workload changes | the last successful configuration of a driver was applied; handlers return; the reported state settles on the true one, for an authorization server only thanks to the resync |
| `prechecks` | all six drivers with certificate settings, modules and PowerFlex arrays; five versions whose minima are two releases back, one version without a table; 1 change, 1 failed Get | `MountedWereFound`: pods mount only Secrets that were looked for. `ArraysUsable`: the single-pass loops establish what they are for. `VersionsAccepted`: the recorded version changes as `ConfigVersion` says (refinement). `AcceptedIsValid`, `Undoable`: accepted changes are valid by the full order and can be undone |
| `operator_process` | two CSMs of different names that list the module and state the mode, an unparsable value and `forceRemoveDriver=false` included; 3 edits, any deletions, 1 failure or restart, 9 watches | `DeployedAsAsked`, `ProxyPresent`: each is deployed in its own mode with its proxy, until its deletion begins to remove them. `NoLeakedWatch`, `NoClosedChannelKept`: no informer leaks, no stop channel is closed twice. `DeployedAreServed`; `AllServed`: in the end every CSM is deployed and its events are handled, or it is gone |
| `driver_pods` | seven CRs of PowerFlex, PowerMax and PowerStore with modules in different order, registry, own images, SFTP, metrics and credentials; three contents of `csm-images`, one invalid; 1 edit, 2 changes, 1 failure | `RejectedOnlyIfRaced`: the pods are accepted, unless the Secret came, went or could not be read between its two reads. `ModulesAsAsked`: they have the sidecars and rules of exactly the enabled modules. `ImagesByPriority`: each image is the one the documented priority gives, whichever of six functions picked it. `OneDriverImage`: all containers of the driver run one image. `Deploys` |
| `observability` | PowerStore (three components, two certificates), 3 edits, 2 failures | `ComponentsRecorded`, `Converges`, `DeletionCompletes` |
| `authorization` | upgrade and downgrade between v2.4 and v2.5, old component name included, 2 edits, 1 failure; the cache may be behind on the Gateway and the data plane | `SettledAsAsked`; `RemovedForGood`: a deletion leaves nothing its plan deletes but what the cache did not hold; `Converges`, `DeletionCompletes` |
| `authorization_own_gateway` | the v2.5 sample without the gateway component | **violated**: `OwnGateway` |

Why these bounds are enough to meet the interesting cases:

- *Edits.* Two edits are a module switched off and on again (or an upgrade and its
  rollback) at any two points of a reconcile; a third adds nothing but another round,
  because nothing but the annotation, the finalizer, the objects and the package
  variables survives a reconcile.
- *Failures.* One failure or restart can fall on every step of every reconcile; the
  reconcile that follows starts from the partial result. Two in `observability`
  let the webhook go down during a retry.
- *Re-creations.* Two uids are what a stale copy of a predecessor needs.
- *Drivers.* The plans differ by driver in the node part (absent for COSI), the DR
  CRD (PowerStore) and the metrics objects (PowerFlex); the three instances have
  one each. The proofs hold for every driver.
- *Changes during the prechecks.* One change is enough to fall between any two
  reads of one reconcile; the Secrets start complete or with one missing. Nothing
  survives a refused reconcile.
- *Versions.* Four consecutive releases, one of them with two patches: upgrades and
  downgrades that are accepted, that are too long and that change only the patch all
  occur. The proofs hold for every table.
- *Several CSMs.* Two are enough for one to come between two steps of the other's
  reconcile as far as the single worker allows it, and for the package variable to
  hold the other's mode. Three edits create both CSMs and change one, or create one
  again after its deletion; the one failure falls on any step of a sync or a removal.
  Nine watches are more than these can start, so that bound cuts nothing off. The proofs
  hold for any number.
- *Lag of the object cache.* In `authorization` the cache may be behind on the two objects
  whose order of deletion matters, the Gateway and the data plane; `Lagging` names them.
  With NGINX added the run passes too (901,132 states), and the proofs hold for every set.
- *Pods.* One change falls between any two reads of one `SyncCSM`; the second undoes
  it or meets the retry. The edit switches between CRs of all three drivers, so the
  pods of one spec are replaced by those of any other. `OpenShift = TRUE` takes
  the branch that removes a volume of the PowerFlex nodes.
- *Events.* One event held per informer is enough for a handler to be behind; the
  later ones only repeat it.
- `OpenShift = FALSE` in `authorization`, because OpenShift skips the ingress and
  gateway controllers this run is about.

`CHECK_DEADLOCK FALSE` is set where the operator may rest: no CR, nothing queued, or a
CR that the checks refuse.

### Fairness

- Weak fairness of the worker: the controller's goroutine takes what is queued, and
  an error or `Requeue` puts the key back, with backoff, without end.
- Weak fairness of caches, kubelet and workload controllers, garbage collector: the
  operator relies on them and has no other way to make progress.
- Strong fairness of handlers and worker in `CSMStatus`: they compete for mutexes
  that others take again and again; Go's mutexes enter starvation mode and hand
  the lock to the longest waiter.
- Strong fairness of `Take` for each CSM in `OperatorProcess`: the work queue is first in,
  first out, and the delay of a failed key ends, so that no CSM is passed over for
  ever although the worker is busy with others in between. Its failures are those
  that return an error; a failed read of the CR drops the request (see below).
- Failures, restarts and outages are never fair; they are bounded by `MaxFaults`.
- `reconcile_live` leaves out `GetError` (`GetMayFail = FALSE`): the code drops the
  request when reading the CR fails, and no fairness brings it back (see below).

## What is proved

TLAPS checks, without bounds on edits, failures, re-creations, and for every
driver, set of specs and table that satisfies the assumptions of the module
(`ConstantsAssumption`, `TablesAssumption`):

| Module | Theorem | Statement |
|---|---|---|
| CSMReconcilerProofs | `Invariance` | `Spec => []IInv` |
| | `TypeCorrect` | `Spec => []TypeOK` |
| | `Protected` | `Spec => []ObjectsUnderFinalizer` |
| | `NoCreationWithoutFinalizer` | `Spec => CreatesOnlyUnderFinalizer` |
| | `RecordedAhead` | `Spec => []ModulesRecorded` |
| | `ImplementsLifecycle` | `Spec => Lifecycle` |
| CSMStatusProofs | `TypeCorrect` | `Spec => []TypeOK` |
| | `SuccessfulApplied` | `Spec => []SuccessfulWasApplied` |
| | `MutexesHeld` | the two mutexes are held exactly while they are needed |
| PreChecksProofs | `ValidUpgradeIsValidChange` | `IsValidUpgrade(a, b) <=> ValidChange(a, b)` for supported versions |
| | `ChangesAreValid`, `ChangesAreUndoable` | `Spec => []AcceptedIsValid`, `Spec => []Undoable` |
| | `ChecksTypes` | `ChecksSpec => []ChecksTypeOK` |
| | `ArraysAreUsable` | `ChecksSpec => []ArraysUsable` |
| | `ReconcilesAcceptVersions` | `ChecksSpec => VersionsAccepted`, the refinement of `ConfigVersion` |
| | `RecordedVersionsValid` | `ChecksSpec => [](AcceptedIsValid /\ Undoable)` |
| | `MountedAreFound` | if no CR is one of three exceptions: `ChecksSpec => []MountedWereFound` |
| ObservabilityProofs | `ObservabilityInvariance` | `Spec => []ObsInv` |
| | `TypeCorrect`, `AnnotationNamesAll` | `Spec => []TypeOK`, `Spec => []ComponentsRecorded` |
| AuthorizationServerProofs | `TypeCorrect` | `Spec => []TypeOK` |
| | `SettledRight` | `Spec => []SettledAsAsked` |
| | `RemovedStaysRemoved` | `Spec => []RemovedForGood` |
| ContentWatchProofs | `WatchesBounded`, `DeployedServed` | no watch leaks, no closed channel is kept; with distinct names every deployed CSM is served |
| OperatorProcessProofs | `ModesAsAsked`, `ProxyThere` | if every CR states the mode: `Spec => []DeployedAsAsked`, `Spec => []ProxyPresent` |
| | `ComponentsImplemented` | `ProcessSpec` implements the specifications of both components |
| | `ProcessTypes`, `WatchesDoNotLeak`, `ChannelsStayOpen`, `ProcessServes`, `ProcessCorrect` | each safety invariant of `operator_process`, and all together, for any number of CSMs |
| PodTemplatesProofs | `ResolvedAgain` | resolving an image twice is resolving it once, if and only if `SafeTwice` |

**The argument.** `ObjectsUnderFinalizer` is not inductive. The worker applies
objects on the word of a copy of the CR that may be old, so one has to know what an
old copy proves. `FinalizerInv` says it: a copy with the finalizer and without
deletion mark, however stale, shows that the CR still exists with its finalizer,
because only a removal clears it, a removal starts from a copy that has the
mark, and a marked CR is never unmarked (`StaleCopiesInv`, which needs uids to tell
a CR from its successor). `ControlInv` ties the copy to the worker's position: what
applies objects has seen the finalizer and no mark. For the other direction, that
the finalizer goes last, `RemovalInv` says that a removal under way still plans to
delete everything that is owed and that the release is the plan's last step; it
rests on `RemovalPlanCovers`: the plan of every driver and
spec deletes all of the driver's objects, or disowns them. For COSI it also needs
that no node object was ever applied.

The refinement then needs one lemma for an Update of the CR (it holds the CR,
releases it with nothing owed, or is not seen) and one for an applied object.

`ModulesRecorded` says that the annotation names every module whose controller is
owed. `RecordInv` strengthens it relative to `IInv`, by the place of the step
that saves the annotation (`SyncRecord`). Before the save, what is owed and will not be
named by the new annotation is still to be removed by the worker's plan, which holds
because `CleanupSteps` is computed from the old annotation and comes first. After it,
the annotation is the spec the worker applies. This holds of a worker whose copy is
current; a stale one is refused at the save and has applied no controller before it.
`RemovalRecord` covers a removal: it still plans to delete every controller owed. The
lemmas on plans (`SyncPlanSavesAhead`, `RemovalPlanRemoves`) need no induction: a plan
is a concatenation of a few parts, and the save has one place in it.

For the watches, `WatchInv` adds to the statement that each channel in the map, and the
one the worker is about to store, is open and was started for that very name; so
storing or closing one never touches another. `DeployedServed` also needs
`DistinctNames`, which is what `content_watch_same_name` takes away. For the mode,
`ModeInv` says that between the precheck of a CSM and the last use of the variable it
holds the mode of this CSM; it needs `ModeStated`, which the two counterexamples with
`WithMinimal` and `WithDefault` take away. `WorkerInv` says what a removal rests on: its CR
is marked and has the finalizer, and past `RemoveDriver` nothing counts as synced any more,
so deleting the proxy takes it from no controller the property speaks of.
`ComponentsImplemented` maps every step of the
process to a step or a stutter of each component; the invariants then carry over.
`ProcessCorrect` assumes `ModeStated`, some CSM, and that `NoChannel` is not a number.

For versions, `TablesAssumption` is the one fact about the shipped tables: a minimum
is the first version of a release (patch 0), and all patches of a release have the
same one. Without it the comparison that ignores patches is wrong in either
direction. TLC evaluates the assumption on the tables of `MCVersion`.

`SuccessfulWasApplied` is about numbers that travel through copies. `NoneAhead` says of a
driver that no copy of the CR, in the cache, with the worker or with a handler, however
old, has a later configuration as applied or as successful than the CR has as applied;
so whatever copy is written back, the property holds. It needs that an up-to-date
copy has what the CR has (`UpToDate`), since the worker writes the annotation from its copy.

For the prechecks, `ChecksInv` says of a check that is not to be done any more that what it
looked for is `Established` in what the reconcile has read. What a check establishes
about the arrays is a fact about a loop: `ArraysAcceptedMeans` and `ZonesAcceptedMeans`
show by induction over the length of the list that the state of the loop after n
arrays holds what the property says of the first n. Mounts and checks come from
different parts of the code, and `MountedAreFound` compares them mount by mount. It needs
that no CR is one of three exceptions (`Covered`), and these are the ones in the table
below: there are no others.

`ObsInv` strengthens `ComponentsRecorded` by the shape of the plan (`Ordered`: removals,
the save, everything else). Before the save, what exists and is not to be removed is
named by the copy of the CR that the save will record (`SaveIsSafe`); after it, the
annotation is that copy, and the plan applies nothing else (`PutsRecorded`). `SyncFacts`
is the reason: what the annotation names and the new spec does not, the cleanup removes,
certificates included.

`AuthInv` says of the authorization server that, unless the key is queued again, every
step of the plan for the CR as it is is still ahead of the worker or `Done`; when
nothing is queued or planned, all are. That the steps do not undo each other is a matter
of the plans: the data plane, which a gateway controller on its way out could make again,
is deleted after the Gateway (`Followed`), and the release comes last (`ReleasedLast`).
A deletion is `Done` when the object is gone or `Missed`: passed over because the cache did
not hold it, or the data plane of a Gateway that was passed over. It stays `Done` because
`abandoned` only grows within a reconcile, and nothing is put into the cluster by a removal.
The proof settled a detail of `SettledAsAsked`: NGINX is absent only where the
operator deploys the gateway itself (`DeploysGateway`).

**Induction over data.** `NatSetInduction` (in PreChecksProofs) is derived from the well-foundedness of
the order on Nat, in a form that has a set in place of a predicate; `StepFunction` shows that a
recursive function on 0..n satisfies its equation. With these, the loops are proved for
lists of any length. Plans built with `FlattenSeq` are reasoned about for as many parts as
a module has (at most three components).

**Only model-checked.** Liveness and everything that needs fairness (`Converges`,
`DeletionCompletes`, `HandlersReturn`, `StateSettles`, `AllServed`, `Deploys`) is outside the
prover. `DriverPods` is model-checked as a whole: its pods are records of sequences of
records that up to ten operators change one after the other, with `SelectSeq` and
operators as parameters (`MapNamed`), about which the provers cannot reason.

## Where code and text disagree

Two runs show a disagreement and are described under `findings` in `PROJECT.json`:

- *Content watch* (`csm_controller.go`, stop channels keyed by name): deleting one of
  two CSMs with the same name in different namespaces stops the informers of the
  other, whose status is no longer updated by events.
- *Own gateway* (`authorization.go` 1794): a v2.5 CR that disables the gateway
  component, as the sample allows for users with a gateway of their own, waits for
  the operator's own gateway controller in every reconcile; the HTTPRoute is never
  created.

Other claims of comments, samples and messages are stated as properties as well
and do not hold. They are not part of the runs; with these constants TLC refutes them:

| Property | Constants | What happens |
|---|---|---|
| `CSMReconciler!AllResourcesRemoved` | `reconcile_modules`, 1 edit | a module dropped from the spec just before the deletion is left: `removeDriver` looks only at the spec it reads (`csm_controller.go` 1537) |
| `CSMReconciler!KeptDeploymentNotCollected` | `ForceSpecs`, 1 failure | with `forceRemoveDriver=false` a failed removal of the ownerReference is only logged, and the Deployment is collected (321) |
| `CSMReconciler!OnlyValidUpgrades` | `VersionSpecs`, `StepwisePairs`, 2 edits | the version annotation is written before the version is installed, so two edits skip a release (368) |
| `CSMReconciler!ReadErrorsRequeued` | `FairSpec`, `GetMayFail = TRUE` | "requeue the request", but the error is not returned (264-267) |
| `CSMStatus!ControllerStatusIsControllers` | `Observability = TRUE`, `Replicas = 2` | the counts of any Deployment with the CSM's label are written as the controller's (476) |
| `CSMStatus!SuccessfulOnlyWhenSucceeded` | as `status` | a handler with a stale copy writes an older last successful configuration while it reports Failed (`status.go` 338) |
| | `Kinds = {"authorization"}` | `HandleSuccess` finds no Deployment of a new authorization server missing, puts the spec into the worker's copy as last successful, and the report that follows writes it with Failed (`status.go` 272-281) |
| `CSMStatus!StateSettles` | as `status_live`, `Kinds = {"gateway"}` | `authProxyStatusCheck` looks for `<namespace>-nginx-gateway-controller` (686), the Deployment is `<namespace>-nginx-gateway-fabric`: while it is down, its own events report Failed and all other events Succeeded |
| `ConfigVersion!NoMajorSwitch` | `AuthServer = TRUE`, `AuthVersions`, `AuthMinPath` | the switch between authorization v1 and v2 is logged and carried out (1887-1892, 1787-1790) |
| `ConfigVersion!MinVersionCheckIsOrder` | `DriverVersions`, `DriverMinPath` | patch numbers are not compared (`utils.go` 933); harmless under `TablesAssumption` |
| `ReverseProxyMode!ProxyPresent` | `WithMinimal` (in `MCOperatorProcess`) | a CSM without the module takes over the mode another CSM left and may get no proxy |
| `ReverseProxyMode!DeployedAsAsked` | `WithDefault` | a module that does not state the mode takes over the one another CSM left |
| `PreChecks!MountedWereFound` | `PowerStoreAuthSecret` | "the name of the credentials secret for the driver" (`types.go` 232) is looked for, but the pods mount `<name>-config` |
| | `PowerFlexCommon` | with two or more common variables the pods mount `<name>-certs-0`, which no check looks for (`powerscale.go` 122) |
| | `PowerMaxMinimal` | the pods mount `csirevproxy-tls-secret`; only the precheck of a listed module looks for it |
| `AuthorizationServer!AllRemoved` | as `authorization` | the Ingress of v2.4 after an upgrade, the gateway objects after a downgrade |
| `AuthorizationServer!ConfigOptional` | as `authorization` | without the config component the SecretProviderClass of an earlier spec is mounted |
| `DriverPods!ImagePathRetained` | `MirrorCRs`, `NoMap`, no edits, changes or failures | "Running it again would double-resolve the image" (`commonconfig.go` 262): `mdm-container`, `sdc` and `karavi-authorization-proxy` are resolved twice and get `mirror.io/csm/csm/...` when the registry has a path that is retained (`commonconfig.go` 571, 594, `authorization.go` 458, 547) |

Premises to note in the properties that do hold: `ProxyPresent` ends with the beginning of
the deletion, because `forceRemoveDriver=false` keeps the controller and still deletes the
proxy Deployment it connects to (`powermax.go` 153 sets `forceRemoveModule`), and a removal
that fails half way leaves one without the other; `DeletionCompletes` of `CSMReconciler`
has `<>[]valid`, because the prechecks also run on deletion; in `Observability` and
`AuthorizationServer` the kinds of cert-manager must be known (a Delete of an unknown
kind is an error, not NotFound). In `DriverPods`, two premises stand for behaviour a
reader may not expect. `Mountable` excludes PowerMax with authorization, without the
Secret `karavi-authorization-config` and without mounted credentials, where the sidecar
mounts a volume that is not there; and the variables `SKIP_CERTIFICATE_VALIDATION=true`
with `INSECURE=false`, where one function keeps the mount and the other removes the
volume. Both are rejected in every reconcile. `RejectedOnlyIfRaced` allows one
rejection, which is retried, when that Secret is deleted between its two reads, or does
not exist and the first read failed for another reason, which `GetSecret` takes for found.
`ImagesByPriority` lets `karavi-authorization-proxy` have the image of a cluster without
`csm-images` when the sidecar's read of it failed, and leaves out the images `ImagePathRetained` is about and the second
sidecar of a module that lists only the other one (`Unlisted`).

The model of the pods also keeps, without a property against it: `GetNode` drops
the environment that a CR gives a node sidecar (`NodeSideCar`); node variables
without `X_CSI_SDC_SFTP_REPO_ENABLED` keep the volume `sftp-keys`, which `node.yaml` 403
says is removed; and the authorization sidecar, which reads `csm-images` once more,
may get its image from a later content than the other containers.

## What is assumed and not modelled

- API server, garbage collector, workload controllers, informer caches, cert-manager
  and the gateway controller are external; they are modelled from what the operator
  relies on. The CRDs of the Gateway API and the Secret `karavi-config-secret` are
  there. Authorization below v2.3 is not in the shipped configuration.
- Of the driver's pods: arguments, annotations, tolerations, node selectors, and the
  templates of PowerScale, Unity and COSI. They are copied from the CR or the
  template, and no control depends on them. Sidecars and volumes that the code treats
  alike are represented by one.
- The contents of the modules' own manifests (observability, authorization server,
  replication controller, reverse proxy Deployment) and their images. Topology and the
  secrets of observability up to v2.14.
- Each module has one CR, except `ContentWatch`, `ReverseProxyMode` and `OperatorProcess`.
  Objects that several CRs share (replication controller, cert-manager, IngressClass)
  are listed as hazards: the code deletes them with the first CR that goes, and says
  nothing of the others.
- The redis Secret's checksum, and what `ApplyObject` does with Forbidden and Invalid
  answers. These too are listed as hazards.
- In `PreChecks`: the custom registry, the owner reference of an existing Deployment,
  the configVersion of a module, `karavi-authorization-config` (authorization below
  2.4.0), and the MDM addresses handed to the SDC container.
- In `DriverResources` and `CSMReconciler`: the steps of the PowerMax reverse proxy, which
  `ReverseProxyMode` has; the runs use other drivers.
- In `Observability`: the cached Get of `DeleteObject` and `forceRemoveDriver=false`. Both
  would only add to `abandoned`, which `ComponentsRecorded` leaves out.
- In `DriverPods`: the rules that resiliency adds to the Role (not the ClusterRole) of the
  nodes (`resiliency.go` 120-164).
- In `CSMStatus`: the second result of `calculateState` (`status.go` 227-229, 355). It is an
  error only when the DaemonSet could not be read; its counts are then empty, the driver
  is not running, and `UpdateStatus` returns an error for that already.
- In `AuthorizationServer`: the package variables with the custom certificate
  (`authorization.go` 1993-2001). Every CR lists the proxy-server component, and so sets
  them before they are used.

## Plan

Done, in this order: reconcile loop with proofs; content watch; status; versions with
proofs; reverse proxy; observability; authorization server; life cycle with proof;
prechecks; the driver's pods; the process shared by several CSMs, with proofs of it
and of its components; the proof that modules are recorded ahead; the status of
authorization servers; the proofs of status, prechecks, observability and
authorization server.

Next:

1. *Shared objects*: two CRs that share the replication controller, cert-manager
   and the DR CRD; what the deletion of one takes away from the other.
2. *Redis secret*: its checksum is read once per workload; pods with different
   passwords after a rotation.
3. *Proofs*: the safety invariants of `DriverPods`.
