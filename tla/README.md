# Alibaba Cloud CSI operator: specifications, checks and proofs

TLA+ modules that model the operator of this repository, TLC configurations
that check them on small instances, and proofs of the main properties that
TLAPS checks for every value of the constants. Everything is translated from
`src/internal/controller/alibabacloudcsidriver_controller.go` (called *the
controller* below), `src/api/v1alpha1/alibabacloudcsidriver_types.go` and
`src/cmd/main.go`.

    tlc -workers 2 -config Reconciler.cfg MCReconciler      # a run
    tlapm ReconcilerProofs.tla                              # the proofs

## 1. The system

The operator watches a cluster-scoped custom resource, `AlibabaCloudCSIDriver`
(the *CR*), and makes the cluster hold what the CSI drivers for disk and NAS
need. One worker reconciles; it reads the CR once, writes some ten to twenty
objects one after the other, and patches the status.

| Component | State | Operations | Hard behaviour |
|---|---|---|---|
| reconcile loop (`Reconcile`, `SetupWithManager`) | the work queue; the copy of the CR being worked on; where in the plan it is | start, step, stop at the first error, report, requeue | the copy is stale as soon as it is read; the CR may be edited, deleted or recreated under it; the manager may die between two steps |
| plan (`ensureRBAC`, `ensureDiskDriver`, `ensureNASDriver`) | none: a function of the spec | which object each step writes, with which helper, in which order | the order carries meaning: RBAC before workloads, snapshot class before StorageProfile |
| apply helpers (`createOrAdopt`, `createOrUpdate`) | the copy read, its resourceVersion, attempts made | Create, Get from the informer cache, Update; retry on conflict | a cache that lags, lost answers, concurrent writers, two managers |
| status (`buildConditions`, the patch in `Reconcile`) | `status` of the CR | merge patch against the copy read | the patch has no precondition; its time stamp makes it an event of its own |
| admission backend (`sccAvailable`, `ensureSCCBinding`, `ensurePrivilegedNamespacePSA`) | labels of `kube-system`; the RESTMapper's cache | ask the mapper, discover afresh, bind or label | the mapper keeps a miss for the life of the manager; a failed discovery looks like a cluster without SCC |
| snapshot class and CDI profiles (`ensureVolumeSnapshotClass`, `ensureStorageProfile`) | VolumeSnapshotClass, StorageProfile | create-or-leave, merge patch | CRDs may be missing; CDI creates profiles late |
| workload templates | none: functions of the spec | build Deployments, DaemonSets, StorageClasses | defaults, the environment the CR may override |
| node pods (`ensureDiskNodeDaemonSet`, `ensureNASNodeDaemonSet`) | on a node: containers, their ports, the driver's registration, the probe's failures | start, register, probe, restart, roll out | two pods on one host network; a plugin that started before the credentials; a container judged by another's answer |
| controller pods and what they provision (`ensureClusterRole`, `ensureDiskControllerDeployment`, `ensureNASControllerDeployment`, the classes) | replicas on nodes, leases, calls under way, a volume with its claim, pod and snapshot | place, elect, create, save, attach, snapshot, delete | two provisioners for one claim; replicas, nodes and leases lost in the middle of a call; a missing rule stops one sidecar and with it the claim |
| manager process (`cmd/main.go`) | none | start, leader election (the flag is off by default, main.go:70; the shipped Deployment passes it, config/manager/manager.yaml:76) | two managers at once |

They interact through the API server only. `Reconcile` calls the `ensure*`
functions, which call a helper per object. The status patch changes the CR, and
the watch on the CR has no predicate, so it queues the next reconcile. The
created objects are deliberately not watched. The Kubernetes garbage collector
deletes objects whose controller reference names a UID that is gone; CDI keeps
one StorageProfile per StorageClass.

What makes each correct:

* helpers: an `ok` means the object really was under the caller's CR; adoption
  never takes an object from another CR and never undoes somebody's concurrent
  change of its content; a call has one atomic effect, or none, and returns.
* reconcile loop: what it has done stays done while it goes on, also while the
  garbage collector removes what an earlier CR of the same name owned; after
  the last disturbance the cluster is as the spec asks; a deleted CR takes its
  objects with it.
* status: `Available=True` for the current generation is true of the cluster.
* plan: a linked snapshot class exists; a CR that cannot adopt the shared
  objects does not touch another's workloads.
* node pods: no container waits for a port another holds; a plugin that came too
  early is restarted until its driver is registered, and no other plugin is; the
  disk driver registers without cloud credentials.
* volumes: one replica at a time works on a claim; a disk is made where its pod
  can run; a claim of a complete class is served in the end, and a deleted one
  reclaimed as its class says.

`PROJECT.json` lists every hazard at its line, with the properties that would
catch it.

## 2. The modules

| Module | Models | Role |
|---|---|---|
| `OwnerRefs` | controller references | `IsControlledBy`, `CanControl` (SetControllerReference compares group, kind and *name*, IsControlledBy compares the *UID*) |
| `AtomicApply` | what a helper promises | abstract specification: one effect or none |
| `ApplyHelpers` | the helpers on one object, one API call per action | detailed specification |
| `ApplyHelpersProofs` | | proofs, with the refinement of `AtomicApply` |
| `DriverPlan` | what a reconcile writes for a spec, in order | pure operators |
| `Reconciler` | the reconcile loop and its cluster | composes `OwnerRefs` and `DriverPlan`, helper calls atomic |
| `ReconcilerProofs` | | proofs about `Reconciler` |
| `ReconcilerClaims` | what comments and docs say of the loop | properties |
| `ReconcilerClaimsProofs` | | proofs of those safety properties of it that hold |
| `NodeRegistration` | the two node DaemonSets' pods on one node | templates as the operator writes them, the node around them |
| `NodeRegistrationProofs` | | proofs about `NodeRegistration` |
| `VolumeLife` | what a storage class promises of the volume of one claim | abstract specification |
| `Provisioning` | the controller pods and the life of a volume under the objects the operator writes | templates as the operator writes them, sidecars and cloud around them |
| `ProvisioningProofs` | | proofs about `Provisioning`, with the refinement of `VolumeLife` |
| `MCApplyHelpers`, `MCReconciler`, `MCNodeRegistration`, `MCProvisioning` | | instances for TLC |

### ApplyHelpers

The API server keeps the versions of one object in `log`; an index of `log` is a
resourceVersion, `Absent` a deletion. `seen[c]` is how far caller `c`'s informer
has got. A helper call is `Begin`, then `Create`/`GetToAdopt`/`GetToReplace`/
`Write` in the order of the code:

* `createOrAdopt` creates first; on AlreadyExists it reads *from the cache*,
  returns when the copy is its own, fails when another CR controls it, and
  otherwise updates under the copy's resourceVersion; a conflict goes back to
  the read until `MaxTries` (`retry.DefaultRetry.Steps`) attempts are made.
* `createOrUpdate` reads first; NotFound leads to a Create with the *same*
  object, which an earlier attempt may have given a resourceVersion (the API
  server then refuses it); otherwise it replaces the object.

`Fault` is an API call failing without effect, the second outcome of `Writes` an
answer lost after the effect. `OtherWrite` is everybody else, under one
assumption: nobody else changes the controller reference of an existing object.
Two callers are two managers: the flag for leader election is off by default, and
only the shipped Deployment sets it.

### DriverPlan and Reconciler

`Plan(spec)` is the sequence of steps, each naming its helper (`op`), object and
content. Content is what the properties tell apart: the default-class annotation
of a StorageClass, `params` for everything a Deployment or DaemonSet is built
from, the claim sets of a profile, and "old" for what another version or CR made.
A step that the spec turns off inside its function (`cfg.Enabled`, `cfg.Patch`)
is an `off` step.

| State | In the code |
|---|---|
| `cr`, `cache`, `pending` | the CR in the API server; the informer's copy; whether it is behind |
| `queued` | the request in the work queue, or waiting for its rate-limited retry |
| `cur`, `done`, `failed` | `cr`, the position and `reconcileErr` of the running `Reconcile` |
| `mapper` | what the manager's RESTMapper has cached of the SCC API |
| `objs`, `profiles`, `psa` | the objects of the plans; CDI's profiles; the labels of `kube-system` |
| `used` | UIDs ever given to the CR of this name |
| `reports`, `drifted` | history variables of the properties |
| `trouble` | how many more disturbances may happen |

`Start`, `StepDone`, `StepRefused`, `StepFails`, `MapperMisses`, `DetectionFails`,
`Finish` are the worker. `sccAvailable` asks the RESTMapper, which keeps what it
finds; when its first discovery meets a degraded API server it keeps the miss
(`MapperMisses`), and the fresh discovery behind it decides (`Detection`), or fails
too and the namespace is labelled instead (`DetectionFails`). `Finish` is the whole
end of `Reconcile`: the report, the merge patch against the copy read at the start (so only fields that changed are sent), its
failure, which is only logged, and the requeue. `Deliver`, `Resync`, `Crash`,
`EditSpec`, `DeleteCR`, `CreateCR`, `Collect`, `Drift`, `SyncProfiles` are
everybody else; a crash empties the RESTMapper.

A helper call is one step here. That is what `ApplyHelpersProofs!Implements`
licenses: each call takes effect at one instant, or not at all; `StepFails`
includes the failure after the effect. One outcome is coarser than the code:
an adopting call may answer `ok` from a cached copy that the live object has
moved away from since; the model decides on the live object. And the second
manager is in `ApplyHelpers` only.

### NodeRegistration

`DiskNode` and `NASNode` are what the two templates say about the node: the
plugin's environment, the ports of the registrar (`--http-endpoint`) and of the
liveness probe (`--health-port`), and the port the startup probe of the plugin
asks. `PluginEnv` appends `driverEnv` (the CR's `extraEnv` and `ECS_ENDPOINT`) to
the operator's own variables, and the last entry of a name counts (`Appended`).

| State | On the node |
|---|---|
| `config`, `pod` | the CR's environment; the one each pod was made with |
| `up` | the containers that run; each binds one port of the host |
| `signed` | plugins whose ECS client was built with credentials |
| `failures`, `started` | the startup probe of each plugin |
| `registered` | drivers registered with the kubelet |
| `warm` | the credential provider of the node is ready |
| `trouble` | how many more edits, dying containers and cooling providers there may be |

The templates, the environment and the probe (`registrarHealthzStartupProbe`) are
the operator's. What the kubelet, the registrar and the plugin make of them is
external, and taken from the comments that justify the templates: a plugin
builds its client once, when it starts (controller 1354-1363); `NodeGetInfo` of the
disk driver makes two signed calls, each switched off by a variable (629-644);
a container whose port is taken crashes (619-623, 682-684); the registrar
reports healthy once its driver is registered, and exits when registration
fails. The NAS driver's `NodeGetInfo` has no such switch; which calls it makes is
the constant `NASCalls`, since the source does not say. The provider warms up
(`Warm`) and may stop answering for a while (`Cools`); a client keeps the
credentials it has.

### Provisioning

The operator's part are operators: `Rules` (the rules of the ClusterRole),
`Template` (the sidecars of each controller, which of them elect a leader, the
Topology feature), `Replicas`, `Hosts` and `AntiAffinity` (where replicas may run),
`StorageClass`, `NASParameters` and `Missing` (the classes, with what
`nasStorageClassParameters` returns). A field of the CR that is left out is
`None`, an empty set or 0, as the code's defaults tell them apart.

| State | In the cluster |
|---|---|
| `class`, `ctl` | the class of the claim and the `spec.controller` of the CR, chosen at first |
| `room` | the zone where the claim's pod has room |
| `node`, `leader` | where each replica of the controller runs, and who holds each sidecar's lease |
| `calls` | replicas with a CreateVolume for the claim under way |
| `volume`, `pv`, `attached` | the zone of the volume, its PersistentVolume, its attachment |
| `pod`, `snap`, `deleted` | the pod and the snapshot of the claim, and whether the claim is deleted |
| `trouble` | how many more replicas, nodes, leases and calls may be lost |

Every sidecar action is guarded by the rules it needs (`May`) and by `Works`: the
sidecar is in the template, its replica runs, and it leads if it elects. Which
rules a sidecar needs, and that it needs a lease, the comments beside the rules
say, with what happened without them (controller 247-290); the rest of the
actions, the cloud, the scheduler, the NAS driver's own need of parameters
(982-991, 1050-1055) are external in the same sense. Two assumptions come from
there: a sidecar that cannot renew its lease exits before the lease runs out, and
the cloud makes one volume for all calls of one claim. There is one claim: two
claims share nothing but the leases.

`VolumeLife` says what all this is for, without replicas, leases, calls, rules or
parameters: the volume of a claim is made at most once, is bound before a pod uses it,
is there as long as the claim is, and then stays or goes as the class says, with its
record going last. `Phase` is the refinement mapping: which of the record, the volume and
the claim there are. What it adds to `OneProvisioner` is the past: a CreateVolume that is
still out when the claim is bound, or deleted, makes no second volume.

## 3. The runs

| Run | Configuration | Shows |
|---|---|---|
| `apply_helpers` | two managers for two CRs with different contents, 2 attempts, calls begin while there are fewer than 2 versions | `TypeOK`, `OkMeansControlled`, `AdoptNeverSteals`, `AdoptKeepsContent`, `ImplementsAtomicApply`, `CallsAreNumbered`, `CallsReturn` |
| `reconciler` | OpenShift; disk only and both drivers; new cluster and one an operator without owner references used; two disturbances of any kind but deletion of the CR | `TypeOK`, `AvailableMeansInPlace`, `QuietMeansSettled` |
| `recreate` | vanilla cluster; the CR deleted and recreated; another CR may hold the objects of any set of kinds | `DoneStepsInPlace`, `AvailableMeansInPlace`, `NothingLeftBehind`, `WorkloadsOfOthersKept`, `OnlyWorkloadsReplaced` |
| `live` | vanilla cluster, fairness; edits, crashes, failing calls, deletion | `QuietMeansObserved`, `Settles`, `StatusFollows`, `TeardownCompletes` |
| `profiles` | OpenShift with CDI, fairness and the periodic resync; edits, crashes, failing calls, discoveries and status patches | `LinkedClassExists`, `ProfilesFollow`, `BindingFollows`, `StatusFollows` |
| `node_registration` | one node without public egress; a plain CR, one for a closed network that filters disk types, one with access keys, and one that gives both plugins one `SERVICE_PORT`; threshold 2, three edits, deaths or coolings | `TypeOK`, `HealsOnlyTheUnregistered`, `EveryDriverRegisters`, `DiskNeedsNoCredentials`, `EveryContainerRuns` |
| `provisioning` | one tainted master and a worker labelled infra, two zones; two disk and six NAS classes (complete, lacking a field, of the other mode), four `spec.controller`; three losses | `TypeOK`, `OneProvisioner`, `DisksNearTheirPods`, `BoundMeansComplete`, `ClaimsServed`, `SnapshotsReady`, `Reclaimed`, `ImplementsVolumeLife` |
| `claim_*` | one claim of the documentation each | that the code does not keep it (section 6) |

Bounds, and why they are enough. `MaxTrouble = 2` lets any two disturbances
fall at any point of a reconcile: an edit under a running reconcile followed by a
crash, a failure in its retry, a deletion followed by a recreation. A third would
have to interact with both others; the properties are about one CR and one
running copy, so two changes already put the copy, the status and the cluster at
three different places. Two specs differ in every respect a plan can (drivers,
classes, parameters, snapshots). Two incarnations suffice because an older one
is only ever "gone". In `ApplyHelpers` two versions, two attempts and two
callers already give a conflict, its retry, a stale copy, and a deletion between
the read and the write (calls in flight may append beyond the bound). The proofs
lift the safety part of this to all bounds. In `NodeRegistration` the threshold is 2
instead of the code's 6: a probe then fails without and with a restart, which
is all its length can make a difference to; three disturbances let the provider
cool, a plugin start again with a bare client behind a probe that is over, and
its registrar die, which is the longest way to a node that does not heal.
`NASCalls` is one call, so that both the driver that needs credentials and the one that does not are present. In `Provisioning` the classes
cover both modes with every kind of missing field and both reclaim policies, the
four controllers every default and a selector no node matches; three
losses take away a call, the replica that retries it and the lease of the next.
One master makes co-location necessary, two zones make the wrong one possible.

`CHECK_DEADLOCK FALSE` everywhere: a cluster in which nothing changes may come
to rest, and a model whose bounds are used up stops.

`ReconcilerRecreate.cfg` uses symmetry in the two incarnations of the CR, which
is sound as it has no liveness property and the UIDs are compared for equality
only. `LinkedClassExists` names its exceptions: the snapshot CRDs are not installed
(`ensureVolumeSnapshotClass` skips the class, `ensureDiskDriver` links it all the same), or
a spec names a class with `snapshot.enabled=false` (`NamedOnly`: linked, and not made).
`profiles` has neither, so that there the property says of every link that its class
exists; the proof is about all specs.

Every property has a mutant: a plausible slip in one mapped definition
(the reset of the position forgotten, adoption by name instead of UID, a
request dropped at the end of a reconcile, the profiles patched before the class
is created, ...) under which the same run finds that property violated. The
mutants stand before the definitions they replace and are used by nothing.

### Fairness

`WF(Worker)`: the worker goroutine runs and takes the queued request; the
back-off after an error is finite, so a request that waits is taken in the end.
`WF(Deliver)`: the watch delivers, reconnecting if need be. `WF(Collect)` and
`WF(SyncProfiles)`: the garbage collector and CDI are controllers that retry.
In `ApplyHelpers` `WF(Step(c))` alone: API calls have deadlines; nothing is
assumed of the informers, so `CallsReturn` holds even when a cache never catches up.
In `NodeRegistration` the kubelet starts (`WF(Start(c))`) and probes
(`WF(ProbeSucceeds(d) \/ ProbeFails(d))`) containers, and the DaemonSet controller
replaces pods (`WF(Rollout(d))`). `SF(Register(d))`: registration is enabled again
and again, but not continuously, as the probe keeps restarting the plugin; the
code gives it 60 seconds before each restart. `Warm` is under no fairness: the
properties that need it say `<>[]warm`.
In `Provisioning` every external actor (the scheduler, each kind of sidecar, the
cloud, the kubelet) is weakly fair with what it can do; users, who add and delete
pods, claims and snapshots, are under no fairness, and neither are losses.
Users, crashes and failures are under no fairness; that they are finitely many
(`MaxTrouble`) is the hypothesis "after the last disturbance" of the liveness
properties. The informer's resync (every ten hours) is fair only in
`ResyncSpec`, for `ProfilesFollow`, `BindingFollows` and `StatusFollows` in `profiles`,
which need it: a profile CDI creates late is skipped without an error, a
fallback to Pod Security Admission is none, a failing status patch is only
logged, and no event brings the operator back to them.

## 4. What is proved

For all constants that satisfy the named assumptions: `OwnerAssumption`
(`NoOwner` is no UID), `PlanAssumption` (the default snapshot class is a name,
"none" is not), `ApplyAssumption` and `ReconcilerAssumption` (types of the
constants; any set of specs, any origins, any amount of trouble),
`NodeAssumption` (types of the constants) and `ProvisioningAssumption` (types of
the constants; any classes, nodes, labels, taints and a zone).
TLC evaluates each of them in the runs of its module.

`ApplyHelpersProofs`

* `TypeCorrect`, `OkSound`, `NeverSteals`, `KeepsContent`: the four safety
  properties, for any number of callers, versions and attempts.
* `Implements`: `Spec => ImplementsAtomicApply`. The mapping is
  `object <- Live`, `owners <-` every controller that occurs in `log`, and
  `state <- "busy"` inside a call. A Create or Update that reaches the server is
  `Applied` or `Failed`, an `ok` from the cache is `AlreadyMine`, all else
  stutters.
* The inductive invariant `Inv` adds to the types that a caller about to write
  holds a version it may control (`WriteInv`), that informers do not go back
  behind the start of a call (`SinceInv`), and what an `ok` rests on. Without
  the first, an Update could be of a version `CanControl` refuses.
* `Numbered` (`CallsAreNumbered`): what a call may still cost the API server, `CallsLeft`,
  starts at `2 * MaxTries + 1` or below, falls with every API call of that caller, is
  untouched by everybody else (`OthersCalls`) and never gets to 0 inside a call. It needs
  that a caller in a call is at one of its attempts (`TriesInv`). With the fairness of
  `FairSpec` this is why `CallsReturn` holds; the step from one to the other needs ENABLED
  and stays with TLC.

`ReconcilerProofs`

* `TypeCorrect`; `DoneSound` (`DoneStepsInPlace`); `AvailableSound`
  (`AvailableMeansInPlace`); `OthersKept` (`WorkloadsOfOthersKept`);
  `Invariance` (the invariant below).
* `IInv` is `TypeOK`, `CopyInv` and the two properties themselves. `CopyInv`
  is what relates the three copies of the CR: `KnownUids` (every copy is of an
  incarnation there has been), `CopiesAreOlder` (the copy in work, of the live
  incarnation, has no newer generation than the API server, and the same spec
  when it has the same one), `WorkFollowsCache` (the copy in work is not newer
  than the cache, so a reconcile that starts now is not older than the last one),
  `ReportsFollowCache` (no report is of a newer generation than the cache).
  It is needed because a report names a *generation* while the objects follow
  a *spec*: that `obsGen = gen` says anything of the objects rests on a
  generation naming one spec, and that the *next* reconcile does not undo what
  was reported rests on its copy being no older than the report.
* `OthersKept` has its own invariant: once a reconcile has passed the three shared objects,
  none of them belongs to another CR, because nobody hands an object over to
  another CR (`NobodyGivesAway`).
* `TakesOverOnly` (`OnlyWorkloadsReplaced`) is what `claim_upgrade` leaves true: whatever
  specs and incarnations follow one another, only the workloads of a plan are replaced
  (`PlanSteps`, from `ensureRBAC` to `ensureNASDriver`), and `createOrAdopt` returns its
  error before it changes an object another CR controls. Every other object keeps its
  content, and passes only from nobody, or a CR of the same name, to the CR in work. It
  needs no invariant beyond `TypeOK`: the lemma `EffectTakesOver` says it of one step.

`NodeRegistrationProofs`

* `TypeCorrect`: it says more than the types: only what runs has a client, a
  finished probe or a registration.
* `HealSound` (`HealsOnlyTheUnregistered`): a plugin that goes down although its
  pod stays and nothing dies has failed its probe (`ProbedFailed`); the probe asks
  the driver's own registrar (`ProbesItsOwn`, from the two templates), which is up
  while the driver is registered (`TypeOK`), so a registered driver's probe does
  not fail, whatever the configurations.
* `OnlyDeathStrands`: along behaviours in which no container dies
  (`[][NothingDies]_vars`) nobody is `Stranded` but drivers that make no calls. The
  invariant `NobodyBare` says that a driver that is registered, or whose probe is over,
  has credentials if it needs any. Only a death breaks it (the plugin starts again, bare,
  while its driver is still registered); an edit, a rollout (`Calls` follows the *pod*,
  not the CR), a provider that cools or a conflict over a port do not. This bounds the
  exception `Stranded` in `EveryDriverRegisters` from the other side.
* `PortsDifferAlways`: of the six containers no two want one port, unless the `extraEnv`
  of one of their pods has `SERVICE_PORT`; `DiskRegisters`: the registrar of the disk driver
  has no reason to exit, unless `extraEnv` has `DISK_ALLOW_ALL_TYPE` (the safety half of
  `DiskNeedsNoCredentials`). Both rest on `EnvOf`: a variable of the template that neither
  `extraEnv` nor `ecsEndpoint` names reaches the plugin with the operator's value,
  for every other entry they may have.

`ReconcilerClaimsProofs`

* `QuietSettled` (`QuietMeansSettled`), with no assumption beyond the named ones: an
  operator that has nothing running, waiting or under way has every object of the last
  spec in place and the node pods admitted. It is the safety half of `Settles`: what
  is left to liveness is that the operator comes to rest or goes on. The invariant is
  the property itself with three others. `SyncInv`: without a change under way the
  cache is what the API server has (`CacheInv`), and a reconcile no request has
  overtaken works on it (`CurInv`).
  `AdmittedInv`: behind its fourth step a reconcile has bound the SCC or labelled the
  namespace, and nobody takes that back. `DoneStepsInPlace`, from `IInv`: a reconcile that
  ends well has all of its plan in place. A reconcile that ends badly, or is overtaken,
  leaves a request queued, so the cluster is not quiet; and what a quiet cluster may
  still suffer, the garbage collector and others' deletions, keeps it settled
  (`StaysSettled`).
* `QuietObserved` (`QuietMeansObserved`), when no status patch fails: then the whole status
  is that of the spec as well. On `SyncInv`: a report that changes nothing, which alone
  queues nothing, found its own generation and readiness in the status already
  (`ReportChangesNothing`).
* `TeardownSound` (`NothingLeftBehind`): with the CR gone, every object is of an owner that
  is gone, or as others left it. The invariant `OwnersKnown` says that what is not as
  others left it is owned by an incarnation there *has been* (`used`): a reconcile that
  outlives its CR goes on creating, but under a UID that is known to be gone.
  `CollectedIsTornDown`: what is not `TornDown` yet the collector has still to take, so
  that `TeardownCompletes` needs only that reconciles end and the collector comes round.
* `FallbackNeedsDegraded`: on OpenShift, as long as no discovery request fails, the
  namespace is never labelled. It is the hypothesis under which the comment above
  `sccAvailable` is right; `claim_fallback` shows it cannot be dropped.
* `LinkedExists` (`LinkedClassExists`), with no assumption beyond the named ones. The
  property itself stops at the first deletion of the CR (`FirstCR`, section 5 says why) and
  names the two branches that link a class without making it. The lemma
  `LinksAfterMaking` is about the plan alone: a step that links a profile to a
  class has the step that makes this class before it, or the class is `NamedOnly`, for
  every spec and any number of classes. The invariant carries that into the cluster:
  what the steps behind the running reconcile made is there (`MadeInv`), and as long as
  there has been one incarnation the garbage collector has nothing to take.

`ProvisioningProofs`

* `TypeCorrect`; `ProvisionsAlone` (`OneProvisioner`), because a call belongs to a
  replica that leads and goes with its lease; `DisksNear` (`DisksNearTheirPods`),
  because a volume appears only after its pod has a zone and then in that zone;
  `BoundComplete` (`BoundMeansComplete`), on the lemma `MissingIsWhatDriverNeeds`:
  for every NAS class, `Missing` is empty exactly when the driver accepts the
  parameters.
* `Implements`: `Spec => ImplementsVolumeLife`. `LifeInv` is what the mapping needs:
  no call is out once the claim is bound or deleted (`CallsBeforeBound`, from the one
  leader there is), a bound claim has its volume and a deleted one no volume without
  a record (`RecordOfVolume`), and a pod runs only with a bound claim (`PodHasClaim`).
  `LifeRefines` then goes through the actions: `Creates` is `Make`; `Save`, `Run`,
  `DeleteClaim`, `DeleteVolume` and `DeletePV` are `Bind`, `Use`, `Release`, `Remove` and `Forget`; all that concerns replicas,
  leases, attachments and snapshots stutters.

Liveness (`CallsReturn`, `Settles`, `StatusFollows`, `TeardownCompletes`,
`ProfilesFollow`, `BindingFollows`, `EveryDriverRegisters`, `DiskNeedsNoCredentials`,
`EveryContainerRuns`, `ClaimsServed`, `SnapshotsReady`, `Reclaimed`) is
model-checked only: fairness and ENABLED are out of the prover's reach. Every
safety property the runs check is proved, and for most of the liveness properties so is
their safety half: `CallsAreNumbered` of `CallsReturn`, `QuietMeansSettled` of `Settles` and
`BindingFollows`, `QuietMeansObserved` of `StatusFollows`, `NothingLeftBehind` of
`TeardownCompletes`, `DiskRegisters` and `OnlyDeathStrands` of the registration,
`ImplementsVolumeLife` of `Reclaimed`.

## 5. What the properties do not say

* `InPlace`, and with it `DoneStepsInPlace`, `AvailableMeansInPlace` and `Settles`, is about
  what a plan adopts or replaces. The admission step is `Admitted`'s (in
  `QuietMeansSettled`), the VolumeSnapshotClass `LinkedClassExists`'s.
* `AvailableMeansInPlace` speaks of owners for adopted objects and of the content
  of workloads: the content of adopted objects is not kept current
  (`AdoptedAreCurrent` in section 6). Objects that others delete are excused
  (`drifted`): they are not watched. Whether pods run is not looked at by the
  code, although the ready flags are named after it.
* It also leaves out a CR that carries a report of an earlier incarnation
  (`OwnReports`): the status patch has neither resourceVersion nor UID, so the
  last reconcile of a deleted CR reports on its successor, until the
  successor's own report.
* `QuietMeansObserved` is stated for the case that no status patch fails: one that
  does is logged and not retried. `StatusFollows` is checked without them in
  `live`, and with them, under the periodic resync, in `profiles`.
* `BindingFollows` rests on that resync too: until it comes, up to ten hours, an
  OpenShift cluster whose discovery failed has labels in place of the binding.
* That objects others deleted come back with a later reconcile is part of the model
  (`drifted` shrinks), but no liveness property says so: with resyncs, deletions
  and the temporal formula together the graph is too large to check.
* `QuietMeansSettled` says nothing of the objects made by `create` steps, the
  VolumeSnapshotClasses. When a CR is deleted and created again, the new reconcile finds
  the class its predecessor made and leaves it (controller 1124-1126); the collector
  takes it then, and a quiet operator does not make it again, although profiles link it.
  TLC shows this within one deletion and one creation; `LinkedClassExists` therefore
  speaks of the time before the CR is first deleted.
* `WorkloadsOfOthersKept` concerns a second CR that holds its objects and does
  nothing; two CRs that both reconcile are planned.
* `extraEnv` wins over the operator's own variables. A CR that sets `SERVICE_PORT`
  gives both plugins one port, and the second never starts: `EveryContainerRuns`
  and `EveryDriverRegisters` except exactly that plugin (`Blocked`).
  `CSI_ENDPOINT` could be moved the same way and is left out.
* `EveryDriverRegisters` speaks of drivers that reach their ECS endpoint or need
  none, and of a provider that is warm for good in the end. The startup probe is
  over at its first success: a plugin that starts again with a bare client
  while its driver is registered, and whose registrar dies later, stays bare. The
  properties except that plugin (`Stranded`), which the code does not heal.
* `ClaimsServed` speaks of classes of which no field is missing and controllers
  some node satisfies; `Reclaimed` of one claim, deleted when its pod runs and no snapshot
  is being taken: what the sidecars do with a claim deleted earlier is nowhere in the
  repository.

## 6. Where code and documentation part

* `claim_snapshot_class`: a VolumeSnapshotClass an older operator left behind is not
  adopted (CHANGELOG v0.1.12 says existing resources are).
* `claim_upgrade`: adoption leaves the content as it is, so new RBAC
  rules or a new first class do not reach an existing ClusterRole or StorageClass
  (README: "Install / reconcile / upgrade the driver").
* `claim_disabled`: a driver switched off stays deployed (the field's comment:
  "controls whether the disk CSI driver components are deployed").
* `claim_fallback`: a discovery that fails, in the RESTMapper and afresh, selects Pod
  Security Admission on OpenShift. The comment above `sccAvailable` rules that out; the one
  at the `return` accepts it.
* `claim_rest`: every report carries the current time, hence changes the watched
  CR, hence causes the next reconcile, unless two fall in the same second
  (CHANGELOG v0.1.12: "no reconcile loop").

Two more, without a run of their own:

* `README.md:129` and `docs/QUICKSTART.md:88-89` say that on a single node one of two
  replicas stays Pending. The code does not keep this: the anti-affinity is a preference
  (controller 1332-1350; the comment there says that both share the node), so both run.
* NAS classes allow expansion by default (1046), and the NAS controller has no
  resizer; the disk controller has one, and no rule of the ClusterRole covers
  `persistentvolumeclaims/status`. What a resizer does with that is nowhere in
  the repository, so it is not modelled.

## 7. Simplifications

* The informer skips versions: `Deliver` hands over the latest. Of two reports
  in the same second the later does not start from a copy older than the
  earlier. Both only drop intermediate states; the planned `StatusLoop` keeps them.
* `Degraded` and `Progressing` are functions of `Available` and left out.
* A namespace `kube-system` without labels is always there.
* CDI and the snapshot CRDs are there or not for a whole behaviour.
* `Provisioning` has the class, the controller fields and the zone fixed for a
  behaviour; an edit of the CR under a running controller is the business of
  `Reconciler`, and what a rollout does to a pod that of `NodeRegistration`.
* Images, resources, mounts, volumes, annotations and file system options of the
  templates are left out, and the resizer is.
* Foreground deletion, finalizers and admission webhooks are not modelled.

Not modelled: generated deep copies; the OSS driver (a log line); flags, TLS,
metrics and probes of the manager; test utilities and scripts.

## 8. Plan

Done: `OwnerRefs`, `AtomicApply`, `ApplyHelpers`, `DriverPlan`, `Reconciler` with the
admission backend, `ReconcilerClaims`, `NodeRegistration`, `Provisioning`, and the
proofs about them. Open, in this order:

1. `StatusLoop`: the watched CR with every version, the clock and the back-off;
   `ReconcilerClaims!ComesToRest` at that grain, and that `Reconciler`'s status
   refines it.
2. Two CRs that both reconcile, and the deletion of one while they share objects.
3. The healing of deleted objects under the periodic resync, on a smaller plan.
4. Proofs: that a reconcile whose plan is behind it leaves `profiles` as the spec asks
   (the safety half of `ProfilesFollow`), an abstract specification of what the loop
   promises (one spec in force at a time, reported after it is) that `Reconciler`
   implements, and what `claim_snapshot_class` leaves true.
