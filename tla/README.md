# A TLA+ model of the Data Prepper operator

The operator keeps [Data Prepper](https://github.com/opensearch-project/data-prepper)
clusters running on Kubernetes.  Users write three kinds of objects,
`DataPrepperClass`, `DataPrepperCluster` and `DataPrepperPipeline`; two
controllers in one process turn them into Deployments, ConfigMaps, Services and
autoscalers.  What is hard about it is not any single step but the way the steps
meet: two controllers write the same Deployment, every read comes from a cache
that may be late, every call may fail, and a pipeline must never vanish while it
is part of a cluster's configuration.

This directory holds TLA+ modules that model the controllers and webhooks, TLC
configurations that check them on small instances, and TLAPS proofs of the main
safety properties for instances of any size.  `PROJECT.json` maps every
definition to the source lines it stands for, and lists runs, mutants, hazards,
findings and theorems.

## 1. The system

| Component | State it keeps | Operations | Talks to |
|---|---|---|---|
| Pipeline controller (`internal/controller/dataprepperpipeline_controller.go`) | a queue of requests, the object the worker holds | `Reconcile`, `rebuildClusterConfig`, `setStatus`, `inspectClusterHealth`, mapping of ConfigMap and cluster events to requests | writes pipelines (finalizer, status), the ConfigMap `<cluster>-pipelines`, the annotation `pipelines-hash` of the Deployment |
| Cluster controller (`.../datapreppercluster_controller.go`) | the same | `Reconcile`: `resolveConfig`, then ConfigMap, peer config, Deployment, Service, headless Service, ServiceMonitor, HPA, status | creates the ConfigMap, owns all children, writes the cluster status |
| Pipeline webhook (`internal/webhook/v1alpha1/dataprepperpipeline_webhook.go`) | none | `validate` on create and update, also of the operator's own updates | lists pipelines from the cache |
| Cluster webhook (`.../datapreppercluster_webhook.go`) | none | `validate` on create and update | reads the class from the cache |
| API types (`api/v1alpha1`) | | | |
| Wiring (`cmd/main.go`) | | manager, cached client, `ENABLE_WEBHOOKS` | |
| API server, informers, garbage collector, Deployment controller, autoscaler, pods (external) | the objects | watch events, collection, rollouts, scaling | everything |

How the parts interact:

* Both controllers use `mgr.GetClient()`: `Get` and `List` read informer caches,
  writes go to the API server.  Updates carry a resourceVersion and fail with a
  conflict when the object has changed since the cached read.
* The pipeline controller is woken by pipelines, ConfigMaps and clusters, the
  cluster controller by clusters and by the children it owns.  Neither watches
  classes or ServiceMonitors, and the pipeline controller watches neither
  Deployments nor pods.
* A new hash in the pod template makes the Deployment controller roll the pods;
  pods read the mounted texts only when they start.

What is hard: two writers of one Deployment; compare-then-skip decisions on
stale reads; a finalizer protocol spread over several reconciles; partial
failures between two calls; restarts; cluster deletion and re-creation under the
same name; an autoscaler that writes the field the operator writes; controllers
that wake each other; a condition about pods that nobody watches.
`PROJECT.json` lists each of these hazards at its line.

What makes the components correct:

* pipelines: no update is lost (what users wrote last ends up in the ConfigMap,
  on the Deployment and in the pods); a status never claims more than was done;
  a deletion cleans up first, and ends; a bad pipeline does not drive its siblings
  out of the text;
* clusters: every child converges to what spec and class ask for whatever was
  edited, deleted or failed, and never goes back to an older spec; the status is
  up to date and never ahead of the children; the operator comes to rest and does
  not fight the autoscaler;
* health: the pods have read the text that is Applied, and the Healthy condition
  follows them.

## 2. Modules

| Module | What it is |
|---|---|
| `Informer` | external: API server and informer of one kind, as a history of versions |
| `PipelineDefinition` | specs, webhook validation, merge and rendering (pure operators) |
| `PipelineOperator` | the core: both controllers around pipelines, clusters, ConfigMaps and Deployments, with users, faults and Kubernetes |
| `PipelineQueue` | external: `PipelineOperator` with requests taken in order of arrival, for run `unguarded_orphan` |
| `PipelineLifecycle` | abstract: the life of a pipeline as seen through the API server |
| `ClusterReconciler` | the whole cluster controller for one cluster, with class, all seven children, status, deletion and re-creation, autoscaler and pods |
| `ClusterConvergence` | abstract: generations of a spec reach the children one by one, and the status last |
| `PipelineHealth` | the chain from containers over Deployment and cluster status to the Healthy condition of a pipeline |
| `MCPipelineOperator`, `MCClusterReconciler` | values for the constants, symmetry |
| `InformerProofs` | lemmas about histories |
| `PipelineOperatorProofs`, `LifecycleProofs`, `RolloutProofs`, `PublicationProofs`, `SettlingProofs` | theorems about `PipelineOperator` |
| `ClusterReconcilerProofs`, `PipelineHealthProofs` | theorems about `ClusterReconciler` and `PipelineHealth` |

`PipelineQueue` extends `MCPipelineOperator`.
`PipelineOperator` extends `Informer` and `PipelineDefinition` and instantiates
`PipelineLifecycle` with the refinement mapping `LifeOf`; `ClusterReconciler`
extends `Informer` and instantiates `ClusterConvergence`.  The models overlap in
the ConfigMap, the Deployment and the cluster status: `PipelineOperator` has what
the pipelines need of them (owner, text, hash, template, rollout),
`ClusterReconciler` what the cluster controller decides about them (template by
field, replicas, readiness), and `PipelineHealth` what passes through them from
the pods to the pipeline (hash, ready pods, status).  `PipelineHealth` stands on
its own: one pipeline, one cluster, informers that are up to date, both
controllers as far as the chain needs them.

### State

`Informer` models a kind by the versions that its informer has not gone past:
`Cached` is the first, `Actual` the last.  A write appends a version unless it
changes nothing; `Deliver` drops the first one and makes requests for what
changed.  How far an informer may be behind is bounded by `Lag`, per kind: no
other step is taken when a history is longer (`Fresh`).  With the bound 0,
deliveries come before anything else, so that caches are up to date.

| Variable | In the code |
|---|---|
| `plv`, `clv`, `cmv`, `dpv` (`hist` by kind in `ClusterReconciler`) | the objects of each kind, with the pending watch events |
| `pq`, `cq` (`queued`) | the work queues, sets because a queue holds a request once; the order in which requests are taken is left open, which is more than the queue of controller-runtime allows: what holds in a passing run holds for every order |
| `order` (`PipelineQueue`) | the same requests, the oldest first |
| `pw`, `cw` | the worker of a controller: `pc` is the API call it is about to make, `obj` the object that the first `Get` returned |
| `published` | history variable: every text a ConfigMap has held |
| `pods` | the running pods: the template they were made from, what they have read at start, whether they are ready |
| `owner`, `revision` (`ClusterReconciler`) | owner reference of each child; number of specs written so far, which gives uids and generations |
| `applied`, `unseen` (`ClusterReconciler`) | history variables: the generation each child has last been brought into line with (a child that is left alone on account of a stale read is not); what is not watched and has changed since the worker looked at it |
| `obj`, `list` (`PipelineHealth`) | the objects; the pods with the state of their container |
| `inspected` (`PipelineHealth`) | history variable: what the last listing of the pods has found, and the cluster status then; nothing if the listing failed |
| `edits`, `uids`, `faults`, `events` | budgets for users, incarnations, faults and load |

A text is modelled by the set of its entries (key and definition), because
`yaml.Marshal` sorts keys; the placeholder is the empty set.  A definition is
raw JSON, abstracted to whether it is an object and which fields it has.  The
hash is modelled as injective.  `image` stands for everything that is resolved
from spec and class and written into the pod template together (image,
resources, envFrom, scheduling, labels, volumes).  A child is reduced to the
fields that decisions or properties look at.

### Actions

One action per API call of a handler.  The reads before the call belong to the
same action; a watch event that arrives between two cached reads might as well
come before or after it.  Every action has one disjunct per outcome: success,
`NotFound`, conflict or `AlreadyExists`, a skipped write, a rejected admission.

| Code | Action |
|---|---|
| `Reconcile` (pipelines): `Get`s and branches, 66-107 | `PipelineReconcile(p)`, `PipelineBranch` |
| `AddFinalizer` and `Update`, 91-97 | `AddFinalizer` |
| `rebuildClusterConfig`, list to ConfigMap update, 210-269 | `RebuildClusterConfig` with `Targets`, `RenderFails`, `Render` |
| ... the hash on the Deployment, 271-290 | `StampDeployment` |
| `RemoveFinalizer` and `Update`, 85-86 | `RemoveFinalizer` |
| `setStatus`, 162-204 | `SetStatus`; in `PipelineHealth` with the Healthy condition, `SetPending`, `SetApplied` |
| `inspectClusterHealth`, 124-160 | `InspectClusterHealth`, `ListFails` |
| the watches, 294-348 and cluster controller 716-725 | `DeliverPipelines`, `DeliverConfigMaps`, `DeliverClusters`, `DeliverDeployments`; `Receive(k)` |
| `Reconcile` (clusters), 72-117 | `ClusterReconcile(c)`; `Reconcile` |
| `reconcileConfigMap` ... `reconcileStatus` | `ReconcileConfigMap`, `ReconcilePeerConfig`, `ReconcileDeployment`, `ReconcileService`, `ReconcileHeadlessService`, `ReconcileServiceMonitor`, `ReconcileHPA`, `ReconcileStatus` |
| an error returned by `Reconcile` | `PipelineReturnErr`, `ClusterReturnErr`, `ReturnErr`: the request goes back to the queue |
| both `validate` | `Admitted` / `Validate` as a guard of writes |

Around them: users (`CreatePipeline`, `EditPipeline`, `DeletePipeline`,
`CreateCluster`, `EditCluster`, `DeleteCluster`, `DriftConfigMap`, `SetClass`,
`DeleteChild`), Kubernetes (`CollectConfigMap`, `CollectDeployment`, `Collect`,
`RolloutComplete`; `PodsCreated`, `Scheduled`, `PodsStarted`, `Crash`, `Recover`,
`PodsUp`, `TakeOver`, `Terminated`, `PodsDown`; `ScaleIntoRange`, `ScaleWithLoad`) and faults
(`PipelineCallFails`, `ClusterCallFails`, `CallFails`, `Restart`).

In `PipelineHealth` a rolling update keeps an older pod (number 0 of `list`) until
the new ones are ready; the pods of one template start, crash and recover
together.  A pod shows nothing before it is scheduled, then a reason for waiting,
then that it runs or why it has failed, and when it is deleted it stays for a while
terminating: the five cases that `inspectClusterHealth` tells apart, of which it
takes the first for healthy and passes over the last.
`created` says that the Deployment controller has observed the current template,
which is what the condition Progressing looks at; the code does not see whether
pods of it are ready.

Definitions marked "Faulty variant" are not part of the specification: each is a
plausible bug, and `PROJECT.json` names the definition it takes the place of and
the property that then fails.

## 3. What the runs check

All runs are `tlc -config <run>.cfg <module>`.  `CHECK_DEADLOCK` is off in all of
them: once budgets are used up and everything is in line, an operator rests.

| Run | Instance | Properties |
|---|---|---|
| `merge` | 2 pipelines, 1 cluster, 2 keys, 4 edits, caches up to date | `TypeOK`, `SettledMerged`, `SettledStamped`, `NoOrphanOnDelete` |
| `lag` | 2 pipelines, 3 edits, pipeline and ConfigMap informers one version behind | `AppliedHasFinalizer`, `AppliedWasPublished`, `SettledMerged`, `ImplementsLifecycle` |
| `recreate` | 1 pipeline, 2 incarnations, 2 images, drift by hand, ConfigMap and Deployment informers behind | `SettledCluster`, `SettledMerged`, `StampedWasPublished`, `HashOwnedByPipelines` |
| `faults` | 2 pipelines, webhooks off, any definition, a blank key, a failed call or a restart | `SettledMerged`, `SettledStamped`, `SettledCluster`, `NoOrphanOnDelete`, `LastGoodTextStays` |
| `rest` | 1 pipeline that moves between 2 clusters of which one exists, a failed call or a restart, fairness | `AppliedWasPublished`, `SettledMerged`, `EventuallySettles`, `DeletionCompletes` |
| `children` | 3 specs that differ in every field but the autoscaler, 3 edits (spec, class, deletion of cluster or children), class informer behind | `TypeOK`, `SettledChildren`, `ImplementsConvergence` |
| `autoscale` | webhooks off, an autoscaler whose range is below spec.replicas added and removed, a fault or a change of load, Deployment informer behind, fairness | `SettledChildren`, `SettledStatus`, `SettledServerConfig`, `EventuallySettles`, `ImplementsConvergence` |
| `health` | 2 texts, of which pods cannot boot with one, 2 events (edits, faults, crashes), fairness | `TypeOK`, `SettledApplied`, `HealthFollowsStatus`, `EventuallySettles` |

"Settled" properties are about states in which nothing is left to do: caches are
up to date, queues empty, workers idle, rollouts complete.  They say that no
update is lost whatever the order of events was.  The `EventuallySettles`
properties are their counterpart: such a state is reached and kept once users
stop.  Two limits of this pair: a request that is retried for ever (a bad
pipeline with webhooks off, a class that does not exist, a forbidden deletion)
keeps the system from settling, so the properties say nothing there; and
`Settled` says nothing about the way to it, which the other properties do.

`LastGoodTextStays` is what the errors of `rebuildClusterConfig` are for: a pipeline
that cannot be rendered (a key twice or blank, a definition that is no object or
empty) ends the rebuild before the ConfigMap is touched, so its siblings keep their
entries.  It does not say that Data Prepper can load the text: with webhooks off a
definition without a source or a sink is rendered and published.

Four runs show that the code does not do what its documentation says:

| Run | Violated | What happens |
|---|---|---|
| `unguarded_orphan` | `SettledNoOrphans` | A pipeline is merged by a sibling's rebuild before it has its finalizer.  It is deleted while its first reconcile holds it, and is gone at once; the sibling, which was queued before, rebuilds from a list that still has it; then the deletion arrives, and its request finds nothing. |
| `deletion_blocked` | `DeletionCompletes` | The webhook lists from the cache, so two pipelines can get the same key. From then on it rejects the update that would remove the finalizer of either. |
| `server_config` | `ServerConfigAdopted` | `delete` on ConfigMaps is not among the RBAC verbs, so a cluster that gets a `serverConfigMap` later never mounts it. |
| `pod_errors` | `BootErrorsSurface` | Pods are not watched. One that is inspected before its container has started counts as healthy; when it starts and crashes afterwards, neither Deployment nor cluster status change, and Healthy stays True. |

A counterexample must be one that the program can go through.  That of
`unguarded_orphan` depends on the order in which requests are taken, so this run
takes them in order of arrival (`PipelineQueue`).

On other instances properties that hold in the runs above fail, or others that the
modules state, and the hazards in `PROJECT.json` say at which line.  The first three
also contradict the documentation.  To see them, change the constants:

* `unguarded_orphan` with `SPECIFICATION Spec`, module `MCPipelineOperator`, one
  pipeline, `Lag <- ConfigMapLag` and `MaxEdits = 3`, `SettledNoOrphans`: a pipeline
  is deleted right after its merge; the cached ConfigMap is still the one from
  before, so there is nothing to update, the finalizer is removed, and the entry
  stays.  The `README.md:120` of the repository says that finalizers prevent
  orphaned config;
* `server_config` with `SPECIFICATION Spec`, `Specs <- ElasticSpec`, `MaxEdits = 1`
  and `MaxFaults = 1`, `ScaledIsReady`: the status compares with `spec.replicas` also
  when an autoscaler owns the number (line 136 of the cluster controller), so that a
  cluster scaled below it stays Pending, with the reason DeploymentUnavailable, while
  all its pods are ready.  `api/v1alpha1/datapreppercluster_types.go:85` says
  "spec.replicas is used as the initial replica count only";
* `server_config` with `SPECIFICATION Spec`, `Specs <- ClassySpec`,
  `Images = {i1, i2}` and `Classes = TRUE`, `ClassReachesClusters`: classes are not
  watched, and an edit of one reaches no cluster until something else wakes it.
  `examples/with-class/README.md:40` says that it "propagates the change to every
  Cluster on the next reconcile (a few seconds)";
* `rest` with `MaxUid = 2` and `MaxEdits = 4`, `SettledNoOrphans`: the cluster a
  pipeline has left keeps its entry;
* `merge` with one pipeline, `Defs <- TwoDefs` and `Lag <- DeploymentLag`,
  `SettledStamped`: an edit that is taken back leaves the hash of the text in between,
  until the status of the cluster changes the next time;
* `merge` with one pipeline, one key and `MaxUid = 2`, `SettledStamped`: the
  Deployment of the former cluster is stamped and collected, the new one gets no
  hash, and the status of the cluster, written again as it was, wakes nobody (the
  pods of the new Deployment have started with the text, only the hash is missing);
* `children` with `Lag <- PeerLag`, `ImplementsConvergence`: the peer config is
  left alone because the cache says that it is in line, and the status gets ahead
  of it;
* `autoscale` with `Lag <- PeerLag`, `Deletions = TRUE`, `MaxEdits = 4`, specs
  `{Plain, Pair}` and a garbage collector that takes the former peer config last,
  `SettledServerConfig`: the new cluster has overwritten the peer config of the
  former one, the stale cache still holds the text from before, which the next edit
  happens to ask for, and so the hash is written without the text;
* `health` with `UpIsHealthy`: a pod is inspected while it has failed, and readiness
  goes and comes back between two reconciles of the cluster, so that its status
  stays as it was; the pipeline stays Healthy=False with all pods up.  The same
  happens when the listing after the last change of the status fails.

Some properties are stated with the part that the code cannot give left out, and
the parts are worth knowing:

* `SettledChildren` excuses what is not watched (`unseen`): the class (`ClassReachesClusters`
  above) and the ServiceMonitor.
* `SettledStatus` does not ask for Ready if an autoscaler has scaled the cluster
  below `spec.replicas` (`ScaledIsReady` above).
* `HealthFollowsStatus` says nothing if the last listing of the pods failed.  The
  code drops that error (lines 126-131 of the pipeline controller), keeps the
  condition and does not retry.
* `SettledServerConfig` and `SettledApplied` say nothing about pods after an edit
  that is taken back.  ConfigMap and hash are written by two calls; a pod that
  starts between them runs with the new text under the old hash, and the way back
  finds the hash as it should be.
* `EventuallySettles` of `PipelineHealth` has the premise that pods can boot in the
  end.  Otherwise the condition follows a pod that crashes and restarts (or the
  unordered list of several), and each write of it wakes the controller that
  wrote it: without the premise TLC finds a cycle for any text in `BadTexts`.

### Bounds

One version of lag is enough for a cache to be stale at any read and for every
conflict; two pipelines are enough for a sibling's rebuild, a duplicate key and
an exchange of keys; two names of clusters for a move, two incarnations for a
re-creation.
Three or four edits reach create-edit-delete of a pipeline beside the creation of
its cluster.  One fault between any two calls is enough to leave any handler half
done; retries are unbounded.  Informers are late in some runs and faults happen
in others, since all together exceed what TLC can explore.  Budgets (`MaxEdits`,
`MaxUid`, `MaxFaults`, `MaxEvents`, `Lag`) are guards of the environment's
actions, never of the operator's; the proofs hold for all their values.

`Rank` bounds the order in which the garbage collector of `ClusterReconciler`
takes the children of a former cluster: in run `children` it is the order of
`InOrder`, interleaved with everything else, because all orders would be too many.
Faults and changes of the load share one budget there, and in `PipelineHealth` all
that may happen shares `MaxEvents`: one of them is the creation of the cluster, the
other an edit, a crash, a failed call or a restart at any moment.  Safety of
`PipelineHealth` was also checked with two replicas.

Names of pipelines, clusters, images and (if none is blank) keys are
interchangeable and used as symmetry sets, except in runs with liveness.

### Fairness

`FairSpec` asks for weak fairness of deliveries (watches are reestablished by
client-go), of the next call of a busy worker, of collection and rollouts and of
an autoscaler outside its range; nothing of users, load and faults.  A request in
the queue of a controller is taken by strong fairness per name: the work queue is
first in first out, and a worker that is again and again busy comes to every
request.  `ClusterReconciler` and `PipelineHealth` have one request per queue, for
which weak fairness is enough; what is asked of informers and garbage collector
there is only that one of several possible steps is taken.  In `PipelineHealth` a
container that cannot boot crashes in the end, and one that can is started again
and gets ready.  A failed request goes back to the queue at once; the model has no
back-off, which delays but never drops a retry.

## 4. What is proved

TLAPS checks the theorems below for all values of the constants: any number of
pipelines, clusters, keys and specs, any lag of the informers, any budgets.  The
assumptions on the constants say only that they are well-formed:
`DefinitionAssumption` (finitely many pipelines), `OperatorAssumption`,
`ClusterAssumption` (a spec has no autoscaler or one), `HealthAssumption` (at least
one replica), and `ObjectAssumption` of each module (`Absent` is no object).

| Theorem | Statement |
|---|---|
| `PipelineOperatorProofs!TypeCorrect` | `Spec => []TypeOK` |
| `LifecycleProofs!AppliedIsGuarded` | `Spec => []AppliedHasFinalizer` |
| `LifecycleProofs!LifecycleIsImplemented` | `Spec => ImplementsLifecycle` |
| `RolloutProofs!StampsArePublished` | `Spec => []StampedWasPublished` |
| `RolloutProofs!HashIsOwned` | `Spec => HashOwnedByPipelines` |
| `PublicationProofs!LastGoodText` | `Spec => LastGoodTextStays` |
| `PublicationProofs!AppliedIsTrue` | `Spec => []AppliedWasPublished` |
| `PublicationProofs!NothingIsOrphaned` | `Spec => NoOrphanOnDelete`, with webhooks, up-to-date informers of pipelines and ConfigMaps, and no drift by hand |
| `SettlingProofs!ClusterUpdatesAreNotLost` | `Spec => []SettledCluster` |
| `SettlingProofs!PipelineUpdatesAreNotLost` | `Spec => []SettledMerged` |
| `SettlingProofs!HashIsCurrent` | `Spec /\ [][DeploymentsStay]_vars => []SettledStamped`, with an up-to-date informer of Deployments |
| `ClusterReconcilerProofs!TypeCorrect` | `Spec => []TypeOK` |
| `ClusterReconcilerProofs!ConvergenceIsImplemented` | `Spec => ImplementsConvergence`, with up-to-date informers of the children that are compared before they are written: the two ConfigMaps, the headless Service, the autoscaler |
| `ClusterReconcilerProofs!ChildrenAreInLine` | `Spec => []SettledChildren` |
| `ClusterReconcilerProofs!StatusIsTrue` | `Spec => []SettledStatus` |
| `ClusterReconcilerProofs!PodsReadTheirConfig` | `Spec => []SettledServerConfig`, with an up-to-date informer of the peer config |
| `PipelineHealthProofs!TypeCorrect` | `Spec => []TypeOK` |
| `PipelineHealthProofs!HealthIsCurrent` | `Spec => []HealthFollowsStatus` |
| `PipelineHealthProofs!UpdatesReachPods` | `Spec => []SettledApplied` |

Four theorems have hypotheses, because their properties are false without
them.  Section 3 lists the instances: `NoOrphanOnDelete` fails with a late informer
of ConfigMaps, `SettledServerConfig` and
`ImplementsConvergence` with one of the peer config, and `SettledStamped` with a
late informer of Deployments or with a Deployment that is collected
(`DeploymentsStay` excludes that); and a user who writes an entry back into the
ConfigMap (`Drifts`) orphans it by hand.  `faults` goes beyond the hypotheses of
`NothingIsOrphaned`, since it checks `NoOrphanOnDelete` without webhooks.

The arguments:

* `InformerProofs` states what the history operators preserve: `Commit`,
  `Deliver` and `Relist` keep a history non-empty and typed, add no version
  but the committed one, and keep the order of those they leave.
* **Life cycle.**  `AppliedHasFinalizer` is not inductive: `SetStatus` writes the
  object the worker has read some steps before.  `WorkerInv` strengthens it by what
  the place the worker has reached says about its copy: which branch of `Reconcile`
  the copy took (with or without finalizer, deleting or not), and that the copy is
  itself not Applied without a finalizer.  The refinement
  follows from the invariant and the comparison of `Actual` with `pw.obj`:
  each operator write is a step of the abstract life cycle or a stutter, as are
  the user's.
* **Stamps.**  `StampedWasPublished` needs that the text a worker is about to stamp
  is published (`StampIsPublished`) and that every version of a ConfigMap that may
  still be read has been published (`TextsWerePublished`): a skipped update
  compares with a cached version.  The stamp may be late, but its text was once
  there.  `HashOwnedByPipelines` follows from the conflict check: an update of the
  cluster controller carries the annotation of the cached Deployment and is
  accepted only if the cached Deployment is the actual one.
* **Publication.**  `LastGoodTextStays`: a rebuild either ends before the ConfigMap
  is written, or renders everything that the cached list has for the cluster but
  the pipeline that is being deleted, and `OrderInv` (below) tells that a pipeline
  with its finalizer that nobody touches is in that list and is not the one.
  `AppliedWasPublished` is about three readings of one pipeline: the `Get`, the
  `List` that renders the text, and the comparison at the status update.  The
  cached object may be replaced in between, even by a new pipeline of the same
  name, so one has to know that an object that has been replaced does not come
  back: `OrderInv` says that the generations of the versions that carry the
  finalizer never go down, and that a history does not lose the finalizer and gain
  it again, however many versions it has.  From it follows that what the worker has
  rendered and stamped is what the status will speak of (`WorkerCurrent`,
  `WorkerPublished`) and that no status is ahead of its pipeline
  (`ObservedNotAhead`).
* **No lost update.**  `SettlingProofs` has one scheme for both controllers: an
  object for which there is no request in the queue is either in the hands of a
  worker that holds exactly what is cached, or done as far as the cache tells
  (`ClusterDone`, `PipelineDone`).  "Done" is stated per stage, since a worker that
  has passed a stage vouches for it until an event comes: the pipeline waits for a
  cluster only while the cache has none (`WaitsForCluster`), a pipeline that is
  Applied has a cluster (`HasCluster`) and its entry is in the ConfigMap unless a
  change of the ConfigMap is still on its way (`EntryThere` with `Quiet`).  The
  finalizer of a deleted pipeline is part of the argument
  (`DeletingHasFinalizer`): without it nothing would remember the entry to remove.
* **Current hash.**  `SettledStamped` relates two objects of which the pipeline
  controller watches only one.  `HashInv`: the text about to be stamped is that
  of the ConfigMap, unless an event of it is on its way; and a pipeline that is
  Applied under a cluster whose status has been written finds the hash on the
  Deployment.  The status is written only once there is a Deployment
  (`ObservedHasDeployment`), and this is the event that brings the pipelines back
  to a Deployment that was not there when their text was merged.
* **Convergence.**  The types of `ClusterReconciler` need one fact about the order of
  steps, `MonitorInv`: no ServiceMonitor is read without its CRD.
  `ConvergenceInv` says that every generation of a version is bounded by those
  after it and by `revision` (`Generations`), and that a child the worker has passed
  has been brought into line with a generation not older than its copy
  (`WorkerGeneration` with `Done`).  That is true only of a child that is written, or
  found in line in a cache that is up to date (`Exact`).  Every step is then a step of
  `ClusterConvergence` or a stutter.
* **Children at rest.**  `SettlingInv` follows each child through the reconcile:
  if there is no request, the worker holds what is cached and the children it has
  passed are as `Wanted` from this copy and the class that it resolved, or an event
  of them is on its way (`LineInv`); the class the worker has read is the actual one
  or `unseen` says so (`ClassInv`); what the Deployment reports is what the pods
  are (`PodsInv`, for `SettledStatus`).
* **Server configuration.**  Pods may start between the write of the peer config and
  that of the hash, so what holds is stated by generation.  `SpecInv`: a generation
  has one spec.  `ConfigInv`: the template has the hash of the spec it was last
  brought into line with, the peer config the text of the spec it was brought into
  line with, and the template is never ahead.  From the generations that may still be
  read one then knows what a pod that starts reads (`BootFacts`), and `BootInv`
  follows the pods: all those whose template asks for what the spec asks for have
  it, because a cluster that has been edited once has only one other
  configuration to come from, and that has another hash.
* **Health.**  The types of `PipelineHealth` need the order in which the controllers
  create things (`InOrder`).  `HealthFollowsStatus` follows from `AtRest`: without a
  request, the worker holds what is there (`Reading`), or is idle and the last
  listing of the pods, if it succeeded, has seen the cluster status that is there
  and its result is in the condition (`Resting`).  `SettledApplied` adds which text
  the worker holds and what ConfigMap, hash and pods have of it as long as the
  pipeline has not been edited twice (`TextInv`).

Only model-checked:

* liveness (`EventuallySettles`, `DeletionCompletes`), which together with `ENABLED`
  is out of the prover's reach;
* `NoOrphanOnDelete` without webhooks;
* the violations, of section 3.  TLC finds the counterexamples; there is nothing to prove.

## 5. What is not modelled

* The pipelines' texts in `ClusterReconciler` (they are in `PipelineOperator`);
  children other than ConfigMap and Deployment in `PipelineOperator`, where an
  error in one of them is a failed call; deletion, sibling pipelines and late
  informers in `PipelineHealth`.
* Messages and transition times of conditions, except the pod that the message of
  Healthy names.
* Labels.  Reading the source shows one thing that no model is needed for: the
  ServiceMonitor selects Services with the label `app` (line 678 of the cluster
  controller), and the Services that the operator creates have no labels.
* Two operator processes (leader election), users who remove finalizers by hand,
  and the informers' periodic resync (hours).
* A lost response: a call that had its effect and returns an error looks like a
  success followed by a failure of the next call, or by a restart.
* Objects are compared by value where the API server compares resourceVersions:
  a write that meets a later version of equal value is accepted.
* The Service is written at every reconcile: the API server fills in the protocol
  of a port, which the desired object leaves empty, so the comparison of the
  ports never succeeds.  The write changes nothing and makes no event.
* Flags, TLS, metrics and probes of `cmd/main.go`, generated code, manifests,
  tests.

## 6. Plan

Done: the models of section 2, their runs, and theorems for every safety property of a
passing run.

Next: `NothingIsOrphaned` without webhooks, where a sibling that spoils the merge
keeps the finalizer from being given up.
