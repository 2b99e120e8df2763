-------------------------- MODULE PipelineOperator --------------------------
(***************************************************************************)
(* The two reconcilers of the operator around the state they share: the    *)
(* pipelines, and of every cluster the object itself, the ConfigMap        *)
(* <cluster>-pipelines and the Deployment.                                 *)
(*                                                                         *)
(* DataPrepperPipelineReconciler is modelled whole, apart from the Healthy *)
(* condition, which no decision depends on (see PipelineHealth).           *)
(* DataPrepperClusterReconciler is modelled as far as it touches this      *)
(* state: ConfigMap, Deployment and status.  Its other children (see       *)
(* ClusterReconciler) do not interact with pipelines; an error in one of   *)
(* them, which ends the reconcile early, is a fault here.                  *)
(*                                                                         *)
(* Each controller has one worker (MaxConcurrentReconciles is 1) and a     *)
(* queue without duplicates.  The two workers, the informers, the user,    *)
(* the garbage collector and the Deployment controller take their steps in *)
(* any order.  A step of a worker ends with at most one API call.  It may  *)
(* read several caches first: an event that arrives between two of these   *)
(* reads might as well come before the step, or after it.                  *)
(***************************************************************************)
EXTENDS Informer, PipelineDefinition

CONSTANTS Images,      \* resolved pod templates (image, class, volumes ...)
          Drifts,      \* texts somebody may write into the ConfigMap by hand
          Lag,         \* bound: versions an informer may be behind, by kind
          Webhooks,    \* ENABLE_WEBHOOKS
          Moves,       \* whether a user edits spec.clusterRef
          MaxEdits,    \* bound: changes by users
          MaxUid,      \* bound: cluster incarnations
          MaxFaults    \* bound: failed API calls and restarts

Kinds == {"pipelines", "clusters", "configmaps", "deployments"}

ASSUME OperatorAssumption ==
    /\ Drifts \subseteq Contents
    /\ Lag \in [Kinds -> Nat]
    /\ Webhooks \in BOOLEAN /\ Moves \in BOOLEAN
    /\ MaxEdits \in Nat /\ MaxFaults \in Nat /\ MaxUid \in Nat

VARIABLES
    plv,        \* history of the DataPrepperPipelines
    clv,        \* history of the DataPrepperClusters
    cmv,        \* history of the ConfigMaps, by cluster
    dpv,        \* history of the Deployments, by cluster
    pq, cq,     \* the queues of the two controllers
    pw, cw,     \* the workers of the two controllers
    published,  \* history variable: the texts a ConfigMap has ever held
    edits, uids, faults

stores  == <<plv, clv, cmv, dpv>>
bounds  == <<edits, uids, faults>>
vars    == <<stores, pq, cq, pw, cw, published, bounds>>

(***************************************************************************)
(* Objects.  uid tells incarnations of a cluster apart; a child keeps the  *)
(* uid of its controller owner.  status is empty or holds what             *)
(* reconcileStatus wrote.  rolled: the pods of the current template are up *)
(* (generation observed and all replicas updated).                         *)
(***************************************************************************)
ClusterStatus == [progressing : BOOLEAN, pipelines : Nat]
ClusterObject == [uid : Nat, image : Images, status : SUBSET ClusterStatus,
                  observed : BOOLEAN]
ConfigMap     == [uid : Nat, content : Contents]
Deployment    == [uid : Nat, image : Images, hash : SUBSET Contents,
                  rolled : BOOLEAN]

ASSUME ObjectAssumption ==
    Absent \notin PipelineObject \cup ConfigMap \cup Deployment

ClusterStore    == [Clusters -> ClusterObject \cup {Absent}]
ConfigMapStore  == [Clusters -> ConfigMap \cup {Absent}]
DeploymentStore == [Clusters -> Deployment \cup {Absent}]

\* pc names the API call a worker is about to make; obj is what the first Get
\* of the reconcile returned.
PipelineWorker ==
    [pc      : {"idle", "addFinalizer", "rebuild", "stamp", "removeFinalizer",
                "Pending", "Applied"},
     name    : Pipelines \cup {Absent},
     obj     : PipelineObject \cup {Absent},
     content : Contents]
ClusterWorker ==
    [pc   : {"idle", "configmap", "deployment", "status"},
     name : Clusters \cup {Absent},
     obj  : ClusterObject \cup {Absent}]

PipelineIdle == [pc |-> "idle", name |-> Absent, obj |-> Absent,
                 content |-> PlaceholderContent]
ClusterIdle  == [pc |-> "idle", name |-> Absent, obj |-> Absent]

Init ==
    /\ plv = <<[p \in Pipelines |-> Absent]>>
    /\ clv = <<[c \in Clusters |-> Absent]>>
    /\ cmv = <<[c \in Clusters |-> Absent]>>
    /\ dpv = <<[c \in Clusters |-> Absent]>>
    /\ pq = {} /\ cq = {}
    /\ pw = PipelineIdle /\ cw = ClusterIdle
    /\ published = [c \in Clusters |-> {}]
    /\ edits = MaxEdits /\ uids = 0 /\ faults = MaxFaults

\* No informer is further behind than its bound; with the bound 0, a version
\* is delivered before anything else happens.
Fresh ==
    /\ Len(plv) <= 1 + Lag["pipelines"]
    /\ Len(clv) <= 1 + Lag["clusters"]
    /\ Len(cmv) <= 1 + Lag["configmaps"]
    /\ Len(dpv) <= 1 + Lag["deployments"]

SetPipeline(p, o)   == plv' = Commit(plv, [Actual(plv) EXCEPT ![p] = o])
SetCluster(c, o)    == clv' = Commit(clv, [Actual(clv) EXCEPT ![c] = o])
SetDeployment(c, o) == dpv' = Commit(dpv, [Actual(dpv) EXCEPT ![c] = o])
SetConfigMap(c, o)  ==
    /\ cmv' = Commit(cmv, [Actual(cmv) EXCEPT ![c] = o])
    /\ published' = IF o = Absent THEN published
                    ELSE [published EXCEPT ![c] = @ \cup {o.content}]

-----------------------------------------------------------------------------
(***************************************************************************)
(* Watches (SetupWithManager of the two controllers).                      *)
(***************************************************************************)
\* Faulty variant: the ConfigMap is not watched.
FindNoPipelines(c) == {}

\* findPipelinesForConfigMap and findPipelinesForCluster: every cached
\* pipeline that refers to the cluster, the ones being deleted included.
FindPipelinesForConfigMap(c) ==
    {p \in Pipelines : Cached(plv)[p] # Absent /\ Cached(plv)[p].cluster = c}
FindPipelinesForCluster(c) ==
    {p \in Pipelines : Cached(plv)[p] # Absent /\ Cached(plv)[p].cluster = c}

\* For(&DataPrepperPipeline{})
DeliverPipelines ==
    /\ ~Synced(plv)
    /\ plv' = Deliver(plv)
    /\ pq' = pq \cup Changed(plv)
    /\ UNCHANGED <<clv, cmv, dpv, cq, pw, cw, published, bounds>>

\* Watches(&ConfigMap{}) of one controller, Owns(&ConfigMap{}) of the other.
DeliverConfigMaps ==
    /\ ~Synced(cmv)
    /\ cmv' = Deliver(cmv)
    /\ pq' = pq \cup UNION {FindPipelinesForConfigMap(c) : c \in Changed(cmv)}
    /\ cq' = cq \cup Changed(cmv)
    /\ UNCHANGED <<plv, clv, dpv, pw, cw, published, bounds>>

\* Watches(&DataPrepperCluster{}) of one controller, For of the other.
DeliverClusters ==
    /\ ~Synced(clv)
    /\ clv' = Deliver(clv)
    /\ pq' = pq \cup UNION {FindPipelinesForCluster(c) : c \in Changed(clv)}
    /\ cq' = cq \cup Changed(clv)
    /\ UNCHANGED <<plv, cmv, dpv, pw, cw, published, bounds>>

\* Owns(&Deployment{}): the pipeline controller does not watch Deployments.
DeliverDeployments ==
    /\ ~Synced(dpv)
    /\ dpv' = Deliver(dpv)
    /\ cq' = cq \cup Changed(dpv)
    /\ UNCHANGED <<plv, clv, cmv, pq, pw, cw, published, bounds>>

-----------------------------------------------------------------------------
(***************************************************************************)
(* DataPrepperPipelineReconciler.Reconcile                                 *)
(***************************************************************************)
\* The reconcile ends without an error ...
PipelineReturn == pw' = PipelineIdle /\ UNCHANGED pq
\* Faulty variant: the error is logged and forgotten.
PipelineForgetsErr == pw' = PipelineIdle /\ UNCHANGED pq
\* ... or with one, and the request goes back to the queue.
PipelineReturnErr == pw' = PipelineIdle /\ pq' = pq \cup {pw.name}

PipelineGoto(pc) == pw' = [pw EXCEPT !.pc = pc] /\ UNCHANGED pq

\* Faulty variants: no finalizer before the first merge; a deletion removes the
\* finalizer at once.
BranchWithoutFinalizer(o) ==
    IF o.deleting
    THEN IF o.finalizer THEN "rebuild" ELSE "idle"
    ELSE IF Cached(clv)[o.cluster] = Absent THEN "Pending"
    ELSE "rebuild"
BranchWithoutRebuild(o) ==
    IF o.deleting
    THEN IF o.finalizer THEN "removeFinalizer" ELSE "idle"
    ELSE IF ~o.finalizer THEN "addFinalizer"
    ELSE IF Cached(clv)[o.cluster] = Absent THEN "Pending"
    ELSE "rebuild"

\* Where the cached object leads the reconcile to.
PipelineBranch(o) ==
    IF o.deleting
    THEN IF o.finalizer THEN "rebuild" ELSE "idle"
    ELSE IF ~o.finalizer THEN "addFinalizer"
    ELSE IF Cached(clv)[o.cluster] = Absent THEN "Pending"
    ELSE "rebuild"

\* Takes a request and reads the pipeline, and the cluster if it needs it.
PipelineReconcile(p) ==
    LET o == Cached(plv)[p] IN
    /\ Fresh
    /\ pw.pc = "idle"
    /\ p \in pq
    /\ pq' = pq \ {p}
    /\ pw' = IF o = Absent \/ PipelineBranch(o) = "idle" THEN PipelineIdle
             ELSE [pc |-> PipelineBranch(o), name |-> p, obj |-> o,
                   content |-> PlaceholderContent]
    /\ UNCHANGED <<stores, cq, cw, published, bounds>>

\* The admission decision for a write of pipeline p.  Updates of metadata,
\* the reconciler's own included, are validated like any other.
Admitted(p, o) == Webhooks => Validate(Cached(plv), p, o)

\* Faulty variant: the finalizer is applied to whatever is there, or not there
\* any more, instead of being part of an update.
AddFinalizerByApply ==
    /\ Fresh
    /\ pw.pc = "addFinalizer"
    /\ SetPipeline(pw.name, [pw.obj EXCEPT !.finalizer = TRUE])
    /\ PipelineReturn
    /\ UNCHANGED <<clv, cmv, dpv, cq, cw, published, bounds>>

\* AddFinalizer and Update; the update event brings the request back.
AddFinalizer ==
    LET o == [pw.obj EXCEPT !.finalizer = TRUE] IN
    /\ Fresh
    /\ pw.pc = "addFinalizer"
    /\ \/ /\ Actual(plv)[pw.name] = pw.obj /\ Admitted(pw.name, o)
          /\ SetPipeline(pw.name, o)
          /\ PipelineReturn
       \/ /\ ~(Actual(plv)[pw.name] = pw.obj /\ Admitted(pw.name, o))
          /\ UNCHANGED plv
          /\ PipelineReturnErr
    /\ UNCHANGED <<clv, cmv, dpv, cq, cw, published, bounds>>

\* Faulty variant: the error also stops a deletion.
RebuildNotFoundStops == PipelineReturnErr

\* A NotFound error of rebuildClusterConfig: ignored while deleting.
RebuildNotFound ==
    IF pw.obj.deleting THEN PipelineGoto("removeFinalizer")
    ELSE PipelineReturnErr

\* Faulty variants: pipelines that cannot be merged are answered with the
\* placeholder; the Deployment is stamped although the ConfigMap is not written.
RebuildWithPlaceholder ==
    LET c       == pw.obj.cluster
        exclude == IF pw.obj.deleting THEN pw.name ELSE Absent
        content == IF RenderFails(Cached(plv), c, exclude)
                   THEN PlaceholderContent
                   ELSE Render(Cached(plv), c, exclude)
        cm      == Cached(cmv)[c]
    IN
    /\ Fresh
    /\ pw.pc = "rebuild"
    /\ \/ /\ cm # Absent /\ UpToDate(cmv, c)
          /\ SetConfigMap(c, [cm EXCEPT !.content = content])
          /\ pw' = [pw EXCEPT !.pc = "stamp", !.content = content]
          /\ UNCHANGED pq
       \/ /\ cm = Absent \/ ~UpToDate(cmv, c)
          /\ PipelineReturnErr
          /\ UNCHANGED <<cmv, published>>
    /\ UNCHANGED <<plv, clv, dpv, cq, cw, bounds>>
RebuildWithoutUpdate ==
    LET c       == pw.obj.cluster
        exclude == IF pw.obj.deleting THEN pw.name ELSE Absent
    IN
    /\ Fresh
    /\ pw.pc = "rebuild"
    /\ \/ /\ RenderFails(Cached(plv), c, exclude)
          /\ PipelineReturnErr
       \/ /\ ~RenderFails(Cached(plv), c, exclude)
          /\ pw' = [pw EXCEPT !.pc = "stamp",
                              !.content = Render(Cached(plv), c, exclude)]
          /\ UNCHANGED pq
    /\ UNCHANGED <<stores, cq, cw, published, bounds>>

\* rebuildClusterConfig up to the update of the ConfigMap.
RebuildClusterConfig ==
    LET c       == pw.obj.cluster
        exclude == IF pw.obj.deleting THEN pw.name ELSE Absent
        content == Render(Cached(plv), c, exclude)
        cm      == Cached(cmv)[c]
        toStamp == /\ pw' = [pw EXCEPT !.pc = "stamp", !.content = content]
                   /\ UNCHANGED pq
    IN
    /\ Fresh
    /\ pw.pc = "rebuild"
    /\ \/ /\ RenderFails(Cached(plv), c, exclude)
          /\ PipelineReturnErr
          /\ UNCHANGED <<cmv, published>>
       \/ /\ ~RenderFails(Cached(plv), c, exclude)
          /\ \/ cm = Absent
             \/ /\ cm # Absent /\ cm.content # content
                /\ Actual(cmv)[c] = Absent
          /\ RebuildNotFound
          /\ UNCHANGED <<cmv, published>>
       \/ /\ ~RenderFails(Cached(plv), c, exclude)
          /\ cm # Absent /\ cm.content = content
          /\ toStamp
          /\ UNCHANGED <<cmv, published>>
       \/ /\ ~RenderFails(Cached(plv), c, exclude)
          /\ cm # Absent /\ cm.content # content /\ UpToDate(cmv, c)
          /\ SetConfigMap(c, [cm EXCEPT !.content = content])
          /\ toStamp
       \/ /\ ~RenderFails(Cached(plv), c, exclude)
          /\ cm # Absent /\ cm.content # content
          /\ ~UpToDate(cmv, c) /\ Actual(cmv)[c] # Absent
          /\ PipelineReturnErr
          /\ UNCHANGED <<cmv, published>>
    /\ UNCHANGED <<plv, clv, dpv, cq, cw, bounds>>

\* A new annotation in the pod template makes the pods of the Deployment old.
StampedDeployment(dep, hash) == [dep EXCEPT !.hash = hash, !.rolled = FALSE]

\* The rest of rebuildClusterConfig: the hash annotation on the Deployment.
StampDeployment ==
    LET c    == pw.obj.cluster
        dep  == Cached(dpv)[c]
        hash == Hash(pw.content)
        done == PipelineGoto(IF pw.obj.deleting THEN "removeFinalizer"
                             ELSE "Applied")
    IN
    /\ Fresh
    /\ pw.pc = "stamp"
    /\ \/ /\ \/ dep = Absent
             \/ dep # Absent /\ dep.hash # hash /\ Actual(dpv)[c] = Absent
          /\ RebuildNotFound
          /\ UNCHANGED dpv
       \/ /\ dep # Absent /\ dep.hash = hash
          /\ done
          /\ UNCHANGED dpv
       \/ /\ dep # Absent /\ dep.hash # hash /\ UpToDate(dpv, c)
          /\ SetDeployment(c, StampedDeployment(dep, hash))
          /\ done
       \/ /\ dep # Absent /\ dep.hash # hash
          /\ ~UpToDate(dpv, c) /\ Actual(dpv)[c] # Absent
          /\ PipelineReturnErr
          /\ UNCHANGED dpv
    /\ UNCHANGED <<plv, clv, cmv, cq, cw, published, bounds>>

\* RemoveFinalizer and Update: with it the object being deleted disappears.
RemoveFinalizer ==
    LET ok == /\ Actual(plv)[pw.name] = pw.obj
              /\ Admitted(pw.name, pw.obj)
    IN
    /\ Fresh
    /\ pw.pc = "removeFinalizer"
    /\ \/ ok /\ SetPipeline(pw.name, Absent) /\ PipelineReturn
       \/ ~ok /\ UNCHANGED plv /\ PipelineReturnErr
    /\ UNCHANGED <<clv, cmv, dpv, cq, cw, published, bounds>>

\* Faulty variants: the generation does not count as a change; the status goes
\* to whatever object is there by now.
SetStatusIgnoresGeneration ==
    LET o == [pw.obj EXCEPT !.phase = pw.pc,
                            !.observed = pw.obj.generation] IN
    /\ Fresh
    /\ pw.pc \in {"Pending", "Applied"}
    /\ \/ pw.obj.phase = pw.pc /\ PipelineReturn /\ UNCHANGED plv
       \/ /\ pw.obj.phase # pw.pc /\ Actual(plv)[pw.name] = pw.obj
          /\ SetPipeline(pw.name, o)
          /\ PipelineReturn
       \/ /\ pw.obj.phase # pw.pc /\ Actual(plv)[pw.name] # pw.obj
          /\ PipelineReturnErr /\ UNCHANGED plv
    /\ UNCHANGED <<clv, cmv, dpv, cq, cw, published, bounds>>
SetStatusOfCurrent ==
    LET now == Actual(plv)[pw.name] IN
    /\ Fresh
    /\ pw.pc \in {"Pending", "Applied"}
    /\ now # Absent
    /\ SetPipeline(pw.name, [now EXCEPT !.phase = pw.pc,
                                        !.observed = now.generation])
    /\ PipelineReturn
    /\ UNCHANGED <<clv, cmv, dpv, cq, cw, published, bounds>>

\* setStatus: no write when nothing changes (phase, generation and the Ready
\* condition, which follows from them).  The status subresource is not subject
\* to the webhook.
SetStatus ==
    LET o == [pw.obj EXCEPT !.phase = pw.pc,
                            !.observed = pw.obj.generation] IN
    /\ Fresh
    /\ pw.pc \in {"Pending", "Applied"}
    /\ \/ o = pw.obj /\ PipelineReturn /\ UNCHANGED plv
       \/ /\ o # pw.obj /\ Actual(plv)[pw.name] = pw.obj
          /\ SetPipeline(pw.name, o)
          /\ PipelineReturn
       \/ /\ o # pw.obj /\ Actual(plv)[pw.name] # pw.obj
          /\ PipelineReturnErr /\ UNCHANGED plv
    /\ UNCHANGED <<clv, cmv, dpv, cq, cw, published, bounds>>

PipelineController ==
    \/ \E p \in Pipelines : PipelineReconcile(p)
    \/ AddFinalizer
    \/ RebuildClusterConfig
    \/ StampDeployment
    \/ RemoveFinalizer
    \/ SetStatus

-----------------------------------------------------------------------------
(***************************************************************************)
(* DataPrepperClusterReconciler.Reconcile                                  *)
(***************************************************************************)
\* Faulty variant: the error is logged and forgotten.
ClusterForgetsErr == cw' = ClusterIdle /\ UNCHANGED cq

ClusterReturn    == cw' = ClusterIdle /\ UNCHANGED cq
ClusterReturnErr == cw' = ClusterIdle /\ cq' = cq \cup {cw.name}

ClusterGoto(pc) == cw' = [cw EXCEPT !.pc = pc] /\ UNCHANGED cq

\* Faulty variant: the reconcile goes on with an object that is not there.
ClusterReconcileMissing(c) ==
    /\ Fresh
    /\ cw.pc = "idle"
    /\ c \in cq
    /\ cq' = cq \ {c}
    /\ cw' = [pc |-> "configmap", name |-> c, obj |-> Cached(clv)[c]]
    /\ UNCHANGED <<stores, pq, pw, published, bounds>>

\* Takes a request and reads the cluster.  A cluster that is gone leaves its
\* children to the garbage collector.
ClusterReconcile(c) ==
    LET o == Cached(clv)[c] IN
    /\ Fresh
    /\ cw.pc = "idle"
    /\ c \in cq
    /\ cq' = cq \ {c}
    /\ cw' = IF o = Absent THEN ClusterIdle
             ELSE [pc |-> "configmap", name |-> c, obj |-> o]
    /\ UNCHANGED <<stores, pq, pw, published, bounds>>

\* An existing ConfigMap belongs to the pipeline controller, whatever it holds
\* and whichever incarnation of the cluster owns it.
ReconcileConfigMap ==
    LET c == cw.name IN
    /\ Fresh
    /\ cw.pc = "configmap"
    /\ \/ /\ Cached(cmv)[c] # Absent
          /\ ClusterGoto("deployment")
          /\ UNCHANGED <<cmv, published>>
       \/ /\ Cached(cmv)[c] = Absent /\ Actual(cmv)[c] = Absent
          /\ SetConfigMap(c, [uid |-> cw.obj.uid,
                              content |-> PlaceholderContent])
          /\ ClusterGoto("deployment")
       \/ /\ Cached(cmv)[c] = Absent /\ Actual(cmv)[c] # Absent
          /\ ClusterReturnErr                               \* AlreadyExists
          /\ UNCHANGED <<cmv, published>>
    /\ UNCHANGED <<plv, clv, dpv, pq, pw, bounds>>

\* Faulty variants: the annotations of the template are overwritten; an existing
\* Deployment is left as it is.
OverwrittenDeployment(dep, image) ==
    [dep EXCEPT !.image = image, !.hash = NoHash,
                !.rolled = @ /\ dep.image = image /\ dep.hash = NoHash]
KeptDeployment(dep, image) == dep

\* The update overwrites the pod template and takes over the hash annotation
\* of the cached Deployment.
UpdatedDeployment(dep, image) ==
    [dep EXCEPT !.image = image, !.rolled = @ /\ dep.image = image]

ReconcileDeployment ==
    LET c   == cw.name
        dep == Cached(dpv)[c]
    IN
    /\ Fresh
    /\ cw.pc = "deployment"
    /\ \/ /\ dep = Absent /\ Actual(dpv)[c] = Absent
          /\ SetDeployment(c, [uid |-> cw.obj.uid, image |-> cw.obj.image,
                               hash |-> NoHash, rolled |-> FALSE])
          /\ ClusterGoto("status")
       \/ /\ dep # Absent /\ UpToDate(dpv, c)
          /\ SetDeployment(c, UpdatedDeployment(dep, cw.obj.image))
          /\ ClusterGoto("status")
       \/ /\ ~UpToDate(dpv, c)           \* AlreadyExists, NotFound, Conflict
          /\ ClusterReturnErr
          /\ UNCHANGED dpv
    /\ UNCHANGED <<plv, clv, cmv, pq, pw, published, bounds>>

\* reconcileStatus writes only what has changed since the Get.
ReconcileStatus ==
    LET c   == cw.name
        dep == Cached(dpv)[c]
        new == [cw.obj EXCEPT
                  !.status = {[progressing |-> ~dep.rolled,
                               pipelines |-> Cardinality(
                                   Targets(Cached(plv), c, Absent))]},
                  !.observed = TRUE]
    IN
    /\ Fresh
    /\ cw.pc = "status"
    /\ \/ /\ dep = Absent
          /\ ClusterReturnErr /\ UNCHANGED clv
       \/ /\ dep # Absent /\ new = cw.obj
          /\ ClusterReturn /\ UNCHANGED clv
       \/ /\ dep # Absent /\ new # cw.obj /\ Actual(clv)[c] = cw.obj
          /\ SetCluster(c, new)
          /\ ClusterReturn
       \/ /\ dep # Absent /\ new # cw.obj /\ Actual(clv)[c] # cw.obj
          /\ ClusterReturnErr /\ UNCHANGED clv
    /\ UNCHANGED <<plv, cmv, dpv, pq, pw, published, bounds>>

ClusterController ==
    \/ \E c \in Clusters : ClusterReconcile(c)
    \/ ReconcileConfigMap
    \/ ReconcileDeployment
    \/ ReconcileStatus

-----------------------------------------------------------------------------
(***************************************************************************)
(* Faults.  A failing API call ends the reconcile with an error before the *)
(* call has an effect; a restart forgets queues and workers, and the new   *)
(* process gets an event for every object that exists.                     *)
(***************************************************************************)
Faulty == /\ Fresh
          /\ faults > 0 /\ faults' = faults - 1
          /\ UNCHANGED <<edits, uids>>

PipelineCallFails ==
    /\ Faulty
    /\ pw.pc # "idle"
    /\ PipelineReturnErr
    /\ UNCHANGED <<stores, cq, cw, published>>

ClusterCallFails ==
    /\ Faulty
    /\ cw.pc # "idle"
    /\ ClusterReturnErr
    /\ UNCHANGED <<stores, pq, pw, published>>

Restart ==
    /\ Faulty
    /\ plv' = Relist(plv) /\ clv' = Relist(clv)
    /\ cmv' = Relist(cmv) /\ dpv' = Relist(dpv)
    /\ pq' = {p \in Pipelines : Actual(plv)[p] # Absent}
    /\ cq' = {c \in Clusters : \/ Actual(clv)[c] # Absent
                               \/ Actual(cmv)[c] # Absent
                               \/ Actual(dpv)[c] # Absent}
    /\ pw' = PipelineIdle /\ cw' = ClusterIdle
    /\ UNCHANGED published

-----------------------------------------------------------------------------
(***************************************************************************)
(* Users.  Every write of a pipeline passes the webhook, which decides     *)
(* from the operator's cache.                                              *)
(***************************************************************************)
Edits == Fresh /\ edits > 0 /\ edits' = edits - 1 /\ UNCHANGED faults

CreatePipeline(p, c, k, d) ==
    LET o == [cluster |-> c, key |-> k, def |-> d, generation |-> 1,
              deleting |-> FALSE, finalizer |-> FALSE, phase |-> "",
              observed |-> 0]
    IN
    /\ Edits
    /\ Actual(plv)[p] = Absent
    /\ Admitted(p, o)
    /\ SetPipeline(p, o)
    /\ UNCHANGED <<clv, cmv, dpv, pq, cq, pw, cw, published, uids>>

\* A change of the spec increments metadata.generation; so does a deletion.
EditPipeline(p, c, k, d) ==
    LET old == Actual(plv)[p]
        o   == [old EXCEPT !.cluster = c, !.key = k, !.def = d,
                           !.generation = @ + 1]
    IN
    /\ Edits
    /\ old # Absent
    /\ <<c, k, d>> # <<old.cluster, old.key, old.def>>
    /\ Moves \/ c = old.cluster
    /\ Admitted(p, o)
    /\ SetPipeline(p, o)
    /\ UNCHANGED <<clv, cmv, dpv, pq, cq, pw, cw, published, uids>>

\* With a finalizer the object stays, marked, until RemoveFinalizer.
DeletePipeline(p) ==
    LET old == Actual(plv)[p] IN
    /\ Edits
    /\ old # Absent /\ ~old.deleting
    /\ SetPipeline(p, IF old.finalizer
                      THEN [old EXCEPT !.deleting = TRUE, !.generation = @ + 1]
                      ELSE Absent)
    /\ UNCHANGED <<clv, cmv, dpv, pq, cq, pw, cw, published, uids>>

CreateCluster(c, image) ==
    /\ Edits
    /\ uids < MaxUid /\ uids' = uids + 1
    /\ Actual(clv)[c] = Absent
    /\ SetCluster(c, [uid |-> uids', image |-> image, status |-> {},
                      observed |-> FALSE])
    /\ UNCHANGED <<plv, cmv, dpv, pq, cq, pw, cw, published>>

EditCluster(c, image) ==
    LET old == Actual(clv)[c] IN
    /\ Edits
    /\ old # Absent /\ old.image # image
    /\ SetCluster(c, [old EXCEPT !.image = image, !.observed = FALSE])
    /\ UNCHANGED <<plv, cmv, dpv, pq, cq, pw, cw, published, uids>>

DeleteCluster(c) ==
    /\ Edits
    /\ Actual(clv)[c] # Absent
    /\ SetCluster(c, Absent)
    /\ UNCHANGED <<plv, cmv, dpv, pq, cq, pw, cw, published, uids>>

DriftConfigMap(c, content) ==
    LET old == Actual(cmv)[c] IN
    /\ Edits
    /\ old # Absent /\ old.content # content
    /\ SetConfigMap(c, [old EXCEPT !.content = content])
    /\ UNCHANGED <<plv, clv, dpv, pq, cq, pw, cw, uids>>

User ==
    \/ \E p \in Pipelines, c \in Clusters, k \in Keys, d \in Defs :
         CreatePipeline(p, c, k, d) \/ EditPipeline(p, c, k, d)
    \/ \E p \in Pipelines : DeletePipeline(p)
    \/ \E c \in Clusters, i \in Images :
         CreateCluster(c, i) \/ EditCluster(c, i)
    \/ \E c \in Clusters : DeleteCluster(c)
    \/ \E c \in Clusters, x \in Drifts : DriftConfigMap(c, x)

-----------------------------------------------------------------------------
(***************************************************************************)
(* Kubernetes.  A child is collected when the incarnation of the cluster   *)
(* that owns it is gone.  The Deployment controller brings up pods of the  *)
(* current template; what they read when they start is in PipelineHealth.  *)
(***************************************************************************)
OwnerGone(c, child) ==
    /\ child # Absent
    /\ Actual(clv)[c] # Absent => Actual(clv)[c].uid # child.uid

CollectConfigMap(c) ==
    /\ Fresh
    /\ OwnerGone(c, Actual(cmv)[c])
    /\ SetConfigMap(c, Absent)
    /\ UNCHANGED <<plv, clv, dpv, pq, cq, pw, cw, bounds>>

CollectDeployment(c) ==
    /\ Fresh
    /\ OwnerGone(c, Actual(dpv)[c])
    /\ SetDeployment(c, Absent)
    /\ UNCHANGED <<plv, clv, cmv, pq, cq, pw, cw, published, bounds>>

RolloutComplete(c) ==
    LET dep == Actual(dpv)[c] IN
    /\ Fresh
    /\ dep # Absent /\ ~dep.rolled /\ Actual(cmv)[c] # Absent
    /\ SetDeployment(c, [dep EXCEPT !.rolled = TRUE])
    /\ UNCHANGED <<plv, clv, cmv, pq, cq, pw, cw, published, bounds>>

Kubernetes == \E c \in Clusters :
    CollectConfigMap(c) \/ CollectDeployment(c) \/ RolloutComplete(c)

Informers ==
    \/ DeliverPipelines \/ DeliverConfigMaps
    \/ DeliverClusters \/ DeliverDeployments

Next ==
    \/ Informers
    \/ PipelineController
    \/ ClusterController
    \/ PipelineCallFails
    \/ ClusterCallFails
    \/ Restart
    \/ User
    \/ Kubernetes

Spec == Init /\ [][Next]_vars

(***************************************************************************)
(* Fairness.  Watch events arrive, a worker that holds a request goes on,  *)
(* Kubernetes does its part; nothing is asked of users and faults.  The    *)
(* queue is first in, first out, so a request that stays queued is taken   *)
(* even though the worker is again and again busy with others: strong      *)
(* fairness per request.                                                   *)
(***************************************************************************)
PipelineStep == AddFinalizer \/ RebuildClusterConfig \/ StampDeployment
                  \/ RemoveFinalizer \/ SetStatus
ClusterStep  == ReconcileConfigMap \/ ReconcileDeployment \/ ReconcileStatus

Fairness ==
    /\ WF_vars(DeliverPipelines) /\ WF_vars(DeliverConfigMaps)
    /\ WF_vars(DeliverClusters) /\ WF_vars(DeliverDeployments)
    /\ WF_vars(PipelineStep)
    /\ WF_vars(ClusterStep)
    /\ \A p \in Pipelines : SF_vars(PipelineReconcile(p))
    /\ \A c \in Clusters : SF_vars(ClusterReconcile(c))
    /\ \A c \in Clusters : /\ WF_vars(CollectConfigMap(c))
                           /\ WF_vars(CollectDeployment(c))
                           /\ WF_vars(RolloutComplete(c))

FairSpec == Spec /\ Fairness

-----------------------------------------------------------------------------
(***************************************************************************)
(* Types.                                                                  *)
(***************************************************************************)
\* Every variable holds a value of its kind, and a busy worker knows the
\* object it works on.
TypeOK ==
    /\ plv \in History(PipelineStore)
    /\ clv \in History(ClusterStore)
    /\ cmv \in History(ConfigMapStore)
    /\ dpv \in History(DeploymentStore)
    /\ pq \subseteq Pipelines /\ cq \subseteq Clusters
    /\ pw \in PipelineWorker /\ cw \in ClusterWorker
    /\ pw.pc # "idle" => pw.name \in Pipelines /\ pw.obj \in PipelineObject
    /\ cw.pc # "idle" => cw.name \in Clusters /\ cw.obj \in ClusterObject
    /\ published \in [Clusters -> SUBSET Contents]
    /\ edits \in Nat /\ uids \in Nat /\ faults \in Nat

(***************************************************************************)
(* Safety.                                                                 *)
(***************************************************************************)
\* A pipeline reported as Applied carries the finalizer: Reconcile persists
\* the finalizer before it merges the pipeline, so that no pipeline whose
\* status claims it is merged can be deleted behind the operator's back.
AppliedHasFinalizer ==
    \A s \in Versions(plv) : \A p \in Pipelines :
      s[p] # Absent /\ s[p].phase = "Applied" => s[p].finalizer

\* A status that says Applied for the current generation is true: the text of
\* the ConfigMap has held this very definition under this key ("pipeline
\* content merged into cluster ConfigMap").  The worker reads the pipeline,
\* renders from a later list and writes the status later still.
AppliedWasPublished ==
    \A p \in Pipelines :
      LET o == Actual(plv)[p] IN
      o # Absent /\ o.phase = "Applied" /\ o.observed = o.generation
        => EntryOf(o) \in UNION published[o.cluster]

\* rebuildClusterConfig writes the ConfigMap before it stamps the Deployment,
\* and reconcileDeployment carries the annotation over: the hash in the pod
\* template is always the hash of a text the ConfigMap has held.  A pod that
\* starts because of a new hash can find the text it stands for.
StampedWasPublished ==
    \A s \in Versions(dpv) : \A c \in Clusters :
      s[c] # Absent => s[c].hash \subseteq published[c]

\* The hash annotation of a Deployment that stays is changed by the pipeline
\* controller alone: no update of the cluster controller loses it or brings
\* an old one back (preservedPipelinesHash, and the conflict check behind it).
HashOwnedByPipelines ==
    [][\A c \in Clusters :
         LET old == Actual(dpv)[c]
             new == Actual(dpv')[c]
         IN  old # Absent /\ new # Absent /\ new.hash # old.hash
               => pw.pc = "stamp" /\ pw.obj.cluster = c]_vars

\* The operator and Kubernetes have nothing left to do.
Settled ==
    /\ Synced(plv) /\ Synced(clv) /\ Synced(cmv) /\ Synced(dpv)
    /\ pq = {} /\ cq = {} /\ pw.pc = "idle" /\ cw.pc = "idle"
    /\ \A c \in Clusters : /\ ~OwnerGone(c, Actual(cmv)[c])
                           /\ ~OwnerGone(c, Actual(dpv)[c])
                           /\ Actual(dpv)[c] # Absent => Actual(dpv)[c].rolled

Live(p)   == Actual(plv)[p] # Absent
Exists(c) == Actual(clv)[c] # Absent

\* Whatever the order of events, no update is lost: when nothing is left to
\* do, no deletion is pending, every pipeline has its finalizer, its entry is
\* in the ConfigMap of its cluster and its status says so for the current
\* generation; a pipeline without a cluster says Pending.
SettledMerged ==
    Settled => \A p \in Pipelines : Live(p) =>
      LET o == Actual(plv)[p] IN
      /\ ~o.deleting /\ o.finalizer /\ o.observed = o.generation
      /\ IF Exists(o.cluster)
         THEN /\ o.phase = "Applied"
              /\ Actual(cmv)[o.cluster] # Absent
              /\ EntryOf(o) \in Actual(cmv)[o.cluster].content
         ELSE o.phase = "Pending"

\* When nothing is left to do, a cluster has its own children (never those of
\* an earlier cluster of the same name), with the pod template its spec asks
\* for, and its status is about the current generation; a deleted cluster has
\* none.
SettledCluster ==
    Settled => \A c \in Clusters :
      IF Exists(c)
      THEN /\ Actual(cmv)[c] # Absent /\ Actual(dpv)[c] # Absent
           /\ Actual(cmv)[c].uid = Actual(clv)[c].uid
           /\ Actual(dpv)[c].uid = Actual(clv)[c].uid
           /\ Actual(dpv)[c].image = Actual(clv)[c].image
           /\ Actual(clv)[c].observed
      ELSE Actual(cmv)[c] = Absent /\ Actual(dpv)[c] = Absent

\* When nothing is left to do, the annotation is the hash of the text that the
\* ConfigMap holds, if there are pipelines.
SettledStamped ==
    Settled => \A p \in Pipelines :
      LET c == Actual(plv)[p].cluster IN
      Live(p) /\ Exists(c) => Actual(dpv)[c].hash = Hash(Actual(cmv)[c].content)

\* When nothing is left to do, the ConfigMap holds nothing but the entries of
\* pipelines that target the cluster.
SettledNoOrphans ==
    Settled => \A c \in Clusters : Exists(c) =>
      Actual(cmv)[c].content \subseteq
        {EntryOf(Actual(plv)[p]) :
           p \in {q \in Pipelines : Live(q) /\ Actual(plv)[q].cluster = c}}

\* One bad pipeline fails every rebuild of its cluster, and the text stays the
\* last good one: the entry of a pipeline that has its finalizer and that nobody
\* touches (all its versions that may still be read agree) is never taken out of
\* a ConfigMap that stays, whatever its siblings are like and whichever pipeline
\* the rebuild was for.  Only a user may do so by hand.
LastGoodTextStays ==
    [][\A c \in Clusters, p \in Pipelines :
         LET old == Actual(cmv)[c]
             new == Actual(cmv')[c]
             Untouched(e) ==
               \A s \in Versions(plv) :
                 /\ s[p] # Absent /\ s[p].finalizer /\ ~s[p].deleting
                 /\ s[p].cluster = c /\ EntryOf(s[p]) = e
         IN  old # Absent /\ new # Absent /\ edits' = edits =>
               \A e \in old.content : Untouched(e) => e \in new.content]_vars

\* A pipeline with the finalizer leaves the API server only after its entry
\* has left the ConfigMap of its cluster (or the cluster has no ConfigMap, or
\* the key belongs to another pipeline by now).
NoOrphanOnDelete ==
    [][\A p \in Pipelines :
         LET o  == Actual(plv)[p]
             cm == Actual(cmv)[o.cluster]
         IN  Live(p) /\ o.finalizer /\ Actual(plv')[p] = Absent /\ cm # Absent
               => \A e \in cm.content : e.key = o.key =>
                    \E q \in Pipelines \ {p} :
                      /\ Live(q)
                      /\ Actual(plv)[q].cluster = o.cluster
                      /\ Actual(plv)[q].key = o.key]_vars

(***************************************************************************)
(* Liveness.                                                               *)
(***************************************************************************)
\* A deletion is never blocked for good: the finalizer is removed.
DeletionCompletes ==
    \A p \in Pipelines :
      Live(p) /\ Actual(plv)[p].deleting ~> ~Live(p)

\* The two controllers react to each other's writes, but not for ever: once
\* the users stop, the operator comes to rest.
EventuallySettles == <>[]Settled

(***************************************************************************)
(* Refinement: what the API server holds of a pipeline is a state of its   *)
(* life.                                                                   *)
(***************************************************************************)
LifeOf(o) ==
    IF o = Absent THEN "absent"
    ELSE IF ~o.finalizer THEN "unguarded"
    ELSE IF o.deleting THEN "deleting"
    ELSE IF o.phase = "Applied" THEN "applied"
    ELSE "guarded"

Lifecycle == INSTANCE PipelineLifecycle
               WITH life <- [p \in Pipelines |-> LifeOf(Actual(plv)[p])]

\* The operator, its users and Kubernetes together keep to the life cycle.
ImplementsLifecycle == Lifecycle!Spec

=============================================================================
