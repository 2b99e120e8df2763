--------------------------- MODULE PipelineHealth ---------------------------
(***************************************************************************)
(* The Healthy condition of a pipeline, and the chain of events behind it: *)
(* containers change, the Deployment counts ready pods, the cluster        *)
(* controller copies that into the status of the cluster, the watch on     *)
(* clusters wakes the pipeline controller, and that one looks at the pods. *)
(*                                                                         *)
(* One pipeline with its finalizer, and its cluster.  Both controllers are *)
(* modelled as far as the chain needs them, with informers that are up to  *)
(* date: life cycle, merging, webhook and late informers are in            *)
(* PipelineOperator, the other children and the autoscaler in              *)
(* ClusterReconciler.                                                      *)
(***************************************************************************)
EXTENDS Naturals

CONSTANTS Texts,      \* texts of the pipeline
          BadTexts,   \* those with which Data Prepper does not boot
          NoText,     \* the placeholder, and no hash of a text
          Replicas,   \* spec.replicas of the cluster
          MaxEvents,  \* bound: changes by users, failed calls, restarts and
                      \* crashes of pods that can run
          Absent      \* "no such object"

ASSUME HealthAssumption ==
    /\ BadTexts \subseteq Texts /\ NoText \notin Texts
    /\ Replicas \in Nat \ {0} /\ MaxEvents \in Nat

(***************************************************************************)
(* Objects.  The Healthy condition is empty before the first inspection;   *)
(* its message names a pod.                                                *)
(***************************************************************************)
Condition == [reason : {"NoPods", "waiting", "failed", "running"}, pod : Nat,
              generation : Nat]
Status    == [phase : {"Pending", "Ready", "Degraded"}, readyReplicas : Nat,
              progressing : BOOLEAN]

Objects ==
    [pipeline   |-> [text : Texts, generation : Nat,
                     phase : {"None", "Pending", "Applied"}, observed : Nat,
                     healthy : SUBSET Condition],
     cluster    |-> [status : SUBSET Status],
     configmap  |-> Texts \cup {NoText},
     deployment |-> [hash : Texts \cup {NoText}, ready : Nat,
                     created : BOOLEAN, seen : BOOLEAN]]

Kinds == DOMAIN Objects

ASSUME ObjectAssumption == \A k \in Kinds : Absent \notin Objects[k]

\* What the container data-prepper of a pod shows: nothing yet, a reason for
\* waiting, a reason for having failed, or that it runs; or whatever, in a pod
\* that has been deleted and is still there.
ContainerState == {"pending", "waiting", "failed", "running", "terminating"}

\* What a listing of the pods has found, and the status of the cluster then.
Inspection == [status : SUBSET Status, found : Condition]

VARIABLES obj,        \* by kind: the object
          list,       \* the pods, by what they show: 1 .. Replicas are the
                      \* newest that have started, higher numbers are about to
                      \* start, 0 stands for older ones
          pods,       \* hash in the template of the newest that have started,
                      \* the text they have read, and whether they are ready
          pq, cq,     \* a request is in the queue of the controller
          pw, cw,     \* the workers of the two controllers; nobody else writes
                      \* the cluster, so cw is only a location
          inspected,  \* history variable: the last inspection of the pods;
                      \* none if they could not be listed then
          events

vars == <<obj, list, pods, pq, cq, pw, cw, inspected, events>>

NoPodList == [i \in {} |-> "pending"]
Idle      == [pc |-> "idle", obj |-> Absent, text |-> NoText]

\* The pipeline was there before the operator was started.
Init ==
    /\ \E t \in Texts :
         obj = [pipeline |-> [text |-> t, generation |-> 1, phase |-> "None",
                              observed |-> 0, healthy |-> {}],
                cluster |-> Absent, configmap |-> Absent,
                deployment |-> Absent]
    /\ list = NoPodList
    /\ pods = [runs |-> {}, text |-> NoText, up |-> FALSE]
    /\ pq = TRUE /\ cq = FALSE
    /\ pw = Idle /\ cw = "idle"
    /\ inspected = {}
    /\ events = MaxEvents

-----------------------------------------------------------------------------
(***************************************************************************)
(* Watches (SetupWithManager of the two controllers): nobody watches pods. *)
(***************************************************************************)
\* Faulty variant: the pipeline controller does not watch clusters.
WakesPipelineWithoutClusters == {"pipeline", "configmap"}

WakesPipeline == {"pipeline", "configmap", "cluster"}
WakesCluster  == {"cluster", "configmap", "deployment"}

\* The queues after a step: p and c before its events.
Notify(p, c) ==
    LET changed == {k \in Kinds : obj'[k] # obj[k]} IN
    /\ pq' = (p \/ changed \cap WakesPipeline # {})
    /\ cq' = (c \/ changed \cap WakesCluster # {})

Write(k, o) == obj' = [obj EXCEPT ![k] = o]

-----------------------------------------------------------------------------
(***************************************************************************)
(* DataPrepperPipelineReconciler.Reconcile                                 *)
(***************************************************************************)
PipelineAt(pc) == pw.pc = pc /\ UNCHANGED <<cw, list, pods>>

PipelineReturn    == pw' = Idle /\ Notify(pq, cq)
PipelineReturnErr == pw' = Idle /\ Notify(TRUE, cq)

\* Takes the request and reads the pipeline.
PipelineReconcile ==
    /\ PipelineAt("idle")
    /\ pq
    /\ pw' = [pc |-> "rebuild", obj |-> obj.pipeline, text |-> NoText]
    /\ UNCHANGED <<obj, inspected, events>>
    /\ Notify(FALSE, cq)

\* Reads the cluster, lists the pipelines, and brings the text of the ConfigMap
\* up to date: the pipeline in that list may be newer than the one read before.
RebuildClusterConfig ==
    /\ PipelineAt("rebuild")
    /\ \/ /\ obj.cluster = Absent /\ UNCHANGED obj
          /\ pw' = [pw EXCEPT !.pc = "Pending"] /\ Notify(pq, cq)
       \/ /\ obj.cluster # Absent /\ obj.configmap = Absent
          /\ UNCHANGED obj /\ PipelineReturnErr
       \/ /\ obj.cluster # Absent /\ obj.configmap # Absent
          /\ Write("configmap", obj.pipeline.text)
          /\ pw' = [pw EXCEPT !.pc = "stamp", !.text = obj.pipeline.text]
          /\ Notify(pq, cq)
    /\ UNCHANGED <<inspected, events>>

\* Faulty variant: the annotation is on the Deployment, not on its template.
AnnotatedDeployment(dep, hash) == dep

\* The hash annotation in the pod template: a new one makes the pods old.
StampedDeployment(dep, hash) ==
    [dep EXCEPT !.hash = hash, !.created = @ /\ dep.hash = hash]

StampDeployment ==
    LET dep == obj.deployment IN
    /\ PipelineAt("stamp")
    /\ \/ dep = Absent /\ UNCHANGED obj /\ PipelineReturnErr
       \/ /\ dep # Absent
          /\ Write("deployment", StampedDeployment(dep, pw.text))
          /\ pw' = [pw EXCEPT !.pc = "Applied"] /\ Notify(pq, cq)
    /\ UNCHANGED <<inspected, events>>

Showing(states) == {i \in DOMAIN list : list[i] \in states}
Failing         == Showing({"waiting", "failed"})

\* inspectClusterHealth: the first pod of the list that shows a reason.  A
\* cached list has no order, so that is any of them.  Pods that terminate are
\* passed over, and a pod that shows nothing counts as one that runs.
InspectClusterHealth(generation) ==
    LET Found(reason, pod) == [reason |-> reason, pod |-> pod,
                               generation |-> generation] IN
    IF list = NoPodList THEN {Found("NoPods", 0)}
    ELSE IF Failing = {} THEN {Found("running", 0)}
    ELSE {Found(list[i], i) : i \in Failing}

\* setStatus: written from the object read at the start, if anything changes.
SetStatus(healthy) ==
    LET o == [pw.obj EXCEPT !.phase = pw.pc, !.healthy = healthy,
                            !.observed = pw.obj.generation]
    IN
    \/ o = pw.obj /\ UNCHANGED obj /\ PipelineReturn
    \/ /\ o # pw.obj /\ obj.pipeline = pw.obj
       /\ Write("pipeline", o) /\ PipelineReturn
    \/ /\ o # pw.obj /\ obj.pipeline # pw.obj
       /\ UNCHANGED obj /\ PipelineReturnErr

\* Without a cluster the Healthy condition stays as it is.
SetPending ==
    /\ PipelineAt("Pending")
    /\ SetStatus(pw.obj.healthy)
    /\ UNCHANGED <<inspected, events>>

SetApplied ==
    /\ PipelineAt("Applied")
    /\ \E c \in InspectClusterHealth(pw.obj.generation) :
         /\ SetStatus({c})
         /\ inspected' = {[status |-> obj.cluster.status, found |-> c]}
    /\ UNCHANGED events

\* The pods cannot be listed, which is no error: the condition stays, and there
\* is no retry.
ListFails ==
    /\ PipelineAt("Applied")
    /\ events > 0 /\ events' = events - 1
    /\ SetStatus(pw.obj.healthy)
    /\ inspected' = {}

PipelineController ==
    \/ PipelineReconcile \/ RebuildClusterConfig \/ StampDeployment
    \/ SetPending \/ SetApplied

-----------------------------------------------------------------------------
(***************************************************************************)
(* DataPrepperClusterReconciler.Reconcile                                  *)
(***************************************************************************)
ClusterAt(pc) == cw = pc /\ UNCHANGED <<pw, list, pods, inspected, events>>

ClusterGoto(pc)  == cw' = pc /\ Notify(pq, cq)

\* Faulty variant: the ConfigMap is left to the pipeline controller.
ClusterReconcileWithoutConfigMap ==
    /\ ClusterAt("idle")
    /\ cq
    /\ cw' = "deployment"
    /\ UNCHANGED obj
    /\ Notify(pq, FALSE)

ClusterReconcile ==
    /\ ClusterAt("idle")
    /\ cq
    /\ cw' = "configmap"
    /\ UNCHANGED obj
    /\ Notify(pq, FALSE)

\* Only created.
ReconcileConfigMap ==
    /\ ClusterAt("configmap")
    /\ IF obj.configmap = Absent THEN Write("configmap", NoText)
       ELSE UNCHANGED obj
    /\ ClusterGoto("deployment")

\* Faulty variant: the template is overwritten with the desired one.
OverwrittenDeployment(dep) ==
    [dep EXCEPT !.hash = NoText, !.created = @ /\ dep.hash = NoText]

\* The hash of the pipelines is preserved, and nothing else changes.
UpdatedDeployment(dep) == dep

ReconcileDeployment ==
    /\ ClusterAt("deployment")
    /\ Write("deployment",
             IF obj.deployment # Absent THEN UpdatedDeployment(obj.deployment)
             ELSE [hash |-> NoText, ready |-> 0, created |-> FALSE,
                   seen |-> FALSE])
    /\ ClusterGoto("status")

\* reconcileStatus, the part that computes.
StatusOf(dep) ==
    [phase |-> IF dep.ready >= Replicas THEN "Ready"
               ELSE IF dep.seen /\ dep.ready = 0 THEN "Degraded"
               ELSE "Pending",
     readyReplicas |-> dep.ready,
     progressing |-> ~dep.created]

\* Written if it has changed.
ReconcileStatus ==
    /\ ClusterAt("status")
    /\ Write("cluster", [status |-> {StatusOf(obj.deployment)}])
    /\ ClusterGoto("idle")

ClusterController ==
    \/ ClusterReconcile \/ ReconcileConfigMap \/ ReconcileDeployment
    \/ ReconcileStatus

-----------------------------------------------------------------------------
(***************************************************************************)
(* Users.                                                                  *)
(***************************************************************************)
Edit(k, o) ==
    /\ events > 0 /\ events' = events - 1
    /\ Write(k, o)
    /\ Notify(pq, cq)
    /\ UNCHANGED <<list, pods, pw, cw, inspected>>

CreateCluster == obj.cluster = Absent /\ Edit("cluster", [status |-> {}])

EditPipeline(t) ==
    /\ obj.pipeline.text # t
    /\ Edit("pipeline", [obj.pipeline EXCEPT !.text = t, !.generation = @ + 1])

-----------------------------------------------------------------------------
(***************************************************************************)
(* Kubernetes: the Deployment controller and the kubelet.  Pods of one set *)
(* go through their states together.                                       *)
(***************************************************************************)
Elsewhere == UNCHANGED <<pw, cw, inspected>>

SetReady(n) ==
    /\ Write("deployment", [obj.deployment EXCEPT !.ready = n])
    /\ Notify(pq, cq)

Started   == DOMAIN list \cap 1 .. Replicas
Remaining == DOMAIN list \cap 0 .. Replicas
Coming    == Replicas + 1 .. 2 * Replicas

PodsMatch == obj.deployment # Absent /\ pods.runs = {obj.deployment.hash}

\* The Deployment controller observes the Deployment: it creates pods with its
\* template if there are none, and removes those of templates in between.
PodsCreated ==
    /\ Elsewhere
    /\ obj.deployment # Absent /\ ~obj.deployment.created
    /\ list' = [i \in Remaining \cup (IF PodsMatch THEN {} ELSE Coming) |->
                  IF i \in Remaining THEN list[i] ELSE "pending"]
    /\ Write("deployment",
             [obj.deployment EXCEPT !.created = TRUE, !.seen = TRUE])
    /\ Notify(pq, cq)
    /\ UNCHANGED <<pods, events>>

\* A node is found, and the kubelet prepares the container ...
Scheduled ==
    /\ Elsewhere
    /\ Showing({"pending"}) # {}
    /\ list' = [i \in DOMAIN list |-> IF list[i] = "pending" THEN "waiting"
                                      ELSE list[i]]
    /\ UNCHANGED <<obj, pods, pq, cq, events>>

\* ... which starts, with the text that is in the ConfigMap now.  Of the older
\* pods those that fail stay for the time being, if there are any.
PodsStarted ==
    LET left == IF Failing \cap Remaining = {}
                THEN Remaining \ Showing({"terminating"})
                ELSE Failing \cap Remaining
    IN
    /\ Elsewhere
    /\ \A i \in Coming : i \in DOMAIN list /\ list[i] = "waiting"
    /\ obj.deployment.created
    /\ \/ left = {} /\ list' = [i \in 1 .. Replicas |-> "running"]
       \/ \E old \in left :
            list' = [i \in 0 .. Replicas |-> IF i = 0 THEN list[old]
                                             ELSE "running"]
    /\ pods' = [runs |-> {obj.deployment.hash}, text |-> obj.configmap,
                up |-> FALSE]
    /\ UNCHANGED <<obj, pq, cq, events>>

BadBoot == pods.text \in BadTexts

\* ... and fails, because of what it has read or for another reason ...
Crash ==
    /\ Elsewhere
    /\ Started # {} /\ \A i \in Started : list[i] = "running"
    /\ \/ BadBoot /\ UNCHANGED events
       \/ ~BadBoot /\ events > 0 /\ events' = events - 1
    /\ list' = [i \in DOMAIN list |-> IF i \in Started THEN "failed"
                                      ELSE list[i]]
    /\ UNCHANGED <<obj, pods, pq, cq>>

\* ... and is started again.
Recover ==
    /\ Elsewhere
    /\ \E i \in Started : list[i] = "failed"
    /\ list' = [i \in DOMAIN list |-> IF i \in Started THEN "running"
                                      ELSE list[i]]
    /\ UNCHANGED <<obj, pods, pq, cq, events>>

\* Readiness follows the containers.  Older pods serve until then, and are
\* counted too ...
PodsUp ==
    /\ Elsewhere
    /\ PodsMatch /\ obj.deployment.created /\ ~pods.up /\ ~BadBoot
    /\ \A i \in Started : list[i] = "running"
    /\ pods' = [pods EXCEPT !.up = TRUE]
    /\ SetReady(Replicas + (IF 0 \in DOMAIN list /\ obj.deployment.ready > 0
                            THEN 1 ELSE 0))
    /\ UNCHANGED <<list, events>>

\* ... before they are deleted ...
TakeOver ==
    /\ Elsewhere
    /\ pods.up /\ 0 \in DOMAIN list \ Showing({"terminating"})
    /\ list' = [list EXCEPT ![0] = "terminating"]
    /\ SetReady(Replicas)
    /\ UNCHANGED <<pods, events>>

\* ... and go.
Terminated ==
    /\ Elsewhere
    /\ 0 \in Showing({"terminating"})
    /\ list' = [i \in DOMAIN list \ {0} |-> list[i]]
    /\ UNCHANGED <<obj, pods, pq, cq, events>>

PodsDown ==
    /\ Elsewhere
    /\ pods.up /\ 0 \notin DOMAIN list \ Showing({"terminating"})
    /\ \E i \in Started : list[i] = "failed"
    /\ pods' = [pods EXCEPT !.up = FALSE]
    /\ SetReady(0)
    /\ UNCHANGED <<list, events>>

Kubernetes == \/ PodsCreated \/ Scheduled \/ PodsStarted \/ Recover
              \/ PodsUp \/ TakeOver \/ Terminated \/ PodsDown

(***************************************************************************)
(* Faults of the operator.                                                 *)
(***************************************************************************)
Faulty == events > 0 /\ events' = events - 1
            /\ UNCHANGED <<obj, list, pods, inspected>>

PipelineCallFails ==
    Faulty /\ pw.pc # "idle" /\ PipelineReturnErr /\ UNCHANGED cw

ClusterCallFails ==
    Faulty /\ cw # "idle" /\ cw' = "idle" /\ Notify(pq, TRUE) /\ UNCHANGED pw

\* The new process lists everything.
Restart ==
    /\ Faulty
    /\ pq' = TRUE /\ cq' = (obj.cluster # Absent)
    /\ pw' = Idle /\ cw' = "idle"

Next ==
    \/ PipelineController \/ ListFails
    \/ ClusterController
    \/ PipelineCallFails \/ ClusterCallFails \/ Restart
    \/ CreateCluster
    \/ \E t \in Texts : EditPipeline(t)
    \/ Kubernetes \/ Crash

Spec == Init /\ [][Next]_vars

\* The workers go on, Deployment controller and kubelet do their part, and a
\* container that cannot run with what it has read fails.
Fairness ==
    /\ WF_vars(PipelineController) /\ WF_vars(ClusterController)
    /\ WF_vars(PodsCreated) /\ WF_vars(Scheduled) /\ WF_vars(PodsStarted)
    /\ WF_vars(Recover) /\ WF_vars(PodsUp) /\ WF_vars(TakeOver)
    /\ WF_vars(Terminated) /\ WF_vars(PodsDown)
    /\ WF_vars(BadBoot /\ Crash)

FairSpec == Spec /\ Fairness

-----------------------------------------------------------------------------
\* Every variable holds a value of its kind; in particular a pod only ever
\* starts with a text that the ConfigMap holds.
TypeOK ==
    /\ DOMAIN obj = Kinds
    /\ \A k \in Kinds : obj[k] \in Objects[k] \cup {Absent}
    /\ DOMAIN list \subseteq Nat
    /\ \A i \in DOMAIN list : list[i] \in ContainerState
    /\ pods \in [runs : SUBSET (Texts \cup {NoText}),
                 text : Texts \cup {NoText}, up : BOOLEAN]
    /\ pq \in BOOLEAN /\ cq \in BOOLEAN
    /\ pw \in [pc   : {"idle", "rebuild", "stamp", "Pending", "Applied"},
               obj  : Objects.pipeline \cup {Absent},
               text : Texts \cup {NoText}]
    /\ pw.pc # "idle" => pw.obj \in Objects.pipeline
    /\ cw \in {"idle", "configmap", "deployment", "status"}
    /\ inspected \subseteq Inspection
    /\ events \in Nat

\* Nothing is left to do; pods are up, or fail as they have to.
Settled ==
    /\ ~pq /\ pw.pc = "idle" /\ ~cq /\ cw = "idle"
    /\ obj.deployment # Absent =>
         /\ obj.deployment.created /\ PodsMatch
         /\ ~BadBoot => pods.up /\ 0 \notin DOMAIN list /\ Failing = {}

Applied == obj.cluster # Absent /\ obj.pipeline.phase = "Applied"

\* When nothing is left to do, a pipeline with a cluster is Applied, and its
\* pods have started with its text and not with one before, although they start
\* at any moment around the update of the ConfigMap and the stamp.  An edit
\* that is taken back is another matter: a pod that starts between update and
\* stamp has the new text under the old hash, and the way back leaves it alone.
SettledApplied ==
    Settled /\ obj.cluster # Absent =>
      /\ Applied /\ obj.pipeline.observed = obj.pipeline.generation
      /\ obj.pipeline.generation <= 2 => pods.text = obj.pipeline.text

\* When nothing is left to do, the pods have been inspected after the last
\* change of the cluster status, so that every loss and gain of readiness that
\* the cluster reports is followed by a look at the pods, and the Healthy
\* condition is what was found then.  Not so if the last listing failed: the
\* error is dropped, and nothing is retried.
HealthFollowsStatus ==
    Settled /\ Applied => \A i \in inspected :
      i.status = obj.cluster.status /\ obj.pipeline.healthy = {i.found}

\* When nothing is left to do, a pipeline whose pods have failed to boot does
\* not pass for healthy.
BootErrorsSurface ==
    Settled /\ Applied /\ (\E i \in Started : list[i] = "failed") =>
      \A c \in obj.pipeline.healthy : c.reason # "running"

\* When nothing is left to do and the pods are up, the condition says so.
UpIsHealthy ==
    Settled /\ Applied /\ pods.up =>
      \E c \in obj.pipeline.healthy : c.reason = "running"

\* The two controllers, which wake each other, come to rest, if the pods can
\* boot in the end.
EventuallySettles == <>[]~BadBoot => <>[]Settled

=============================================================================
