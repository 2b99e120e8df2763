-------------------------- MODULE ClusterReconciler --------------------------
(***************************************************************************)
(* DataPrepperClusterReconciler.Reconcile as a whole, for one cluster: the *)
(* configuration it resolves from spec and class, the seven children it    *)
(* brings into line one after the other, and the status.  The cluster may  *)
(* be deleted and created again under its name.  The pipelines' side of    *)
(* the ConfigMap is in PipelineOperator, that of the statuses in           *)
(* PipelineHealth.                                                         *)
(*                                                                         *)
(* A child is in line or not whatever its text looks like, so objects are  *)
(* modelled by the fields that decisions or properties look at.            *)
(***************************************************************************)
EXTENDS Informer

CONSTANTS Specs,       \* the specs users write
          Images,      \* names of images
          NoImage,     \* the empty string
          Ports,       \* values of spec.extraPorts
          Lag,         \* bound: versions an informer may be behind, by kind
          Rank,        \* bound: the garbage collector takes orphans of a lower
                       \* rank first
          MonitorCRD,  \* the ServiceMonitor CRD is installed
          Webhooks,    \* ENABLE_WEBHOOKS
          Classes,     \* whether there are DataPrepperClasses, and edits of them
          Deletions,   \* whether the cluster is deleted (and created again)
          MaxEdits,    \* bound: changes by users
          MaxFaults,   \* bound: failed calls, restarts, failures of pods and
                       \* changes of the load
          Absent       \* "no such object"

Children == {"pipelines", "peer", "deployment", "service", "headless",
             "monitor", "hpa"}
Kinds    == Children \cup {"cluster", "class"}

\* Faulty variants: a kind of children is not watched.
WatchedWithoutServices   == {"cluster", "deployment", "pipelines", "peer",
                             "hpa"}
WatchedWithoutDeployment == {"cluster", "pipelines", "peer", "service",
                             "headless", "hpa"}

\* For and Owns: the kinds whose events make a request.  The class and the
\* ServiceMonitor are not among them.
Watched == {"cluster", "deployment", "pipelines", "peer", "service", "headless",
            "hpa"}

\* The kinds the RBAC markers let the operator delete: not ConfigMaps.
MayDelete == {"hpa", "monitor"}

(***************************************************************************)
(* Objects.                                                                *)
(***************************************************************************)
Autoscaling == [min : Nat, max : Nat]

ClusterSpec ==
    [image       : Images \cup {NoImage},
     class       : BOOLEAN,               \* classRef is set
     replicas    : Nat \ {0},
     autoscaling : SUBSET Autoscaling,    \* nil, or one
     server      : BOOLEAN,               \* serverConfigMap is set
     monitor     : BOOLEAN,               \* metrics.serviceMonitor
     ports       : Ports]

ASSUME ClusterAssumption ==
    /\ Specs \subseteq ClusterSpec
    /\ NoImage \notin Images
    /\ \A spec \in Specs : \A a, b \in spec.autoscaling : a = b
    /\ Lag \in [Kinds -> Nat] /\ Rank \in [Children -> Nat]
    /\ MonitorCRD \in BOOLEAN /\ Webhooks \in BOOLEAN
    /\ Classes \in BOOLEAN /\ Deletions \in BOOLEAN
    /\ MaxEdits \in Nat /\ MaxFaults \in Nat

PeerConfigs == {"local_node", "dns"}

Status == [phase : {"Pending", "Ready", "Degraded"}, readyReplicas : Nat,
           progressing : BOOLEAN, observed : Nat]

\* created: the Deployment controller has observed the generation and created
\* the pods it asks for (updatedReplicas); seen: it has filled in the status.
Template   == [image : Images, server : BOOLEAN, peerHash : SUBSET PeerConfigs,
               ports : Ports]
Deployment == [template : Template, replicas : Nat, ready : Nat,
               created : BOOLEAN, seen : BOOLEAN]

\* The code compares generations for equality only, so generation counts on
\* when a cluster is created again, and the first one of an incarnation is
\* its uid.
Objects ==
    [cluster    |-> [uid : Nat, spec : Specs, generation : Nat,
                     status : SUBSET Status],
     class      |-> Images,
     pipelines  |-> {"owned"},
     peer       |-> PeerConfigs,
     deployment |-> Deployment,
     service    |-> Ports,
     headless   |-> {"owned"},
     monitor    |-> {"owned"},
     hpa        |-> Autoscaling]

ASSUME ObjectAssumption == \A k \in Kinds : Absent \notin Objects[k]

\* What runs, which the operator sees only through the Deployment: the template
\* of the newest pods, how many, whether they are ready, and the server
\* configurations they have read at start.
PodSet == [runs : SUBSET Template, number : Nat, up : BOOLEAN,
           booted : SUBSET (PeerConfigs \cup {"user"})]
NoPods == [runs |-> {}, number |-> 0, up |-> FALSE, booted |-> {}]

VARIABLES hist,      \* by kind: the history of the object
          queued,    \* a request for the cluster is in the queue
          cw,        \* the worker
          pods,      \* a PodSet
          owner,     \* by child: the uid of the cluster it was created for
          revision,  \* number of specs that users have written so far
          applied,   \* history variable, by child: the generation of the spec
                     \* that the worker has last brought it into line with, or
                     \* rightly found it in line with
          unseen,    \* history variable: what is not watched and has changed
                     \* after the worker last looked at it
          edits, faults

bounds  == <<edits, faults>>
history == <<applied, unseen>>
vars    == <<hist, queued, cw, pods, owner, revision, history, bounds>>

Read(k) == Cached(hist[k])
Now(k)  == Actual(hist[k])

\* The ServiceMonitor is unstructured: the client reads it from the API server
\* and not from a cache.
Write(k, o) ==
    hist' = [hist EXCEPT ![k] = IF k = "monitor" THEN <<o>> ELSE Commit(@, o)]

Idle == [pc |-> "idle", obj |-> Absent, image |-> NoImage]

Init ==
    /\ \E i \in (IF Classes THEN Images ELSE {}) \cup {Absent} :
         hist = [k \in Kinds |-> IF k = "class" THEN <<i>> ELSE <<Absent>>]
    /\ queued = FALSE
    /\ cw = Idle
    /\ pods = NoPods
    /\ owner = [k \in Children |-> 0]
    /\ revision = 0
    /\ applied = [k \in Children |-> 0] /\ unseen = {}
    /\ edits = MaxEdits /\ faults = MaxFaults

Fresh == \A k \in Kinds : Len(hist[k]) <= 1 + Lag[k]

-----------------------------------------------------------------------------
(***************************************************************************)
(* What the reconciler computes.                                           *)
(***************************************************************************)
\* Faulty variant: a cluster without any image is deployed.
ResolveAnything(spec) ==
    IF spec.image = NoImage /\ spec.class THEN {Read("class")} ELSE {spec.image}

\* resolveConfig: the image, or no result when it returns an error.  A class
\* that is referred to has to exist even if the spec overrides its image.
ResolveConfig(spec) ==
    IF spec.class /\ Read("class") = Absent THEN {}
    ELSE IF spec.image # NoImage THEN {spec.image}
    ELSE IF spec.class THEN {Read("class")}
    ELSE {}

\* The validating webhook, on creation and update of the spec.
Validate(spec) ==
    /\ spec.image # NoImage \/ spec.class
    /\ spec.class => Read("class") # Absent
    /\ \A a \in spec.autoscaling : a.max >= spec.replicas

Admitted(spec) == Webhooks => Validate(spec)

\* renderPeerConfig.
RenderPeerConfig(spec) == IF spec.replicas <= 1 THEN "local_node" ELSE "dns"

\* Faulty variant: the pods do not depend on the text of the peer config.
TemplateWithoutHash(spec, image) ==
    [image |-> image, server |-> spec.server, ports |-> spec.ports,
     peerHash |-> {}]

\* The pod template.  peerHash is the annotation with the hash of the peer
\* config, which is there when the operator owns that config.
TemplateOf(spec, image) ==
    [image |-> image, server |-> spec.server, ports |-> spec.ports,
     peerHash |-> IF spec.server THEN {} ELSE {RenderPeerConfig(spec)}]

\* Faulty variant: the operator sets the replicas although there is an
\* autoscaler.
ReplicasAlways(dep, spec) == spec.replicas

\* The autoscaler owns the replicas of an existing Deployment.
ReplicasFor(dep, spec) ==
    IF spec.autoscaling = {} THEN spec.replicas ELSE dep.replicas

NewDeployment(spec, image) ==
    [template |-> TemplateOf(spec, image), replicas |-> spec.replicas,
     ready |-> 0, created |-> FALSE, seen |-> FALSE]

\* A new spec makes the pods that there are too old or too few.
Respecified(old, new) ==
    [new EXCEPT !.created = @ /\ new.template = old.template
                              /\ new.replicas = old.replicas]

\* Every field of the template but the hash of the pipelines, which is not in
\* this model.
UpdatedDeployment(dep, spec, image) ==
    Respecified(dep, [dep EXCEPT !.template = TemplateOf(spec, image),
                                 !.replicas = ReplicasFor(dep, spec)])

\* reconcileStatus, the part that computes.  All counts compare with
\* spec.replicas, also when an autoscaler has set another number.
StatusOf(dep, o) ==
    LET ready    == dep.ready >= o.spec.replicas
        degraded == dep.seen /\ dep.ready = 0 /\ dep.replicas > 0
    IN  [phase |-> IF ready THEN "Ready"
                   ELSE IF degraded THEN "Degraded" ELSE "Pending",
         readyReplicas |-> dep.ready,
         progressing |-> ~dep.created,
         observed |-> o.generation]

-----------------------------------------------------------------------------
(***************************************************************************)
(* Reconcile.  Every error ends it and brings the request back.            *)
(***************************************************************************)
NextStep == [pipelines |-> "peer", peer |-> "deployment",
             deployment |-> "service", service |-> "headless",
             headless |-> "monitor", monitor |-> "hpa", hpa |-> "status"]

\* On to the next child.
Proceed ==
    /\ cw' = [cw EXCEPT !.pc = NextStep[@]]
    /\ unseen' = unseen \ {cw.pc}
    /\ UNCHANGED queued

\* The child at hand is in line with the spec the worker has read.
MarkApplied == applied' = [applied EXCEPT ![cw.pc] = cw.obj.generation]

Return      == cw' = Idle /\ UNCHANGED <<queued, history>>
\* Faulty variant: the error is logged and forgotten.
ForgetErr   == cw' = Idle /\ UNCHANGED <<queued, history>>
ReturnErr   == cw' = Idle /\ queued' = TRUE /\ UNCHANGED history

At(pc) == Fresh /\ cw.pc = pc /\ UNCHANGED <<pods, revision, bounds>>

\* The child is in line according to the cache, which may be wrong.
Keep ==
    /\ Proceed
    /\ IF Now(cw.pc) = Read(cw.pc) THEN MarkApplied ELSE UNCHANGED applied
    /\ UNCHANGED <<hist, owner>>

\* Faulty variant: the error is logged, and the next child follows.
LogAndProceed == Proceed /\ UNCHANGED <<hist, owner, applied>>
Fail == ReturnErr /\ UNCHANGED <<hist, owner>>

\* Create (if the cache has no such object) or Update: fails with AlreadyExists,
\* NotFound or Conflict when the cache is not up to date.  Only a new object
\* gets the cluster as its owner.
Put(k, o) ==
    \/ /\ Now(k) = Read(k)
       /\ Write(k, o)
       /\ owner' = IF Now(k) = Absent THEN [owner EXCEPT ![k] = cw.obj.uid]
                   ELSE owner
       /\ Proceed /\ MarkApplied
    \/ Now(k) # Read(k) /\ Fail

\* The same with the comparison that saves the call.
PutIfChanged(k, o) ==
    \/ Read(k) = o /\ Keep
    \/ Read(k) # o /\ Put(k, o)

\* Delete what is in the cache: fails with Forbidden or NotFound.
Remove(k) ==
    LET possible == Now(k) # Absent /\ k \in MayDelete IN
    \/ Read(k) = Absent /\ Keep
    \/ /\ Read(k) # Absent /\ possible /\ Write(k, Absent)
       /\ Proceed /\ MarkApplied /\ UNCHANGED owner
    \/ Read(k) # Absent /\ ~possible /\ Fail

\* Takes the request, reads the cluster and resolves its configuration.
Reconcile ==
    LET o == Read("cluster") IN
    /\ At("idle")
    /\ queued
    /\ \/ o = Absent /\ queued' = FALSE /\ UNCHANGED cw
       \/ o # Absent /\ ResolveConfig(o.spec) = {} /\ UNCHANGED <<queued, cw>>
       \/ /\ o # Absent
          /\ \E image \in ResolveConfig(o.spec) :
               cw' = [pc |-> "pipelines", obj |-> o, image |-> image]
          /\ queued' = FALSE
    /\ unseen' = IF Synced(hist["class"]) THEN unseen \ {"class"} ELSE unseen
    /\ UNCHANGED <<hist, owner, applied>>

\* The pipelines ConfigMap is only created.
ReconcileConfigMap ==
    /\ At("pipelines")
    /\ \/ Read("pipelines") # Absent /\ Keep
       \/ Read("pipelines") = Absent /\ Put("pipelines", "owned")

\* The operator's own server configuration, unless the user provides one.
ReconcilePeerConfig ==
    LET spec == cw.obj.spec IN
    /\ At("peer")
    /\ \/ spec.server /\ Remove("peer")
       \/ ~spec.server /\ PutIfChanged("peer", RenderPeerConfig(spec))

\* The Deployment is updated without a comparison.
ReconcileDeployment ==
    LET dep == Read("deployment") IN
    /\ At("deployment")
    /\ Put("deployment",
           IF dep = Absent THEN NewDeployment(cw.obj.spec, cw.image)
           ELSE UpdatedDeployment(dep, cw.obj.spec, cw.image))

\* The comparison of the ports never succeeds: the API server has filled in
\* the protocol of the http port, which the desired object leaves empty.
ReconcileService == At("service") /\ Put("service", cw.obj.spec.ports)

ReconcileHeadlessService ==
    At("headless") /\ PutIfChanged("headless", "owned")

\* A silent no-op where the CRD is not installed.
ReconcileServiceMonitor ==
    /\ At("monitor")
    /\ \/ ~MonitorCRD /\ Keep
       \/ MonitorCRD /\ ~cw.obj.spec.monitor /\ Remove("monitor")
       \/ MonitorCRD /\ cw.obj.spec.monitor /\ PutIfChanged("monitor", "owned")

ReconcileHPA ==
    /\ At("hpa")
    /\ \/ cw.obj.spec.autoscaling = {} /\ Remove("hpa")
       \/ \E a \in cw.obj.spec.autoscaling : PutIfChanged("hpa", a)

\* Faulty variant: the cluster is read again before its status is written.
ReconcileStatusOfCurrent ==
    LET dep == Read("deployment")
        now == Now("cluster")
        o   == [now EXCEPT !.status = {StatusOf(dep, now)}]
    IN
    /\ At("status")
    /\ \/ (dep = Absent \/ now = Absent) /\ ReturnErr /\ UNCHANGED hist
       \/ dep # Absent /\ now # Absent /\ Write("cluster", o) /\ Return
    /\ UNCHANGED owner

\* reconcileStatus reads the Deployment again; it writes only what has changed
\* since the Get of the cluster.
ReconcileStatus ==
    LET dep == Read("deployment")
        o   == [cw.obj EXCEPT !.status = {StatusOf(dep, cw.obj)}]
    IN
    /\ At("status")
    /\ \/ dep = Absent /\ ReturnErr /\ UNCHANGED hist
       \/ dep # Absent /\ o = cw.obj /\ Return /\ UNCHANGED hist
       \/ /\ dep # Absent /\ o # cw.obj /\ Now("cluster") = cw.obj
          /\ Write("cluster", o) /\ Return
       \/ /\ dep # Absent /\ o # cw.obj /\ Now("cluster") # cw.obj
          /\ ReturnErr /\ UNCHANGED hist
    /\ UNCHANGED owner

Step ==
    \/ ReconcileConfigMap \/ ReconcilePeerConfig \/ ReconcileDeployment
    \/ ReconcileService \/ ReconcileHeadlessService
    \/ ReconcileServiceMonitor \/ ReconcileHPA \/ ReconcileStatus

\* An informer takes an event into its cache.
Receive(k) ==
    /\ ~Synced(hist[k])
    /\ hist' = [hist EXCEPT ![k] = Deliver(@)]
    /\ queued' = (queued \/ k \in Watched)
    /\ UNCHANGED <<cw, pods, owner, revision, history, bounds>>

-----------------------------------------------------------------------------
(***************************************************************************)
(* Users.                                                                  *)
(***************************************************************************)
Edit == /\ Fresh /\ edits > 0 /\ edits' = edits - 1
        /\ UNCHANGED <<queued, cw, owner, applied, faults>>

CreateCluster(spec) ==
    /\ Edit
    /\ Now("cluster") = Absent
    /\ Admitted(spec)
    /\ revision' = revision + 1
    /\ Write("cluster", [uid |-> revision', spec |-> spec,
                         generation |-> revision', status |-> {}])
    /\ UNCHANGED <<pods, unseen>>

EditCluster(spec) ==
    LET o == Now("cluster") IN
    /\ Edit
    /\ o # Absent /\ o.spec # spec
    /\ Admitted(spec)
    /\ revision' = revision + 1
    /\ Write("cluster", [o EXCEPT !.spec = spec, !.generation = revision'])
    /\ UNCHANGED <<pods, unseen>>

\* No finalizer holds a cluster back.
DeleteCluster ==
    /\ Edit
    /\ Deletions /\ Now("cluster") # Absent
    /\ Write("cluster", Absent)
    /\ UNCHANGED <<pods, revision, unseen>>

\* Somebody creates, edits or deletes the class, which no webhook guards.
SetClass(image) ==
    /\ Edit
    /\ Classes
    /\ Now("class") # image
    /\ Write("class", image)
    /\ unseen' = unseen \cup {"class"}
    /\ UNCHANGED <<pods, revision>>

\* A child disappears, with its pods if it is the Deployment.
Vanish(k) ==
    /\ Now(k) # Absent
    /\ Write(k, Absent)
    /\ pods' = IF k = "deployment" THEN NoPods ELSE pods
    /\ unseen' = unseen \cup ({k} \ Watched)
    /\ UNCHANGED revision

\* Somebody deletes a child by hand.
DeleteChild(k) == Edit /\ Vanish(k)

User ==
    \/ \E spec \in Specs : CreateCluster(spec) \/ EditCluster(spec)
    \/ DeleteCluster
    \/ \E image \in Images \cup {Absent} : SetClass(image)
    \/ \E k \in Children : DeleteChild(k)

-----------------------------------------------------------------------------
(***************************************************************************)
(* Kubernetes: the garbage collector, the Deployment controller with the   *)
(* pods, the autoscaler.                                                   *)
(***************************************************************************)
Elsewhere == Fresh /\ UNCHANGED <<queued, cw, owner, applied, edits>>

OwnerGone(k) ==
    /\ Now(k) # Absent
    /\ Now("cluster") # Absent => Now("cluster").uid # owner[k]

Collect(k) ==
    /\ Elsewhere
    /\ OwnerGone(k)
    /\ \A j \in Children : OwnerGone(j) => Rank[k] <= Rank[j]
    /\ Vanish(k)
    /\ UNCHANGED faults

\* The pods that run are those the Deployment asks for.
PodsMatch(dep) == pods.runs = {dep.template} /\ pods.number = dep.replicas

\* The server configuration a pod that starts now reads: none if the mounted
\* ConfigMap is missing, and then the pod does not start.
ServerConfig ==
    IF Now("deployment").template.server THEN {"user"}
    ELSE {Now("peer")} \ {Absent}

\* The Deployment controller observes the Deployment and creates the pods ...
PodsCreated ==
    LET dep == Now("deployment") IN
    /\ Elsewhere
    /\ dep # Absent /\ ~dep.created
    /\ Write("deployment", [dep EXCEPT !.created = TRUE, !.seen = TRUE])
    /\ UNCHANGED <<pods, revision, unseen, faults>>

\* ... which start and get ready: all new ones after a change of the template,
\* until then the older ones serve; the missing ones otherwise ...
PodsUp ==
    LET dep == Now("deployment")
        new == IF dep.template \notin pods.runs THEN ServerConfig
               ELSE IF pods.number < dep.replicas
               THEN pods.booted \cup ServerConfig
               ELSE pods.booted
    IN
    /\ Elsewhere
    /\ dep # Absent /\ dep.created
    /\ ~PodsMatch(dep) \/ ~pods.up
    /\ ServerConfig # {} /\ Now("pipelines") # Absent
    /\ Write("deployment", [dep EXCEPT !.ready = dep.replicas])
    /\ pods' = [runs |-> {dep.template}, number |-> dep.replicas, up |-> TRUE,
                booted |-> new]
    /\ UNCHANGED <<revision, unseen, faults>>

\* ... and may lose their readiness.
PodsDown ==
    LET dep == Now("deployment") IN
    /\ Elsewhere
    /\ faults > 0 /\ faults' = faults - 1
    /\ dep # Absent /\ pods.up
    /\ Write("deployment", [dep EXCEPT !.ready = 0])
    /\ pods' = [pods EXCEPT !.up = FALSE]
    /\ UNCHANGED <<revision, unseen>>

ScaleTo(n) ==
    LET dep == Now("deployment") IN
    /\ Write("deployment", Respecified(dep, [dep EXCEPT !.replicas = n]))
    /\ UNCHANGED <<pods, revision, unseen>>

OutOfRange ==
    /\ Now("deployment") # Absent /\ Now("hpa") # Absent
    /\ \/ Now("deployment").replicas < Now("hpa").min
       \/ Now("deployment").replicas > Now("hpa").max

\* The autoscaler brings the replicas between its bounds ...
ScaleIntoRange ==
    /\ Elsewhere
    /\ OutOfRange
    /\ ScaleTo(IF Now("deployment").replicas < Now("hpa").min
               THEN Now("hpa").min ELSE Now("hpa").max)
    /\ UNCHANGED faults

\* ... and follows the load within them.
ScaleWithLoad ==
    /\ Elsewhere
    /\ faults > 0 /\ faults' = faults - 1
    /\ Now("deployment") # Absent /\ Now("hpa") # Absent
    /\ \E n \in Now("hpa").min .. Now("hpa").max :
         n # Now("deployment").replicas /\ ScaleTo(n)

Kubernetes ==
    \/ \E k \in Children : Collect(k)
    \/ PodsCreated \/ PodsUp \/ PodsDown
    \/ ScaleIntoRange \/ ScaleWithLoad

(***************************************************************************)
(* Faults of the operator.                                                 *)
(***************************************************************************)
Faulty == /\ Fresh /\ faults > 0 /\ faults' = faults - 1
          /\ UNCHANGED <<pods, owner, revision, edits>>

CallFails ==
    /\ Faulty
    /\ cw.pc # "idle"
    /\ ReturnErr
    /\ UNCHANGED hist

Restart ==
    /\ Faulty
    /\ hist' = [k \in Kinds |-> Relist(hist[k])]
    /\ queued' = (\E k \in Watched : Now(k) # Absent)
    /\ cw' = Idle
    /\ UNCHANGED history

Next ==
    \/ \E k \in Kinds : Receive(k)
    \/ Reconcile \/ Step
    \/ CallFails \/ Restart
    \/ User
    \/ Kubernetes

Spec == Init /\ [][Next]_vars

\* Events arrive, the worker goes on, the Deployment controller, the garbage
\* collector and the autoscaler do their part; nothing is asked of users, load
\* and faults.  The queue has one request, so weak fairness is enough for it.
Fairness ==
    /\ WF_vars(\E k \in Kinds : Receive(k))
    /\ WF_vars(Reconcile) /\ WF_vars(Step)
    /\ WF_vars(\E k \in Children : Collect(k))
    /\ WF_vars(PodsCreated) /\ WF_vars(PodsUp)
    /\ WF_vars(ScaleIntoRange)

FairSpec == Spec /\ Fairness

-----------------------------------------------------------------------------
\* Every variable holds a value of its kind; in particular no Deployment is
\* ever created without an image (resolveConfig).
TypeOK ==
    /\ DOMAIN hist = Kinds
    /\ \A k \in Kinds : hist[k] \in History(Objects[k] \cup {Absent})
    /\ queued \in BOOLEAN
    /\ cw \in [pc    : {"idle", "status"} \cup Children,
               obj   : Objects.cluster \cup {Absent},
               image : Images \cup {NoImage}]
    /\ cw.pc # "idle" => cw.obj \in Objects.cluster /\ cw.image \in Images
    /\ pods \in PodSet
    /\ owner \in [Children -> Nat] /\ revision \in Nat
    /\ applied \in [Children -> Nat] /\ unseen \subseteq Kinds \ Watched
    /\ edits \in Nat /\ faults \in Nat

\* Nothing is left to do.
Settled ==
    /\ \A k \in Kinds : Synced(hist[k])
    /\ ~queued /\ cw.pc = "idle"
    /\ \A k \in Children : ~OwnerGone(k)
    /\ ~OutOfRange
    /\ Now("deployment") # Absent =>
         /\ Now("deployment").created
         /\ PodsMatch(Now("deployment")) /\ pods.up

Settles(P(_)) == Settled /\ Now("cluster") # Absent => P(Now("cluster").spec)

\* Whatever was edited or deleted by hand and whichever calls failed, when
\* nothing is left to do every child is there for this incarnation of the
\* cluster and as spec and class want it, optional ones that are not wanted any
\* more are gone, and without an autoscaler the replicas are those of the spec,
\* also if the autoscaler acted last.  ServiceMonitor and class are not
\* watched: what happens to them after the worker has looked (also when the
\* ServiceMonitor goes with the former cluster whose it was) waits for the next
\* reconcile.
SettledChildren ==
    LET Image(spec) == IF spec.image # NoImage THEN spec.image ELSE Now("class")
        InLine(spec) ==
          LET dep == Now("deployment") IN
          /\ Now("pipelines") # Absent /\ Now("headless") # Absent
          /\ Now("service") = spec.ports
          /\ Now("peer") = IF spec.server THEN Absent
                           ELSE RenderPeerConfig(spec)
          /\ "monitor" \notin unseen
               => (Now("monitor") # Absent) = (spec.monitor /\ MonitorCRD)
          /\ {Now("hpa")} \ {Absent} = spec.autoscaling
          /\ dep # Absent
          /\ dep.template = TemplateOf(spec, dep.template.image)
          /\ "class" \notin unseen => dep.template.image = Image(spec)
          /\ spec.autoscaling = {} => dep.replicas = spec.replicas
    IN  Settles(InLine)

\* When nothing is left to do, the status is about the current generation and
\* the pods as they are, and the cluster is Ready.  (Not so if an autoscaler
\* has scaled it below spec.replicas: ScaledIsReady.)
SettledStatus ==
    LET Reported(spec) ==
          LET dep == Now("deployment") IN
          /\ dep # Absent
          /\ \E s \in Now("cluster").status :
               /\ s.observed = Now("cluster").generation
               /\ s.readyReplicas = pods.number /\ ~s.progressing
               /\ spec.autoscaling = {} \/ dep.replicas >= spec.replicas
                    => s.phase = "Ready"
    IN  Settles(Reported)

\* With an autoscaler, "spec.replicas is used as the initial replica count
\* only": a cluster all of whose pods are ready is Ready, however many there
\* are.
ScaledIsReady ==
    LET Ready(spec) == spec.autoscaling # {} =>
          \E s \in Now("cluster").status : s.phase = "Ready"
    IN  Settles(Ready)

\* An edit of the class is propagated "to every Cluster on the next reconcile",
\* which comes: when nothing is left to do, a cluster without an image of its
\* own runs the image of its class.
ClassReachesClusters ==
    LET Follows(spec) ==
          spec.image = NoImage /\ Now("class") # Absent
            => Now("deployment").template.image = Now("class")
    IN  Settles(Follows)

\* When nothing is left to do, all pods run with the server configuration that
\* is mounted: its text is a subPath mount that never changes in a running pod,
\* so a change of it has to roll the pods.  An edit that is taken back is
\* another matter: a pod that starts between the write of the peer config and
\* that of the Deployment runs with the new text under the old hash, and the
\* way back leaves it alone.
SettledServerConfig ==
    LET Effective(spec) ==
          Now("cluster").generation <= Now("cluster").uid + 1
            => pods.booted = ServerConfig
    IN  Settles(Effective)

\* The operator does not fight the autoscaler nor its own events: once users,
\* load and faults stop, everything comes to rest.
EventuallySettles == <>[]Settled

\* A server configuration of the user's own gets mounted.
ServerConfigAdopted ==
    LET wanted == Now("cluster") # Absent /\ Now("cluster").spec.server
    IN  wanted ~> \/ ~wanted
                  \/ /\ Now("deployment") # Absent
                     /\ Now("deployment").template.server

(***************************************************************************)
(* Refinement: generations of the spec reach the children one by one, and  *)
(* the status last.                                                        *)
(***************************************************************************)
ObservedGeneration ==
    IF Now("cluster") # Absent /\ Now("cluster").status # {}
    THEN (CHOOSE s \in Now("cluster").status : TRUE).observed
    ELSE 0

Convergence == INSTANCE ClusterConvergence
                 WITH wanted <- revision, observed <- ObservedGeneration

\* Whatever the worker has read, lost or failed at: no child ever goes back to
\* an older generation of the spec, and observedGeneration is never ahead of
\* any of them.  A child that the worker leaves alone because a stale cache says
\* it is in line does not count as having come that far: the informers of the
\* children that are compared before they are written have to be up to date.
ImplementsConvergence == Convergence!Spec

=============================================================================
