--------------------------- MODULE SettlingProofs ---------------------------
(***************************************************************************)
(* No update is lost, for all values of the constants: an object that the  *)
(* operator has not finished with is always remembered somewhere, by a     *)
(* watch event on its way, by a request in a queue, or by a worker.        *)
(***************************************************************************)
EXTENDS LifecycleProofs, RolloutProofs

-----------------------------------------------------------------------------
(***************************************************************************)
(* What is left alone by whom.                                             *)
(***************************************************************************)
StoresGrow == /\ Grown(plv, plv') /\ Grown(clv, clv')
              /\ Grown(cmv, cmv') /\ Grown(dpv, dpv')

\* Writes make histories grow, whatever they write.
LEMMA WritesGrow ==
    ASSUME TypeOK
    PROVE  /\ plv' = plv \/ (\E p, o : SetPipeline(p, o)) => Grown(plv, plv')
           /\ clv' = clv \/ (\E c, o : SetCluster(c, o)) => Grown(clv, clv')
           /\ cmv' = cmv \/ (\E c, o : SetConfigMap(c, o)) => Grown(cmv, cmv')
           /\ dpv' = dpv \/ (\E c, o : SetDeployment(c, o)) => Grown(dpv, dpv')
<1>1. /\ plv \in History(PipelineStore) /\ clv \in History(ClusterStore)
      /\ cmv \in History(ConfigMapStore) /\ dpv \in History(DeploymentStore)
  BY DEF TypeOK
<1>2. \A h : Grown(h, h)
  BY DEF Grown
<1>3. \A s : /\ Grown(plv, Commit(plv, s)) /\ Grown(clv, Commit(clv, s))
            /\ Grown(cmv, Commit(cmv, s)) /\ Grown(dpv, Commit(dpv, s))
  BY <1>1, CommitGrows
<1> QED
  BY <1>2, <1>3 DEF SetPipeline, SetCluster, SetConfigMap, SetDeployment

\* Users only write.
LEMMA UserFrame ==
    ASSUME TypeOK, User
    PROVE  StoresGrow /\ UNCHANGED <<pq, cq, pw, cw>>
<1>1. ASSUME NEW p \in Pipelines, NEW c \in Clusters, NEW k \in Keys,
             NEW d \in Defs, CreatePipeline(p, c, k, d)
      PROVE  StoresGrow /\ UNCHANGED <<pq, cq, pw, cw>>
  BY <1>1, WritesGrow DEF CreatePipeline, StoresGrow
<1>2. ASSUME NEW p \in Pipelines, NEW c \in Clusters, NEW k \in Keys,
             NEW d \in Defs, EditPipeline(p, c, k, d)
      PROVE  StoresGrow /\ UNCHANGED <<pq, cq, pw, cw>>
  BY <1>2, WritesGrow DEF EditPipeline, StoresGrow
<1>3. ASSUME NEW p \in Pipelines, DeletePipeline(p)
      PROVE  StoresGrow /\ UNCHANGED <<pq, cq, pw, cw>>
  BY <1>3, WritesGrow DEF DeletePipeline, StoresGrow
<1>4. ASSUME NEW c \in Clusters, NEW i \in Images,
             CreateCluster(c, i) \/ EditCluster(c, i)
      PROVE  StoresGrow /\ UNCHANGED <<pq, cq, pw, cw>>
  BY <1>4, WritesGrow DEF CreateCluster, EditCluster, StoresGrow
<1>5. ASSUME NEW c \in Clusters, DeleteCluster(c)
      PROVE  StoresGrow /\ UNCHANGED <<pq, cq, pw, cw>>
  BY <1>5, WritesGrow DEF DeleteCluster, StoresGrow
<1>6. ASSUME NEW c \in Clusters, NEW x \in Drifts, DriftConfigMap(c, x)
      PROVE  StoresGrow /\ UNCHANGED <<pq, cq, pw, cw>>
  BY <1>6, WritesGrow DEF DriftConfigMap, StoresGrow
<1> QED
  BY <1>1, <1>2, <1>3, <1>4, <1>5, <1>6 DEF User

\* So do the garbage collector and the Deployment controller.
LEMMA KubernetesFrame ==
    ASSUME TypeOK, Kubernetes
    PROVE  StoresGrow /\ UNCHANGED <<pq, cq, pw, cw>>
<1>1. ASSUME NEW c \in Clusters,
             \/ CollectConfigMap(c) \/ CollectDeployment(c)
             \/ RolloutComplete(c)
      PROVE  StoresGrow /\ UNCHANGED <<pq, cq, pw, cw>>
  BY <1>1, WritesGrow
     DEF CollectConfigMap, CollectDeployment, RolloutComplete, StoresGrow, bounds
<1> QED
  BY <1>1 DEF Kubernetes

\* A controller writes, and leaves the other one's worker and queue alone ...
LEMMA PipelineControllerFrame ==
    ASSUME TypeOK, PipelineController \/ PipelineCallFails
    PROVE  StoresGrow /\ UNCHANGED <<cq, cw>>
<1>1. ASSUME NEW p \in Pipelines, PipelineReconcile(p)
      PROVE  StoresGrow /\ UNCHANGED <<cq, cw>>
  BY <1>1, WritesGrow DEF PipelineReconcile, StoresGrow, stores
<1>2. CASE AddFinalizer
  BY <1>2, WritesGrow DEF AddFinalizer, StoresGrow
<1>3. CASE RebuildClusterConfig
  BY <1>3, WritesGrow DEF RebuildClusterConfig, StoresGrow
<1>4. CASE StampDeployment
  BY <1>4, WritesGrow DEF StampDeployment, StoresGrow
<1>5. CASE RemoveFinalizer
  BY <1>5, WritesGrow DEF RemoveFinalizer, StoresGrow
<1>6. CASE SetStatus
  BY <1>6, WritesGrow DEF SetStatus, StoresGrow
<1>7. CASE PipelineCallFails
  BY <1>7, WritesGrow DEF PipelineCallFails, StoresGrow, stores
<1> QED
  BY <1>1, <1>2, <1>3, <1>4, <1>5, <1>6, <1>7 DEF PipelineController

\* ... and the other way round.
LEMMA ClusterControllerFrame ==
    ASSUME TypeOK, ClusterController \/ ClusterCallFails
    PROVE  StoresGrow /\ UNCHANGED <<pq, pw>>
<1>1. ASSUME NEW c \in Clusters, ClusterReconcile(c)
      PROVE  StoresGrow /\ UNCHANGED <<pq, pw>>
  BY <1>1, WritesGrow DEF ClusterReconcile, StoresGrow, stores
<1>2. CASE ReconcileConfigMap
  BY <1>2, WritesGrow DEF ReconcileConfigMap, StoresGrow
<1>3. CASE ReconcileDeployment
  BY <1>3, WritesGrow DEF ReconcileDeployment, StoresGrow
<1>4. CASE ReconcileStatus
  BY <1>4, WritesGrow DEF ReconcileStatus, StoresGrow
<1>5. CASE ClusterCallFails
  BY <1>5, WritesGrow DEF ClusterCallFails, StoresGrow, stores
<1> QED
  BY <1>1, <1>2, <1>3, <1>4, <1>5 DEF ClusterController

\* An object that is quiet after a write was written as it was before.
LEMMA WriteQuiet ==
    ASSUME TypeOK
    PROVE  /\ \A p \in Pipelines : \A o :
                SetPipeline(p, o) /\ Quiet(plv', p) => Cached(plv)[p] = o
           /\ \A c \in Clusters : \A o :
                /\ SetCluster(c, o) /\ Quiet(clv', c) => Cached(clv)[c] = o
                /\ SetConfigMap(c, o) /\ Quiet(cmv', c) => Cached(cmv)[c] = o
                /\ SetDeployment(c, o) /\ Quiet(dpv', c) => Cached(dpv)[c] = o
<1>1. /\ plv \in History(PipelineStore) /\ clv \in History(ClusterStore)
      /\ cmv \in History(ConfigMapStore) /\ dpv \in History(DeploymentStore)
  BY DEF TypeOK
<1>2. /\ \A s, n : Quiet(Commit(plv, s), n) => Cached(plv)[n] = s[n]
      /\ \A s, n : Quiet(Commit(clv, s), n) => Cached(clv)[n] = s[n]
      /\ \A s, n : Quiet(Commit(cmv, s), n) => Cached(cmv)[n] = s[n]
      /\ \A s, n : Quiet(Commit(dpv, s), n) => Cached(dpv)[n] = s[n]
  BY <1>1, CommitGrows DEF Grown, Quiet
<1>3. /\ \A p \in Pipelines : \A o : [Actual(plv) EXCEPT ![p] = o][p] = o
      /\ \A c \in Clusters : \A o : [Actual(clv) EXCEPT ![c] = o][c] = o
      /\ \A c \in Clusters : \A o : [Actual(cmv) EXCEPT ![c] = o][c] = o
      /\ \A c \in Clusters : \A o : [Actual(dpv) EXCEPT ![c] = o][c] = o
  BY Reads DEF PipelineStore, ClusterStore, ConfigMapStore, DeploymentStore
<1>4. ASSUME NEW p \in Pipelines, NEW o, SetPipeline(p, o), Quiet(plv', p)
      PROVE  Cached(plv)[p] = o
  <2> DEFINE new == [Actual(plv) EXCEPT ![p] = o]
  <2>1. plv' = Commit(plv, new) /\ new[p] = o
    BY <1>3, <1>4 DEF SetPipeline
  <2> HIDE DEF new
  <2>2. Quiet(Commit(plv, new), p)
    BY <1>4, <2>1 DEF Quiet, Versions, Cached
  <2> QED
    BY <1>2, <2>1, <2>2
<1>5. ASSUME NEW c \in Clusters, NEW o, SetCluster(c, o), Quiet(clv', c)
      PROVE  Cached(clv)[c] = o
  <2> DEFINE new == [Actual(clv) EXCEPT ![c] = o]
  <2>1. clv' = Commit(clv, new) /\ new[c] = o
    BY <1>3, <1>5 DEF SetCluster
  <2> HIDE DEF new
  <2>2. Quiet(Commit(clv, new), c)
    BY <1>5, <2>1 DEF Quiet, Versions, Cached
  <2> QED
    BY <1>2, <2>1, <2>2
<1>6. ASSUME NEW c \in Clusters, NEW o, SetConfigMap(c, o), Quiet(cmv', c)
      PROVE  Cached(cmv)[c] = o
  <2> DEFINE new == [Actual(cmv) EXCEPT ![c] = o]
  <2>1. cmv' = Commit(cmv, new) /\ new[c] = o
    BY <1>3, <1>6 DEF SetConfigMap
  <2> HIDE DEF new
  <2>2. Quiet(Commit(cmv, new), c)
    BY <1>6, <2>1 DEF Quiet, Versions, Cached
  <2> QED
    BY <1>2, <2>1, <2>2
<1>7. ASSUME NEW c \in Clusters, NEW o, SetDeployment(c, o), Quiet(dpv', c)
      PROVE  Cached(dpv)[c] = o
  <2> DEFINE new == [Actual(dpv) EXCEPT ![c] = o]
  <2>1. dpv' = Commit(dpv, new) /\ new[c] = o
    BY <1>3, <1>7 DEF SetDeployment
  <2> HIDE DEF new
  <2>2. Quiet(Commit(dpv, new), c)
    BY <1>7, <2>1 DEF Quiet, Versions, Cached
  <2> QED
    BY <1>2, <2>1, <2>2
<1> QED
  BY <1>4, <1>5, <1>6, <1>7

\* After a delivery, the objects it does not concern are cached as before, and
\* quiet only if they were.
LEMMA DeliveryFacts ==
    ASSUME TypeOK
    PROVE  /\ ~Synced(plv) =>
                \A p \in Pipelines \ Changed(plv) :
                  /\ Cached(Deliver(plv))[p] = Cached(plv)[p]
                  /\ Quiet(Deliver(plv), p) => Quiet(plv, p)
           /\ \A c \in Clusters :
                /\ ~Synced(clv) /\ c \notin Changed(clv) =>
                     /\ Cached(Deliver(clv))[c] = Cached(clv)[c]
                     /\ Quiet(Deliver(clv), c) => Quiet(clv, c)
                /\ ~Synced(cmv) /\ c \notin Changed(cmv) =>
                     /\ Cached(Deliver(cmv))[c] = Cached(cmv)[c]
                     /\ Quiet(Deliver(cmv), c) => Quiet(cmv, c)
                /\ ~Synced(dpv) /\ c \notin Changed(dpv) =>
                     /\ Cached(Deliver(dpv))[c] = Cached(dpv)[c]
                     /\ Quiet(Deliver(dpv), c) => Quiet(dpv, c)
<1>1. /\ DOMAIN Cached(plv) = Pipelines /\ DOMAIN Cached(clv) = Clusters
      /\ DOMAIN Cached(cmv) = Clusters /\ DOMAIN Cached(dpv) = Clusters
  BY Reads DEF PipelineStore, ClusterStore, ConfigMapStore, DeploymentStore
<1>2. ~Synced(plv) =>
        \A p \in Pipelines \ Changed(plv) :
          /\ Cached(Deliver(plv))[p] = Cached(plv)[p]
          /\ Quiet(Deliver(plv), p) => Quiet(plv, p)
  BY <1>1, QuietDeliver DEF TypeOK
<1>3. \A c \in Clusters :
        ~Synced(clv) /\ c \notin Changed(clv) =>
          /\ Cached(Deliver(clv))[c] = Cached(clv)[c]
          /\ Quiet(Deliver(clv), c) => Quiet(clv, c)
  BY <1>1, QuietDeliver DEF TypeOK
<1>4. \A c \in Clusters :
        ~Synced(cmv) /\ c \notin Changed(cmv) =>
          /\ Cached(Deliver(cmv))[c] = Cached(cmv)[c]
          /\ Quiet(Deliver(cmv), c) => Quiet(cmv, c)
  BY <1>1, QuietDeliver DEF TypeOK
<1>5. \A c \in Clusters :
        ~Synced(dpv) /\ c \notin Changed(dpv) =>
          /\ Cached(Deliver(dpv))[c] = Cached(dpv)[c]
          /\ Quiet(Deliver(dpv), c) => Quiet(dpv, c)
  BY <1>1, QuietDeliver DEF TypeOK
<1> QED
  BY <1>2, <1>3, <1>4, <1>5

-----------------------------------------------------------------------------
(***************************************************************************)
(* The cluster controller.  The inductive invariant is about a cluster     *)
(* without a request: the worker, if it is on the cluster, holds what is   *)
(* cached of it; and what the reconcile has passed is in line, unless an   *)
(* event about it is on its way, which will make a request.  A reconcile   *)
(* that is over has passed everything.                                     *)
(***************************************************************************)
ClusterOn(c)  == cw.pc # "idle" /\ cw.name = c
Past(c, pcs)  == ClusterOn(c) => cw.pc \in pcs

ClusterAsRead(c) == ClusterOn(c) => cw.obj = Cached(clv)[c]

ConfigMapThere(c) ==
    Past(c, {"deployment", "status"}) /\ Quiet(cmv, c)
      => Cached(cmv)[c] # Absent

DeploymentInLine(c) ==
    Past(c, {"status"}) /\ Quiet(dpv, c)
      => /\ Cached(dpv)[c] # Absent
         /\ Cached(dpv)[c].image = Cached(clv)[c].image

ClusterObserved(c) ==
    Past(c, {}) /\ Quiet(clv, c) => Cached(clv)[c].observed

ClusterDone(c) ==
    /\ ClusterAsRead(c)
    /\ Cached(clv)[c] # Absent
         => ConfigMapThere(c) /\ DeploymentInLine(c) /\ ClusterObserved(c)

ClusterInv == \A c \in Clusters : c \notin cq => ClusterDone(c)

\* Initially there is no cluster.
LEMMA ClusterInvInit == Init => ClusterInv
  BY DEF Init, Cached, ClusterIdle, ClusterInv, ClusterDone, ClusterAsRead,
         ClusterOn

\* Those who only write keep the invariant.
LEMMA ClusterInvFrame ==
    ASSUME ClusterInv, StoresGrow, UNCHANGED <<cq, cw>>
    PROVE  ClusterInv'
<1> SUFFICES ASSUME NEW c \in Clusters, c \notin cq PROVE ClusterDone(c)'
  BY DEF ClusterInv
<1>1. ClusterDone(c)
  BY DEF ClusterInv
<1>2. /\ Cached(clv') = Cached(clv) /\ Cached(cmv') = Cached(cmv)
      /\ Cached(dpv') = Cached(dpv)
      /\ Quiet(clv', c) => Quiet(clv, c)
      /\ Quiet(cmv', c) => Quiet(cmv, c)
      /\ Quiet(dpv', c) => Quiet(dpv, c)
  BY QuietGrown DEF StoresGrow, Grown
<1>3. Cached(clv') = Cached(clv)'
  BY DEF Cached
<1> QED
  BY <1>1, <1>2
     DEF ClusterDone, ClusterAsRead, ConfigMapThere, DeploymentInLine,
         ClusterObserved, Past, ClusterOn, Cached, Quiet, Versions


\* A delivery about a cluster or one of its children makes a request.
LEMMA ClusterInvInformers ==
    ASSUME TypeOK, ClusterInv, Informers
    PROVE  ClusterInv'
<1> SUFFICES ASSUME NEW c \in Clusters, c \notin cq' PROVE ClusterDone(c)'
  BY DEF ClusterInv
<1>1. /\ c \notin cq /\ UNCHANGED cw
      /\ UNCHANGED clv \/ (~Synced(clv) /\ clv' = Deliver(clv) /\ c \notin Changed(clv))
      /\ UNCHANGED cmv \/ (~Synced(cmv) /\ cmv' = Deliver(cmv) /\ c \notin Changed(cmv))
      /\ UNCHANGED dpv \/ (~Synced(dpv) /\ dpv' = Deliver(dpv) /\ c \notin Changed(dpv))
  BY DEF Informers, DeliverPipelines, DeliverConfigMaps, DeliverClusters,
         DeliverDeployments
<1>2. ClusterDone(c)
  BY <1>1 DEF ClusterInv
<1>3. /\ Cached(clv')[c] = Cached(clv)[c]
      /\ Quiet(clv', c) => Quiet(clv, c)
  BY <1>1, DeliveryFacts
<1>4. /\ Cached(cmv')[c] = Cached(cmv)[c]
      /\ Quiet(cmv', c) => Quiet(cmv, c)
  BY <1>1, DeliveryFacts
<1>5. /\ Cached(dpv')[c] = Cached(dpv)[c]
      /\ Quiet(dpv', c) => Quiet(dpv, c)
  BY <1>1, DeliveryFacts
<1> QED
  BY <1>1, <1>2, <1>3, <1>4, <1>5
     DEF ClusterDone, ClusterAsRead, ConfigMapThere, DeploymentInLine,
         ClusterObserved, Past, ClusterOn, Cached, Quiet, Versions

\* The worker leaves nothing behind but what is in line, an event or a request.
LEMMA ClusterInvController ==
    ASSUME TypeOK, ClusterInv, ClusterController \/ ClusterCallFails
    PROVE  ClusterInv'
<1> SUFFICES ASSUME NEW c \in Clusters, c \notin cq' PROVE ClusterDone(c)'
  BY DEF ClusterInv
<1>1. /\ Cached(clv') = Cached(clv) /\ Cached(cmv') = Cached(cmv)
      /\ Cached(dpv') = Cached(dpv)
      /\ Quiet(clv', c) => Quiet(clv, c)
      /\ Quiet(cmv', c) => Quiet(cmv, c)
      /\ Quiet(dpv', c) => Quiet(dpv, c)
  BY ClusterControllerFrame, QuietGrown DEF StoresGrow, Grown
<1> USE DEF ClusterDone, ClusterAsRead, ConfigMapThere, DeploymentInLine,
            ClusterObserved, Past, ClusterOn
<1>2. ASSUME NEW d \in Clusters, ClusterReconcile(d) PROVE ClusterDone(c)'
  <2>1. CASE c = d
    BY <1>1, <1>2, <2>1 DEF ClusterReconcile, ClusterIdle
  <2>2. CASE c # d
    BY <1>1, <1>2, <2>2 DEF ClusterReconcile, ClusterIdle, ClusterInv
  <2> QED
    BY <2>1, <2>2
<1>3. ASSUME cw.pc # "idle", ~ClusterOn(c), UNCHANGED cw \/ cw'.pc = "idle"
                 \/ (cw'.name = cw.name /\ cw'.pc # "idle"),
             c \notin cq
      PROVE  ClusterDone(c)'
  BY <1>1, <1>3 DEF ClusterInv
<1>4. cw.pc # "idle" => cw \in ClusterWorker /\ cw.obj \in ClusterObject
  BY DEF TypeOK
<1>5. CASE ReconcileConfigMap
  <2>1. \/ cw' = ClusterIdle /\ cq' = cq \cup {cw.name}
        \/ cw' = [cw EXCEPT !.pc = "deployment"] /\ cq' = cq
    BY <1>5 DEF ReconcileConfigMap, ClusterReturnErr, ClusterGoto
  <2>2. CASE ~ClusterOn(c)
    BY <1>3, <1>4, <1>5, <2>1, <2>2
       DEF ReconcileConfigMap, ClusterIdle, ClusterWorker
  <2>3. CASE ClusterOn(c)
    <3>1. /\ c \notin cq /\ cw' = [cw EXCEPT !.pc = "deployment"]
          /\ cw.name = c /\ cw.pc = "configmap"
      BY <1>5, <2>1, <2>3 DEF ReconcileConfigMap
    <3>2. Quiet(cmv', c) => Cached(cmv)[c] # Absent
      <4>1. CASE Cached(cmv)[c] # Absent
        BY <4>1
      <4>2. CASE SetConfigMap(c, [uid |-> cw.obj.uid,
                                  content |-> PlaceholderContent])
        <5>1. [uid |-> cw.obj.uid, content |-> PlaceholderContent] \in ConfigMap
          BY <1>4, <3>1
             DEF ClusterObject, ConfigMap, PlaceholderContent, Contents
        <5>2. [uid |-> cw.obj.uid, content |-> PlaceholderContent] # Absent
          BY <5>1, ObjectAssumption
        <5> QED
          BY <4>2, <5>2, WriteQuiet
      <4> QED
        BY <1>5, <3>1, <4>1, <4>2
           DEF ReconcileConfigMap, ClusterReturnErr, ClusterIdle, ClusterGoto
    <3> QED
      BY <1>1, <1>4, <3>1, <3>2 DEF ClusterInv, ClusterWorker
  <2> QED
    BY <2>2, <2>3
<1>6. CASE ReconcileDeployment
  <2>1. \/ cw' = ClusterIdle /\ cq' = cq \cup {cw.name}
        \/ cw' = [cw EXCEPT !.pc = "status"] /\ cq' = cq
    BY <1>6 DEF ReconcileDeployment, ClusterReturnErr, ClusterGoto
  <2>2. CASE ~ClusterOn(c)
    BY <1>3, <1>4, <1>6, <2>1, <2>2
       DEF ReconcileDeployment, ClusterIdle, ClusterWorker
  <2>3. CASE ClusterOn(c)
    <3>1. /\ c \notin cq /\ cw' = [cw EXCEPT !.pc = "status"]
          /\ cw.name = c /\ cw.pc = "deployment"
      BY <1>6, <2>1, <2>3 DEF ReconcileDeployment
    <3>2. Quiet(dpv', c) => /\ Cached(dpv)[c] # Absent
                            /\ Cached(dpv)[c].image = cw.obj.image
      <4> DEFINE new == [uid |-> cw.obj.uid, image |-> cw.obj.image,
                         hash |-> NoHash, rolled |-> FALSE]
                 upd == UpdatedDeployment(Cached(dpv)[c], cw.obj.image)
      <4>1. CASE SetDeployment(c, new)
        <5>1. new \in Deployment /\ new.image = cw.obj.image
          BY <1>4, <3>1 DEF ClusterObject, Deployment, NoHash
        <5>2. new # Absent
          BY <5>1, ObjectAssumption
        <5> HIDE DEF new
        <5> QED
          BY <4>1, <5>1, <5>2, WriteQuiet
      <4>2. CASE Cached(dpv)[c] # Absent /\ SetDeployment(c, upd)
        <5>1. Cached(dpv)[c] \in Deployment
          BY <4>2, Reads DEF DeploymentStore
        <5>2. upd.image = cw.obj.image
          BY <5>1 DEF UpdatedDeployment, Deployment
        <5> HIDE DEF upd
        <5> QED
          BY <4>2, <5>2, WriteQuiet
      <4> QED
        BY <1>6, <3>1, <4>1, <4>2
           DEF ReconcileDeployment, ClusterReturnErr, ClusterIdle, ClusterGoto
    <3> QED
      BY <1>1, <1>4, <3>1, <3>2 DEF ClusterInv, ClusterWorker
  <2> QED
    BY <2>2, <2>3
<1>7. CASE ReconcileStatus
  <2> DEFINE st  == [progressing |-> ~Cached(dpv)[cw.name].rolled,
                     pipelines |-> Cardinality(
                         Targets(Cached(plv), cw.name, Absent))]
             new == [cw.obj EXCEPT !.status = {st}, !.observed = TRUE]
  <2>1. cw' = ClusterIdle /\ (cq' = cq \cup {cw.name} \/ cq' = cq)
    BY <1>7 DEF ReconcileStatus, ClusterReturnErr, ClusterReturn
  <2>2. CASE ~ClusterOn(c)
    BY <1>3, <1>4, <1>7, <2>1, <2>2 DEF ReconcileStatus, ClusterIdle
  <2>3. CASE ClusterOn(c)
    <3>1. /\ c \notin cq /\ cw.name = c /\ cw.pc = "status"
          /\ cw.obj = Cached(clv)[c]
      BY <1>7, <2>1, <2>3 DEF ReconcileStatus, ClusterInv
    <3>2. new.observed
      BY <1>4, <3>1 DEF ClusterObject
    <3>3. new = cw.obj \/ SetCluster(c, new)
      BY <1>7, <2>1, <3>1 DEF ReconcileStatus, ClusterReturnErr
    <3> HIDE DEF new
    <3>4. Quiet(clv', c) => Cached(clv)[c].observed
      BY <3>1, <3>2, <3>3, WriteQuiet
    <3> QED
      BY <1>1, <2>1, <3>1, <3>4 DEF ClusterInv, ClusterIdle
  <2> QED
    BY <2>2, <2>3
<1>8. CASE ClusterCallFails
  <2>1. cw.pc # "idle" /\ cw' = ClusterIdle /\ cq' = cq \cup {cw.name}
    BY <1>8 DEF ClusterCallFails, ClusterReturnErr
  <2> QED
    BY <1>3, <2>1 DEF ClusterIdle
<1> QED
  BY <1>2, <1>5, <1>6, <1>7, <1>8 DEF ClusterController

\* A restart makes a request for whatever is there.
LEMMA ClusterInvRestart ==
    ASSUME TypeOK, Restart
    PROVE  ClusterInv'
<1> SUFFICES ASSUME NEW c \in Clusters, c \notin cq' PROVE ClusterDone(c)'
  BY DEF ClusterInv
<1>1. Actual(clv)[c] = Absent /\ clv' = Relist(clv) /\ cw'.pc = "idle"
  BY DEF Restart, ClusterIdle
<1>2. Cached(clv')[c] = Absent
  BY <1>1 DEF Relist, Cached
<1> QED
  BY <1>1, <1>2 DEF ClusterDone, ClusterAsRead, ClusterOn, Cached

\* Every step keeps the invariant.
LEMMA ClusterInvStep == TypeOK /\ ClusterInv /\ [Next]_vars => ClusterInv'
<1> SUFFICES ASSUME TypeOK, ClusterInv, [Next]_vars PROVE ClusterInv'
  OBVIOUS
<1>1. CASE User \/ Kubernetes
  BY <1>1, UserFrame, KubernetesFrame, ClusterInvFrame
<1>2. CASE PipelineController \/ PipelineCallFails
  BY <1>2, PipelineControllerFrame, ClusterInvFrame
<1>3. CASE UNCHANGED vars
  BY <1>3, WritesGrow, ClusterInvFrame DEF StoresGrow, vars, stores
<1>4. CASE Informers
  BY <1>4, ClusterInvInformers
<1>5. CASE ClusterController \/ ClusterCallFails
  BY <1>5, ClusterInvController
<1>6. CASE Restart
  BY <1>6, ClusterInvRestart
<1> QED
  BY <1>1, <1>2, <1>3, <1>4, <1>5, <1>6 DEF Next

\* When nothing is left to do, no cluster has a request, a worker or an event,
\* so that what the invariant says of it holds; children of an earlier cluster
\* are something left to do.
LEMMA ClusterInvSettles == TypeOK /\ ClusterInv => SettledCluster
<1> SUFFICES ASSUME TypeOK, ClusterInv, Settled, NEW c \in Clusters
             PROVE  IF Exists(c)
                    THEN /\ Actual(cmv)[c] # Absent /\ Actual(dpv)[c] # Absent
                         /\ Actual(cmv)[c].uid = Actual(clv)[c].uid
                         /\ Actual(dpv)[c].uid = Actual(clv)[c].uid
                         /\ Actual(dpv)[c].image = Actual(clv)[c].image
                         /\ Actual(clv)[c].observed
                    ELSE Actual(cmv)[c] = Absent /\ Actual(dpv)[c] = Absent
  BY DEF SettledCluster
<1>1. /\ Quiet(clv, c) /\ Actual(clv) = Cached(clv)
      /\ Quiet(cmv, c) /\ Actual(cmv) = Cached(cmv)
      /\ Quiet(dpv, c) /\ Actual(dpv) = Cached(dpv)
  BY QuietFacts DEF Settled, TypeOK
<1>2. /\ c \notin cq /\ ~ClusterOn(c)
      /\ ~OwnerGone(c, Actual(cmv)[c]) /\ ~OwnerGone(c, Actual(dpv)[c])
  BY DEF Settled, ClusterOn
<1> QED
  BY <1>1, <1>2
     DEF ClusterInv, ClusterDone, ConfigMapThere, DeploymentInLine,
         ClusterObserved, Past, Exists, OwnerGone

\* Whatever happens to a cluster, in whichever order, and however late the
\* operator sees it: once nothing is left to do, the cluster has its own
\* ConfigMap and Deployment with the template it asks for, and a status about
\* its current generation, and a deleted one has nothing.
THEOREM ClusterUpdatesAreNotLost == Spec => []SettledCluster
<1>1. Spec => []ClusterInv
  BY ClusterInvInit, ClusterInvStep, TypeCorrect, PTL DEF Spec
<1> QED
  BY <1>1, ClusterInvSettles, TypeCorrect, PTL

-----------------------------------------------------------------------------
(***************************************************************************)
(* The pipeline controller.  A pipeline that is being deleted carries the  *)
(* finalizer: without one, the deletion takes it away at once.  That is    *)
(* why a reconcile that finds nothing to do for it is no loss.             *)
(***************************************************************************)
DeletingHasFinalizer ==
    \A s \in Versions(plv) : \A p \in Pipelines :
      s[p] # Absent /\ s[p].deleting => s[p].finalizer

\* A write of an object that is not being deleted without a finalizer.
LEMMA DeletingWrite ==
    ASSUME TypeOK, DeletingHasFinalizer, NEW p \in Pipelines,
           NEW o \in PipelineObject \cup {Absent},
           o # Absent /\ o.deleting => o.finalizer,
           SetPipeline(p, o)
    PROVE  DeletingHasFinalizer'
<1> DEFINE new == [Actual(plv) EXCEPT ![p] = o]
<1>1. Versions(plv') \subseteq Versions(plv) \cup {new}
  BY PipelineWrite DEF TypeOK
<1>2. Actual(plv) \in Versions(plv) /\ Actual(plv) \in PipelineStore
  BY HistoryFacts DEF TypeOK
<1>3. \A q \in Pipelines : new[q] = IF q = p THEN o ELSE Actual(plv)[q]
  BY <1>2 DEF PipelineStore
<1>4. \A q \in Pipelines :
        new[q] # Absent /\ new[q].deleting => new[q].finalizer
  BY <1>2, <1>3 DEF DeletingHasFinalizer
<1> QED
  BY <1>1, <1>4 DEF DeletingHasFinalizer

\* Initially there is no pipeline.
LEMMA DeletingInit == Init => DeletingHasFinalizer
<1>1. Init => Versions(plv) = {[p \in Pipelines |-> Absent]}
  BY DEF Init, Versions
<1> QED
  BY <1>1 DEF DeletingHasFinalizer

\* Users delete at once what has no finalizer, and take none away; the worker
\* writes objects with the finalizer, or takes the object away.
LEMMA DeletingStep ==
    TypeOK /\ ProtocolInv /\ DeletingHasFinalizer /\ [Next]_vars
      => DeletingHasFinalizer'
<1> SUFFICES ASSUME TypeOK, ProtocolInv, DeletingHasFinalizer, [Next]_vars
             PROVE  DeletingHasFinalizer'
  OBVIOUS
<1>1. CASE Versions(plv') \subseteq Versions(plv)
  BY <1>1 DEF DeletingHasFinalizer
<1>2. CASE UserWrites
  <2>1. PICK p \in Pipelines, o \in PipelineObject \cup {Absent} :
          SetPipeline(p, o) /\ UserChange(Actual(plv)[p], o)
    BY <1>2 DEF UserWrites
  <2>2. Actual(plv)[p] # Absent /\ Actual(plv)[p].deleting
          => Actual(plv)[p].finalizer
    BY HistoryFacts DEF TypeOK, DeletingHasFinalizer
  <2>3. o # Absent /\ o.deleting => o.finalizer
    BY <2>1, <2>2 DEF UserChange
  <2> QED
    BY <2>1, <2>3, DeletingWrite
<1>3. CASE WorkerWrites
  <2>1. PICK o \in PipelineObject \cup {Absent} :
          /\ pw.name \in Pipelines /\ pw.obj \in PipelineObject
          /\ SetPipeline(pw.name, o) /\ WorkerChange(o)
    BY <1>3 DEF WorkerWrites
  <2>2. o # Absent => o.finalizer
    BY <2>1 DEF WorkerChange, PipelineObject
  <2> QED
    BY <2>1, <2>2, DeletingWrite
<1> QED
  BY <1>1, <1>2, <1>3, PipelineHistory, DeliverFacts, RelistFacts DEF TypeOK

-----------------------------------------------------------------------------
(***************************************************************************)
(* The inductive invariant is about a pipeline without a request.  The     *)
(* worker, if it is on the pipeline, holds what is cached of it.  If it is *)
(* not, and no event about the pipeline is on its way, the reconcile has   *)
(* done all it does.  How far the pipeline has come, by the place of the   *)
(* worker or by its status, says what is cached of the cluster and, unless *)
(* an event about it is on its way, of the ConfigMap.                      *)
(***************************************************************************)
PipelineOn(p) == pw.pc # "idle" /\ pw.name = p

PipelineAsRead(p) == PipelineOn(p) => pw.obj = Cached(plv)[p]

PipelineObserved(p) ==
    LET o == Cached(plv)[p] IN
    o # Absent /\ ~PipelineOn(p) /\ Quiet(plv, p)
      => ~o.deleting /\ o.finalizer /\ o.observed = o.generation /\ o.phase # ""

\* The pipeline has come to one of the places.
Come(p, places) ==
    LET o == Cached(plv)[p] IN
    /\ o # Absent /\ ~o.deleting
    /\ IF PipelineOn(p) THEN pw.pc \in places
       ELSE Quiet(plv, p) /\ o.phase \in places

WaitsForCluster(p) ==
    Come(p, {"Pending"}) => Cached(clv)[Cached(plv)[p].cluster] = Absent

HasCluster(p) ==
    Come(p, {"rebuild", "stamp", "Applied"})
      => Cached(clv)[Cached(plv)[p].cluster] # Absent

EntryThere(p) ==
    LET o  == Cached(plv)[p]
        cm == Cached(cmv)[o.cluster]
    IN  Come(p, {"stamp", "Applied"}) /\ Quiet(cmv, o.cluster)
          => cm # Absent /\ EntryOf(o) \in cm.content

PipelineDone(p) ==
    /\ PipelineAsRead(p) /\ PipelineObserved(p)
    /\ WaitsForCluster(p) /\ HasCluster(p) /\ EntryThere(p)

PipelineInv == \A p \in Pipelines : p \notin pq => PipelineDone(p)

\* Initially there is no pipeline.
LEMMA PipelineInvInit == Init => PipelineInv
  BY DEF Init, Cached, PipelineIdle, PipelineInv, PipelineDone, PipelineAsRead,
         PipelineObserved, Come, WaitsForCluster, HasCluster, EntryThere,
         PipelineOn

\* What is done stays done while the worker does not come to the pipeline and
\* nothing new is cached of it, its cluster and its ConfigMap.
LEMMA PipelineDoneKept ==
    ASSUME NEW p \in Pipelines, PipelineDone(p),
           PipelineOn(p) => pw' = pw,
           ~PipelineOn(p) => ~(pw'.pc # "idle" /\ pw'.name = p),
           Cached(plv')[p] = Cached(plv)[p],
           Quiet(plv', p) => Quiet(plv, p),
           Cached(plv)[p] # Absent =>
             LET c == Cached(plv)[p].cluster IN
             /\ Cached(clv')[c] = Cached(clv)[c]
             /\ Cached(cmv')[c] = Cached(cmv)[c]
             /\ Quiet(cmv', c) => Quiet(cmv, c)
    PROVE  PipelineDone(p)'
<1> DEFINE o == Cached(plv)[p]
<1>1. PipelineOn(p)' <=> PipelineOn(p)
  BY DEF PipelineOn
<1>2. Cached(plv)[p]' = o
  BY DEF Cached
<1>3. Quiet(plv, p)' => Quiet(plv, p)
  BY DEF Quiet, Versions, Cached
<1>4. o # Absent => /\ Cached(clv)'[o.cluster] = Cached(clv)[o.cluster]
                    /\ Cached(cmv)'[o.cluster] = Cached(cmv)[o.cluster]
                    /\ Quiet(cmv', o.cluster) => Quiet(cmv, o.cluster)
  BY DEF Cached
<1>5. PipelineAsRead(p)' /\ PipelineObserved(p)'
  BY <1>1, <1>2, <1>3 DEF PipelineDone, PipelineAsRead, PipelineObserved,
                          PipelineOn
<1>6. \A places : Come(p, places)' => o # Absent /\ Come(p, places)
  BY <1>1, <1>2, <1>3 DEF Come
<1>7. WaitsForCluster(p)' /\ HasCluster(p)'
  BY <1>2, <1>4, <1>6 DEF PipelineDone, WaitsForCluster, HasCluster
<1>8. o # Absent /\ Quiet(cmv, Cached(plv)[p].cluster)'
        => Quiet(cmv, o.cluster)
  BY <1>2, <1>4 DEF Quiet, Versions, Cached
<1>9. EntryThere(p)'
  BY <1>2, <1>4, <1>6, <1>8 DEF PipelineDone, EntryThere
<1> QED
  BY <1>5, <1>7, <1>9 DEF PipelineDone

\* Those who only write keep the invariant.
LEMMA PipelineInvFrame ==
    ASSUME PipelineInv, StoresGrow, UNCHANGED <<pq, pw>>
    PROVE  PipelineInv'
<1> SUFFICES ASSUME NEW p \in Pipelines, p \notin pq PROVE PipelineDone(p)'
  BY DEF PipelineInv
<1>1. PipelineDone(p)
  BY DEF PipelineInv
<1>2. /\ Cached(plv') = Cached(plv) /\ Cached(clv') = Cached(clv)
      /\ Cached(cmv') = Cached(cmv)
      /\ Quiet(plv', p) => Quiet(plv, p)
      /\ \A c : Quiet(cmv', c) => Quiet(cmv, c)
  BY QuietGrown DEF StoresGrow, Grown
<1> QED
  BY <1>1, <1>2, PipelineDoneKept DEF PipelineOn

\* A delivery about a pipeline, its cluster or its ConfigMap makes a request.
LEMMA PipelineInvInformers ==
    ASSUME TypeOK, PipelineInv, Informers
    PROVE  PipelineInv'
<1> SUFFICES ASSUME NEW p \in Pipelines, p \notin pq' PROVE PipelineDone(p)'
  BY DEF PipelineInv
<1> DEFINE o == Cached(plv)[p]
<1>1. /\ p \notin pq /\ UNCHANGED pw
      /\ UNCHANGED plv \/ (~Synced(plv) /\ plv' = Deliver(plv) /\ p \notin Changed(plv))
      /\ \/ UNCHANGED clv
         \/ /\ ~Synced(clv) /\ clv' = Deliver(clv)
            /\ \A c \in Changed(clv) : p \notin FindPipelinesForCluster(c)
      /\ \/ UNCHANGED cmv
         \/ /\ ~Synced(cmv) /\ cmv' = Deliver(cmv)
            /\ \A c \in Changed(cmv) : p \notin FindPipelinesForConfigMap(c)
  BY DEF Informers, DeliverPipelines, DeliverConfigMaps, DeliverClusters,
         DeliverDeployments
<1>2. PipelineDone(p)
  BY <1>1 DEF PipelineInv
<1>3. /\ Cached(plv')[p] = Cached(plv)[p]
      /\ Quiet(plv', p) => Quiet(plv, p)
  BY <1>1, DeliveryFacts
<1>4. ASSUME o # Absent
      PROVE  /\ Cached(clv')[o.cluster] = Cached(clv)[o.cluster]
             /\ Cached(cmv')[o.cluster] = Cached(cmv)[o.cluster]
             /\ Quiet(cmv', o.cluster) => Quiet(cmv, o.cluster)
  <2>1. o.cluster \in Clusters
    BY <1>4, Reads DEF PipelineStore, PipelineObject
  <2>2. /\ \/ UNCHANGED clv
           \/ ~Synced(clv) /\ clv' = Deliver(clv) /\ o.cluster \notin Changed(clv)
        /\ \/ UNCHANGED cmv
           \/ ~Synced(cmv) /\ cmv' = Deliver(cmv) /\ o.cluster \notin Changed(cmv)
    BY <1>1, <1>4 DEF FindPipelinesForCluster, FindPipelinesForConfigMap
  <2> HIDE DEF o
  <2> QED
    BY <2>1, <2>2, DeliveryFacts
<1> QED
  BY <1>1, <1>2, <1>3, <1>4, PipelineDoneKept DEF PipelineOn

\* The entry of a pipeline is in the text that is rendered while it is cached
\* and not being deleted.
LEMMA EntryRendered ==
    ASSUME NEW listed, NEW p \in Pipelines, listed[p] # Absent,
           ~listed[p].deleting
    PROVE  EntryOf(listed[p]) \in Render(listed, listed[p].cluster, Absent)
  BY DefinitionAssumption DEF Render, Targets

\* The worker leaves nothing behind but what is done, an event or a request.
LEMMA PipelineInvController ==
    ASSUME TypeOK, ProtocolInv, DeletingHasFinalizer, PipelineInv,
           PipelineController \/ PipelineCallFails
    PROVE  PipelineInv'
<1> SUFFICES ASSUME NEW p \in Pipelines, p \notin pq' PROVE PipelineDone(p)'
  BY DEF PipelineInv
<1> DEFINE o == Cached(plv)[p]
<1>1. /\ Cached(plv') = Cached(plv) /\ Cached(clv') = Cached(clv)
      /\ Cached(cmv') = Cached(cmv)
      /\ Quiet(plv', p) => Quiet(plv, p)
      /\ \A c : Quiet(cmv', c) => Quiet(cmv, c)
  BY PipelineControllerFrame, QuietGrown DEF StoresGrow, Grown
<1>2. pw.pc # "idle" => pw \in PipelineWorker /\ pw.obj \in PipelineObject
  BY DEF TypeOK
<1>3. \A x \in PipelineObject : x # Absent
  BY ObjectAssumption
<1>4. \* the worker is on another pipeline
      ASSUME ~PipelineOn(p), p \notin pq,
             ~(pw'.pc # "idle" /\ pw'.name = p)
      PROVE  PipelineDone(p)'
  <2>1. PipelineDone(p)
    BY <1>4 DEF PipelineInv
  <2> QED
    BY <1>1, <1>4, <2>1, PipelineDoneKept
<1>5. ASSUME NEW q \in Pipelines, PipelineReconcile(q) PROVE PipelineDone(p)'
  <2>1. CASE p # q
    <3>1. p \notin pq /\ ~PipelineOn(p) /\ ~(pw'.pc # "idle" /\ pw'.name = p)
      BY <1>5, <2>1 DEF PipelineReconcile, PipelineOn, PipelineIdle
    <3> QED
      BY <1>4, <3>1
  <2>2. CASE p = q
    <3>1. pw' = IF o = Absent \/ PipelineBranch(o) = "idle" THEN PipelineIdle
                ELSE [pc |-> PipelineBranch(o), name |-> p, obj |-> o,
                      content |-> PlaceholderContent]
      BY <1>5, <2>2 DEF PipelineReconcile
    <3>2. o # Absent => PipelineBranch(o) # "idle"
      BY HistoryFacts DEF DeletingHasFinalizer, PipelineBranch, TypeOK
    <3>3. Cached(plv)'[p] = o /\ Cached(clv)' = Cached(clv)
      BY <1>1 DEF Cached
    <3>4. CASE o = Absent
      BY <3>1, <3>3, <3>4
         DEF PipelineDone, PipelineAsRead, PipelineObserved, Come,
             WaitsForCluster, HasCluster, EntryThere, PipelineOn, PipelineIdle
    <3>5. CASE o # Absent
      <4>1. pw' = [pc |-> PipelineBranch(o), name |-> p, obj |-> o,
                   content |-> PlaceholderContent]
        BY <3>1, <3>2, <3>5
      <4>2. PipelineOn(p)' /\ PipelineAsRead(p)' /\ PipelineObserved(p)'
        BY <3>2, <3>3, <3>5, <4>1
           DEF PipelineOn, PipelineAsRead, PipelineObserved
      <4>3. \A places : Come(p, places)'
                          => ~o.deleting /\ PipelineBranch(o) \in places
        BY <3>3, <4>1, <4>2 DEF Come
      <4>4. WaitsForCluster(p)' /\ HasCluster(p)'
        BY <3>3, <4>3 DEF WaitsForCluster, HasCluster, PipelineBranch
      <4>5. EntryThere(p)'
        BY <4>3 DEF EntryThere, PipelineBranch
      <4> QED
        BY <4>2, <4>4, <4>5 DEF PipelineDone
    <3> QED
      BY <3>4, <3>5
  <2> QED
    BY <2>1, <2>2
<1>6. CASE AddFinalizer \/ RemoveFinalizer
  <2>1. /\ pw.pc \in {"addFinalizer", "removeFinalizer"} /\ pw' = PipelineIdle
        /\ pq' = pq \cup {pw.name} \/ pq' = pq
    BY <1>6 DEF AddFinalizer, RemoveFinalizer, PipelineReturn,
                PipelineReturnErr
  <2>2. p \notin pq /\ ~PipelineOn(p)'
    BY <2>1 DEF PipelineIdle, PipelineOn
  <2>3. CASE ~PipelineOn(p)
    BY <1>4, <2>2, <2>3 DEF PipelineOn
  <2>4. CASE PipelineOn(p)
    <3>1. pw.obj = o /\ pw.name = p /\ o \in PipelineObject
      BY <1>2, <2>2, <2>4
         DEF PipelineInv, PipelineDone, PipelineAsRead, PipelineOn
    <3>2. ~Quiet(plv', p)
      <4>1. CASE AddFinalizer
        <5> DEFINE new == [pw.obj EXCEPT !.finalizer = TRUE]
        <5>1. new \in PipelineObject /\ new.finalizer
          BY <3>1 DEF PipelineObject
        <5>2. new # pw.obj
          BY <4>1, <5>1 DEF AddFinalizer, ProtocolInv, WorkerInv
        <5>3. SetPipeline(p, new)
          BY <3>1, <4>1 DEF AddFinalizer, PipelineReturnErr
        <5> HIDE DEF new
        <5> QED
          BY <3>1, <5>2, <5>3, WriteQuiet
      <4>2. CASE RemoveFinalizer
        <5>1. SetPipeline(p, Absent)
          BY <3>1, <4>2 DEF RemoveFinalizer, PipelineReturnErr
        <5> QED
          BY <1>3, <3>1, <5>1, WriteQuiet
      <4> QED
        BY <1>6, <4>1, <4>2
    <3>3. ~Quiet(plv, p)'
      BY <3>2 DEF Quiet, Versions, Cached
    <3> QED
      BY <2>2, <3>3
         DEF PipelineDone, PipelineAsRead, PipelineObserved, Come,
             WaitsForCluster, HasCluster, EntryThere
  <2> QED
    BY <2>3, <2>4
<1>7. CASE RebuildClusterConfig \/ StampDeployment
  <2>1. /\ pw.pc \in {"rebuild", "stamp"}
        /\ \/ PipelineReturnErr
           \/ UNCHANGED pq /\ pw.obj.deleting
                /\ pw' = [pw EXCEPT !.pc = "removeFinalizer"]
           \/ /\ UNCHANGED pq /\ RebuildClusterConfig
              /\ \E x : pw' = [pw EXCEPT !.pc = "stamp", !.content = x]
           \/ /\ UNCHANGED pq /\ StampDeployment /\ ~pw.obj.deleting
              /\ pw' = [pw EXCEPT !.pc = "Applied"]
    <3>1. CASE RebuildClusterConfig
      BY <3>1 DEF RebuildClusterConfig, RebuildNotFound, PipelineGoto
    <3>2. CASE StampDeployment
      BY <3>2 DEF StampDeployment, RebuildNotFound, PipelineGoto
    <3> QED
      BY <1>7, <3>1, <3>2
  <2>2. CASE ~PipelineOn(p)
    <3>1. p \notin pq /\ (pw' = PipelineIdle \/ pw'.name = pw.name)
      BY <1>2, <2>1 DEF PipelineWorker, PipelineReturnErr
    <3>2. ~(pw'.pc # "idle" /\ pw'.name = p)
      <4>1. pw.name # p
        BY <2>1, <2>2 DEF PipelineOn
      <4>2. PipelineIdle.pc = "idle"
        BY DEF PipelineIdle
      <4> QED
        BY <3>1, <4>1, <4>2
    <3> QED
      BY <1>4, <2>2, <3>1, <3>2
  <2>3. CASE PipelineOn(p)
    <3>1. p \notin pq /\ ~PipelineReturnErr
      BY <2>1, <2>3 DEF PipelineOn, PipelineReturnErr
    <3>2. /\ pw.obj = o /\ pw.name = p /\ o \in PipelineObject /\ o # Absent
          /\ PipelineDone(p)
      BY <1>2, <1>3, <2>3, <3>1
         DEF PipelineInv, PipelineDone, PipelineAsRead, PipelineOn
    <3>3. /\ pw'.name = p /\ pw'.obj = o
          /\ \/ pw'.pc = "removeFinalizer"
             \/ pw'.pc = "stamp" /\ RebuildClusterConfig
             \/ pw'.pc = "Applied" /\ StampDeployment
      BY <1>2, <2>1, <2>3, <3>1, <3>2 DEF PipelineOn, PipelineWorker
    <3>4. /\ Cached(plv)'[p] = o /\ Cached(clv)' = Cached(clv)
          /\ Cached(cmv)' = Cached(cmv) /\ PipelineOn(p)'
      BY <1>1, <3>3 DEF Cached, PipelineOn
    <3>5. PipelineAsRead(p)' /\ PipelineObserved(p)'
      BY <3>3, <3>4 DEF PipelineAsRead, PipelineObserved
    <3>6. \A places : Come(p, places)' => ~o.deleting /\ pw'.pc \in places
      BY <3>4 DEF Come
    <3>7. ~o.deleting => Come(p, {pw.pc})
      BY <2>3, <3>2 DEF Come
    <3>8. WaitsForCluster(p)'
      BY <3>3, <3>6 DEF WaitsForCluster
    <3>9. HasCluster(p)'
      <4>1. ~o.deleting => Come(p, {"rebuild", "stamp", "Applied"})
        BY <2>1, <3>7 DEF Come
      <4> QED
        BY <3>2, <3>4, <3>6, <4>1 DEF PipelineDone, HasCluster
    <3>10. EntryThere(p)'
      <4> SUFFICES ASSUME ~o.deleting, pw'.pc \in {"stamp", "Applied"},
                          Quiet(cmv', o.cluster)
                   PROVE  /\ Cached(cmv)[o.cluster] # Absent
                          /\ EntryOf(o) \in Cached(cmv)[o.cluster].content
        <5>1. Quiet(cmv, Cached(plv)[p].cluster)' => Quiet(cmv', o.cluster)
          BY <3>4 DEF Quiet, Versions, Cached
        <5> QED
          BY <3>4, <3>6, <5>1 DEF EntryThere
      <4>1. CASE StampDeployment
        <5>1. Come(p, {"stamp", "Applied"})
          BY <3>7, <4>1 DEF StampDeployment, Come
        <5> QED
          BY <1>1, <3>2, <5>1 DEF PipelineDone, EntryThere
      <4>2. CASE RebuildClusterConfig
        <5> DEFINE c       == o.cluster
                   content == Render(Cached(plv), c, Absent)
                   cm      == Cached(cmv)[c]
                   new     == [cm EXCEPT !.content = content]
        <5>1. EntryOf(o) \in content
          BY <3>2, EntryRendered
        <5>2. cm # Absent
          BY <3>1, <3>2, <4>2 DEF RebuildClusterConfig, RebuildNotFound
        <5>3. c \in Clusters /\ cm \in ConfigMap
          BY <3>2, <5>2, Reads DEF PipelineObject, ConfigMapStore
        <5>4. cm.content = content \/ SetConfigMap(c, new)
          BY <3>1, <3>2, <4>2 DEF RebuildClusterConfig, RebuildNotFound
        <5>5. new.content = content
          BY <5>3 DEF ConfigMap
        <5> HIDE DEF new, content
        <5>6. SetConfigMap(c, new) => cm = new
          BY <5>3, WriteQuiet
        <5> QED
          BY <5>1, <5>2, <5>4, <5>5, <5>6
      <4> QED
        BY <1>7, <4>1, <4>2
    <3> QED
      BY <3>5, <3>8, <3>9, <3>10 DEF PipelineDone
  <2> QED
    BY <2>2, <2>3
<1>8. CASE SetStatus
  <2> DEFINE new == [pw.obj EXCEPT !.phase = pw.pc,
                                   !.observed = pw.obj.generation]
  <2>1. /\ pw.pc \in {"Pending", "Applied"} /\ pw' = PipelineIdle
        /\ \/ new = pw.obj /\ UNCHANGED pq
           \/ new # pw.obj /\ SetPipeline(pw.name, new) /\ UNCHANGED pq
           \/ pq' = pq \cup {pw.name}
    BY <1>8 DEF SetStatus, PipelineReturn, PipelineReturnErr
  <2> HIDE DEF new
  <2>2. p \notin pq /\ ~PipelineOn(p)'
    BY <2>1 DEF PipelineIdle, PipelineOn
  <2>3. CASE ~PipelineOn(p)
    BY <1>4, <2>2, <2>3 DEF PipelineOn
  <2>4. CASE PipelineOn(p)
    <3>1. /\ pw.obj = o /\ pw.name = p /\ o \in PipelineObject /\ o # Absent
          /\ PipelineDone(p)
      BY <1>2, <1>3, <2>2, <2>4
         DEF PipelineInv, PipelineDone, PipelineAsRead, PipelineOn
    <3>2. Quiet(plv', p) => new = o
      BY <2>1, <2>2, <3>1, WriteQuiet
    <3>3. /\ new = o => o.phase = pw.pc /\ o.observed = o.generation
          /\ o.finalizer /\ ~o.deleting
      BY <1>8, <2>1, <3>1 DEF new, PipelineObject, ProtocolInv, WorkerInv
    <3>4. /\ Cached(plv)'[p] = o /\ Cached(clv)' = Cached(clv)
          /\ Cached(cmv)' = Cached(cmv)
          /\ Quiet(plv, p)' => Quiet(plv', p)
      BY <1>1 DEF Quiet, Versions, Cached
    <3>5. PipelineAsRead(p)' /\ PipelineObserved(p)'
      BY <2>1, <2>2, <3>2, <3>3, <3>4 DEF PipelineAsRead, PipelineObserved
    <3>6. \A places : Come(p, places)' => Come(p, places)
      BY <2>2, <2>4, <3>1, <3>2, <3>3, <3>4 DEF Come
    <3>7. WaitsForCluster(p)' /\ HasCluster(p)'
      BY <3>1, <3>4, <3>6 DEF PipelineDone, WaitsForCluster, HasCluster
    <3>8. Quiet(cmv, Cached(plv)[p].cluster)' => Quiet(cmv, o.cluster)
      BY <1>1, <3>4 DEF Quiet, Versions, Cached
    <3>9. EntryThere(p)'
      BY <3>1, <3>4, <3>6, <3>8 DEF PipelineDone, EntryThere
    <3> QED
      BY <3>5, <3>7, <3>9 DEF PipelineDone
  <2> QED
    BY <2>3, <2>4
<1>9. CASE PipelineCallFails
  <2>1. pw.pc # "idle" /\ pw' = PipelineIdle /\ pq' = pq \cup {pw.name}
    BY <1>9 DEF PipelineCallFails, PipelineReturnErr
  <2> QED
    BY <1>4, <2>1 DEF PipelineIdle, PipelineOn
<1> QED
  BY <1>5, <1>6, <1>7, <1>8, <1>9 DEF PipelineController

\* A restart makes a request for whatever is there.
LEMMA PipelineInvRestart ==
    ASSUME TypeOK, Restart
    PROVE  PipelineInv'
<1> SUFFICES ASSUME NEW p \in Pipelines, p \notin pq' PROVE PipelineDone(p)'
  BY DEF PipelineInv
<1>1. Actual(plv)[p] = Absent /\ plv' = Relist(plv) /\ pw'.pc = "idle"
  BY DEF Restart, PipelineIdle
<1>2. Cached(plv)'[p] = Absent
  BY <1>1 DEF Relist, Cached
<1> QED
  BY <1>1, <1>2
     DEF PipelineDone, PipelineAsRead, PipelineObserved, Come,
         WaitsForCluster, HasCluster, EntryThere, PipelineOn

\* Every step keeps the invariant.
LEMMA PipelineInvStep ==
    TypeOK /\ ProtocolInv /\ DeletingHasFinalizer /\ PipelineInv /\ [Next]_vars
      => PipelineInv'
<1> SUFFICES ASSUME TypeOK, ProtocolInv, DeletingHasFinalizer, PipelineInv,
                    [Next]_vars
             PROVE  PipelineInv'
  OBVIOUS
<1>1. CASE User \/ Kubernetes
  BY <1>1, UserFrame, KubernetesFrame, PipelineInvFrame
<1>2. CASE ClusterController \/ ClusterCallFails
  BY <1>2, ClusterControllerFrame, PipelineInvFrame
<1>3. CASE UNCHANGED vars
  BY <1>3, WritesGrow, PipelineInvFrame DEF StoresGrow, vars, stores
<1>4. CASE Informers
  BY <1>4, PipelineInvInformers
<1>5. CASE PipelineController \/ PipelineCallFails
  BY <1>5, PipelineInvController
<1>6. CASE Restart
  BY <1>6, PipelineInvRestart
<1> QED
  BY <1>1, <1>2, <1>3, <1>4, <1>5, <1>6 DEF Next

\* When nothing is left to do, no pipeline has a request, a worker or an event,
\* so that what the invariant says of it holds.
LEMMA PipelineInvSettles == TypeOK /\ PipelineInv => SettledMerged
<1> SUFFICES ASSUME TypeOK, PipelineInv, Settled, NEW p \in Pipelines, Live(p)
             PROVE  LET o == Actual(plv)[p] IN
                    /\ ~o.deleting /\ o.finalizer /\ o.observed = o.generation
                    /\ IF Exists(o.cluster)
                       THEN /\ o.phase = "Applied"
                            /\ Actual(cmv)[o.cluster] # Absent
                            /\ EntryOf(o) \in Actual(cmv)[o.cluster].content
                       ELSE o.phase = "Pending"
  BY DEF SettledMerged
<1> DEFINE o == Actual(plv)[p]
<1>1. /\ Quiet(plv, p) /\ Actual(plv) = Cached(plv)
      /\ Actual(clv) = Cached(clv)
      /\ Quiet(cmv, o.cluster) /\ Actual(cmv) = Cached(cmv)
  BY QuietFacts DEF Settled, TypeOK
<1>2. PipelineDone(p) /\ ~PipelineOn(p) /\ o # Absent
  BY DEF Settled, PipelineInv, PipelineOn, Live
<1>3. ~o.deleting /\ o.finalizer /\ o.observed = o.generation /\ o.phase # ""
  BY <1>1, <1>2 DEF PipelineDone, PipelineObserved
<1>4. o.phase \in {"Pending", "Applied"}
  BY <1>2, <1>3, Reads DEF PipelineStore, PipelineObject
<1>5. \A places : o.phase \in places => Come(p, places)
  BY <1>1, <1>2, <1>3 DEF Come
<1> QED
  BY <1>1, <1>2, <1>3, <1>4, <1>5
     DEF PipelineDone, WaitsForCluster, HasCluster, EntryThere, Exists

\* Whatever happens to a pipeline and its cluster, in whichever order, and
\* however late the operator sees it: once nothing is left to do, no deletion is
\* pending, the entry of every pipeline is in the ConfigMap of its cluster and
\* its status says so for the current generation, or that there is no cluster.
THEOREM PipelineUpdatesAreNotLost == Spec => []SettledMerged
<1>1. Spec => []TypeOK /\ []ProtocolInv
  BY ProtocolInit, ProtocolStep, TypeCorrect, PTL DEF Spec
<1>2. Spec => []DeletingHasFinalizer
  BY <1>1, DeletingInit, DeletingStep, PTL DEF Spec
<1>3. Spec => []PipelineInv
  BY <1>1, <1>2, PipelineInvInit, PipelineInvStep, PTL DEF Spec
<1> QED
  BY <1>1, <1>3, PipelineInvSettles, PTL

-----------------------------------------------------------------------------
(***************************************************************************)
(* The hash.  The pipeline controller does not watch Deployments: the hash *)
(* that it has stamped must still be there when it comes to rest, and a    *)
(* Deployment that is created later must be followed by an event about     *)
(* something else.  That event is the status of the cluster: there is none *)
(* before the Deployment, so that a cluster with a status keeps its        *)
(* Deployment unless the garbage collector takes it.  It takes what an     *)
(* earlier cluster of the same name has left.                              *)
(***************************************************************************)
\* A step in which no cluster loses its Deployment: what an earlier cluster has
\* left is collected before one of the same name is created.
DeploymentsStay ==
    \A c \in Clusters : Exists(c) /\ Actual(dpv)[c] # Absent
                          => Actual(dpv')[c] # Absent

ObservedHasDeployment ==
    \A c \in Clusters : Exists(c) /\ Actual(clv)[c].observed
                          => Actual(dpv)[c] # Absent

(***************************************************************************)
(* The inductive invariant is about a pipeline without a request.  A text  *)
(* that is about to be stamped, for whichever pipeline of the cluster, is  *)
(* that of the ConfigMap, unless an event about it is on its way; and once *)
(* the pipeline is Applied, the hash is that of the text, or the status of *)
(* the cluster is still to come.                                           *)
(***************************************************************************)
Stamped(c) ==
    LET cm  == Cached(cmv)[c]
        dep == Actual(dpv)[c]
    IN  Cached(clv)[c] # Absent /\ Cached(clv)[c].observed /\ dep # Absent
          => cm # Absent /\ dep.hash = Hash(cm.content)

StampIsCurrent(p) ==
    LET o  == Cached(plv)[p]
        cm == Cached(cmv)[o.cluster]
    IN  o # Absent /\ pw.pc = "stamp" /\ pw.obj.cluster = o.cluster
          /\ Quiet(cmv, o.cluster)
          => cm # Absent /\ pw.content = cm.content

HashThere(p) ==
    LET c == Cached(plv)[p].cluster IN
    Come(p, {"Applied"}) /\ Quiet(clv, c) /\ Quiet(cmv, c) => Stamped(c)

HashInv == \A p \in Pipelines : p \notin pq => StampIsCurrent(p) /\ HashThere(p)

\* Initially there is nothing.
LEMMA HashInvInit == Init => HashInv /\ ObservedHasDeployment
<1>1. Init => HashInv
  BY DEF Init, Cached, PipelineIdle, HashInv, StampIsCurrent, HashThere, Come
<1>2. Init => \A c \in Clusters : ~Exists(c)
  BY DEF Init, Actual, Exists
<1> QED
  BY <1>1, <1>2 DEF ObservedHasDeployment

\* With the bound 0, no step but a delivery is taken while the informer of
\* Deployments is behind.
LEMMA DeploymentsUpToDate ==
    ASSUME Lag["deployments"] = 0, TypeOK, Fresh
    PROVE  Cached(dpv) = Actual(dpv)
<1>1. ASSUME NEW S, NEW h \in History(S), Len(h) <= 1 + 0
      PROVE  Cached(h) = Actual(h)
  <2>1. Len(h) \in Nat \ {0}
    BY <1>1, HistoryFacts
  <2>2. Len(h) = 1
    BY <1>1, <2>1
  <2> QED
    BY <2>2 DEF Cached, Actual
<1> QED
  BY <1>1 DEF TypeOK, Fresh

\* The generation of a cluster is observed by a write of its status, and that
\* is made by a worker which has found the Deployment.
LEMMA ObservedByStatus ==
    ASSUME TypeOK, [Next]_vars, NEW c \in Clusters,
           Actual(clv')[c] # Absent, Actual(clv')[c].observed,
           ~(Exists(c) /\ Actual(clv)[c].observed)
    PROVE  Fresh /\ Cached(dpv)[c] # Absent /\ UNCHANGED dpv
<1>1. Actual(clv')[c] # Actual(clv)[c] /\ ~UNCHANGED clv
  BY DEF Exists
<1>2. \A b \in Clusters, o \in ClusterObject \cup {Absent} :
        SetCluster(b, o) => Actual(clv') = [Actual(clv) EXCEPT ![b] = o]
  <2> SUFFICES ASSUME NEW b \in Clusters,
                      NEW o \in ClusterObject \cup {Absent}, SetCluster(b, o)
               PROVE  Actual(clv') = [Actual(clv) EXCEPT ![b] = o]
    OBVIOUS
  <2> DEFINE new == [Actual(clv) EXCEPT ![b] = o]
  <2>1. new \in ClusterStore
    BY Reads DEF ClusterStore
  <2>2. clv' = Commit(clv, new)
    BY DEF SetCluster
  <2> HIDE DEF new
  <2>3. Actual(Commit(clv, new)) = new
    BY <2>1, CommitFacts DEF TypeOK
  <2> QED
    BY <2>2, <2>3 DEF new
<1>3. ASSUME NEW b \in Clusters, NEW o \in ClusterObject \cup {Absent},
             SetCluster(b, o)
      PROVE  b = c /\ o # Absent /\ o.observed
  BY <1>1, <1>2, <1>3, Reads DEF ClusterStore
<1>4. CASE ReconcileStatus
  <2> DEFINE st  == [progressing |-> ~Cached(dpv)[cw.name].rolled,
                     pipelines |-> Cardinality(
                         Targets(Cached(plv), cw.name, Absent))]
             new == [cw.obj EXCEPT !.status = {st}, !.observed = TRUE]
  <2>1. /\ Fresh /\ UNCHANGED dpv /\ Cached(dpv)[cw.name] # Absent
        /\ SetCluster(cw.name, new)
    BY <1>1, <1>4 DEF ReconcileStatus
  <2>2. cw.name \in Clusters /\ cw.obj \in ClusterObject
    BY <1>4 DEF ReconcileStatus, TypeOK
  <2>3. st \in ClusterStatus
    BY TargetsCount DEF ClusterStatus
  <2>4. new \in ClusterObject
    BY <2>2, <2>3 DEF ClusterObject
  <2> HIDE DEF new
  <2> QED
    BY <1>3, <2>1, <2>2, <2>4
<1>5. CASE User
  <2>1. ASSUME NEW p \in Pipelines, NEW b \in Clusters, NEW k \in Keys,
               NEW d \in Defs,
               CreatePipeline(p, b, k, d) \/ EditPipeline(p, b, k, d)
        PROVE  UNCHANGED clv
    <3>1. CASE CreatePipeline(p, b, k, d)
      BY <3>1 DEF CreatePipeline
    <3>2. CASE EditPipeline(p, b, k, d)
      BY <3>2 DEF EditPipeline
    <3> QED
      BY <2>1, <3>1, <3>2
  <2>2. \A p \in Pipelines : DeletePipeline(p) => UNCHANGED clv
    BY DEF DeletePipeline
  <2>3. ASSUME NEW b \in Clusters, NEW i \in Images, CreateCluster(b, i)
        PROVE  FALSE
    <3> DEFINE new == [uid |-> uids', image |-> i, status |-> {},
                       observed |-> FALSE]
    <3>1. SetCluster(b, new) /\ uids' \in Nat
      BY <2>3 DEF CreateCluster, TypeOK
    <3>2. new \in ClusterObject /\ ~new.observed
      BY <3>1 DEF ClusterObject
    <3> HIDE DEF new
    <3> QED
      BY <1>3, <3>1, <3>2
  <2>4. ASSUME NEW b \in Clusters, NEW i \in Images, EditCluster(b, i)
        PROVE  FALSE
    <3> DEFINE new == [Actual(clv)[b] EXCEPT !.image = i, !.observed = FALSE]
    <3>1. SetCluster(b, new) /\ Actual(clv)[b] \in ClusterObject
      BY <2>4, Reads DEF EditCluster, ClusterStore
    <3>2. new \in ClusterObject /\ ~new.observed
      BY <3>1 DEF ClusterObject
    <3> HIDE DEF new
    <3> QED
      BY <1>3, <3>1, <3>2
  <2>5. ASSUME NEW b \in Clusters, DeleteCluster(b)
        PROVE  FALSE
    BY <1>3, <2>5 DEF DeleteCluster
  <2> QED
    BY <1>1, <1>5, <2>1, <2>2, <2>3, <2>4, <2>5 DEF User, DriftConfigMap
<1>6. CASE Informers
  <2>1. UNCHANGED clv \/ (~Synced(clv) /\ clv' = Deliver(clv))
    BY <1>6 DEF Informers, DeliverPipelines, DeliverConfigMaps,
                DeliverClusters, DeliverDeployments
  <2> QED
    BY <1>1, <2>1, DeliverFacts DEF TypeOK
<1>7. CASE Restart
  BY <1>1, <1>7, RelistFacts DEF Restart, TypeOK
<1>8. CASE \/ PipelineCallFails \/ ClusterCallFails \/ UNCHANGED vars
           \/ \E p \in Pipelines : PipelineReconcile(p)
           \/ AddFinalizer \/ RebuildClusterConfig \/ RemoveFinalizer
           \/ StampDeployment \/ SetStatus
           \/ (\E b \in Clusters : ClusterReconcile(b))
           \/ ReconcileConfigMap \/ ReconcileDeployment \/ Kubernetes
  BY <1>1, <1>8
     DEF PipelineCallFails, ClusterCallFails, vars, stores, PipelineReconcile,
         AddFinalizer, RebuildClusterConfig, RemoveFinalizer, SetStatus,
         StampDeployment, ClusterReconcile, ReconcileConfigMap,
         ReconcileDeployment, Kubernetes, CollectConfigMap, CollectDeployment,
         RolloutComplete
<1> QED
  BY <1>4, <1>5, <1>6, <1>7, <1>8
     DEF Next, PipelineController, ClusterController

\* A cluster whose generation is observed keeps its Deployment.
LEMMA ObservedStep ==
    ASSUME Lag["deployments"] = 0
    PROVE  TypeOK /\ ObservedHasDeployment /\ [Next]_vars /\ DeploymentsStay
             => ObservedHasDeployment'
<1> SUFFICES ASSUME TypeOK, ObservedHasDeployment, [Next]_vars,
                    DeploymentsStay, NEW c \in Clusters,
                    Actual(clv')[c] # Absent, Actual(clv')[c].observed
             PROVE  Actual(dpv')[c] # Absent
  BY DEF ObservedHasDeployment, Exists, Actual
<1>1. CASE Exists(c) /\ Actual(clv)[c].observed
  BY <1>1 DEF ObservedHasDeployment, DeploymentsStay
<1>2. CASE ~(Exists(c) /\ Actual(clv)[c].observed)
  BY <1>2, ObservedByStatus, DeploymentsUpToDate
<1> QED
  BY <1>1, <1>2

\* The hash stays what it is, and a stamp, for whichever pipeline, is that of
\* the text.
LEMMA StampedKept ==
    ASSUME TypeOK, ObservedHasDeployment, [Next]_vars, NEW c \in Clusters,
           Stamped(c), Quiet(clv, c),
           pw.pc = "stamp" /\ pw.obj.cluster = c
             => Cached(cmv)[c] # Absent /\ pw.content = Cached(cmv)[c].content,
           Cached(clv')[c] = Cached(clv)[c], Cached(cmv')[c] = Cached(cmv)[c]
    PROVE  Stamped(c)'
<1> DEFINE cl  == Cached(clv)[c]
           cm  == Cached(cmv)[c]
           new == Actual(dpv')[c]
<1> SUFFICES ASSUME cl # Absent, cl.observed, new # Absent
             PROVE  cm # Absent /\ new.hash = Hash(cm.content)
  <2>1. /\ Cached(clv)[c]' = cl /\ Cached(cmv)[c]' = cm
        /\ Actual(dpv)[c]' = new
    BY DEF Cached, Actual
  <2> HIDE DEF cl, cm, new
  <2> QED
    BY <2>1 DEF Stamped
<1>1. Actual(clv)[c] = cl
  BY QuietFacts DEF TypeOK
<1>2. Actual(dpv)[c] # Absent
  BY <1>1 DEF ObservedHasDeployment, Exists
<1>3. cm # Absent /\ Actual(dpv)[c].hash = Hash(cm.content)
  BY <1>2 DEF Stamped
<1>4. CASE new.hash = Actual(dpv)[c].hash
  BY <1>3, <1>4
<1>5. CASE new.hash # Actual(dpv)[c].hash
  BY <1>2, <1>5, HashStep
<1> QED
  BY <1>3, <1>4, <1>5

\* So what is there stays there, while the worker does not come to the pipeline
\* and nothing new is cached of it, its cluster and its ConfigMap.
LEMMA HashThereKept ==
    ASSUME TypeOK, ObservedHasDeployment, [Next]_vars, NEW p \in Pipelines,
           StampIsCurrent(p), HashThere(p),
           Come(p, {"Applied"})' => Come(p, {"Applied"}),
           Cached(plv')[p] = Cached(plv)[p],
           Cached(plv)[p] # Absent =>
             LET c == Cached(plv)[p].cluster IN
             /\ Cached(clv')[c] = Cached(clv)[c]
             /\ Cached(cmv')[c] = Cached(cmv)[c]
             /\ Quiet(clv', c) => Quiet(clv, c)
             /\ Quiet(cmv', c) => Quiet(cmv, c)
    PROVE  HashThere(p)'
<1> DEFINE o == Cached(plv)[p]
<1>c. PICK c : c = o.cluster
  OBVIOUS
<1>1. Cached(plv)[p]' = o
  BY DEF Cached
<1>2. /\ Quiet(clv, Cached(plv)[p].cluster)' => Quiet(clv', c)
      /\ Quiet(cmv, Cached(plv)[p].cluster)' => Quiet(cmv', c)
      /\ Stamped(c)' => Stamped(Cached(plv)[p].cluster)'
  BY <1>c, <1>1 DEF Quiet, Versions, Cached, Stamped, Actual
<1> SUFFICES ASSUME Come(p, {"Applied"}), Quiet(clv', c), Quiet(cmv', c)
             PROVE  Stamped(c)'
  BY <1>2 DEF HashThere
<1>3. o # Absent /\ c \in Clusters
  BY <1>c, Reads DEF Come, PipelineStore, PipelineObject
<1>4. /\ Cached(clv')[c] = Cached(clv)[c] /\ Cached(cmv')[c] = Cached(cmv)[c]
      /\ Quiet(clv, c) /\ Quiet(cmv, c)
  BY <1>c, <1>3
<1>5. Stamped(c)
  BY <1>c, <1>4 DEF HashThere
<1>6. pw.pc = "stamp" /\ pw.obj.cluster = c
        => Cached(cmv)[c] # Absent /\ pw.content = Cached(cmv)[c].content
  BY <1>c, <1>3, <1>4 DEF StampIsCurrent
<1> QED
  BY <1>3, <1>4, <1>5, <1>6, StampedKept

\* A text that is the one of the ConfigMap stays it, while the worker stays
\* where it is.
LEMMA StampIsCurrentKept ==
    ASSUME NEW p \in Pipelines, StampIsCurrent(p),
           pw'.pc = "stamp" => pw' = pw,
           Cached(plv')[p] = Cached(plv)[p],
           Cached(plv)[p] # Absent =>
             LET c == Cached(plv)[p].cluster IN
             /\ Cached(cmv')[c] = Cached(cmv)[c]
             /\ Quiet(cmv', c) => Quiet(cmv, c)
    PROVE  StampIsCurrent(p)'
<1> DEFINE o == Cached(plv)[p]
           c == o.cluster
<1>1. Cached(plv)[p]' = o /\ Cached(cmv)' = Cached(cmv')
  BY DEF Cached
<1>2. Quiet(cmv, Cached(plv)[p].cluster)' => Quiet(cmv', c)
  BY <1>1 DEF Quiet, Versions, Cached
<1> QED
  BY <1>1, <1>2 DEF StampIsCurrent

\* Those who do not touch the worker of pipelines and their queue keep the
\* invariant by writing ...
LEMMA HashInvFrame ==
    ASSUME TypeOK, ObservedHasDeployment, [Next]_vars, HashInv, StoresGrow,
           UNCHANGED <<pq, pw>>
    PROVE  HashInv'
<1> SUFFICES ASSUME NEW p \in Pipelines, p \notin pq
             PROVE  StampIsCurrent(p)' /\ HashThere(p)'
  BY DEF HashInv
<1>1. StampIsCurrent(p) /\ HashThere(p)
  BY DEF HashInv
<1>2. /\ Cached(plv') = Cached(plv) /\ Cached(clv') = Cached(clv)
      /\ Cached(cmv') = Cached(cmv)
      /\ Quiet(plv', p) => Quiet(plv, p)
      /\ \A c : /\ Quiet(clv', c) => Quiet(clv, c)
                /\ Quiet(cmv', c) => Quiet(cmv, c)
  BY QuietGrown DEF StoresGrow, Grown
<1>3. Come(p, {"Applied"})' => Come(p, {"Applied"})
  BY <1>2 DEF Come, PipelineOn, Cached, Quiet, Versions
<1>4. StampIsCurrent(p)'
  BY <1>1, <1>2, StampIsCurrentKept
<1>5. HashThere(p)'
  BY <1>1, <1>2, <1>3, HashThereKept
<1> QED
  BY <1>4, <1>5

\* ... and so do deliveries, which make a request of what they change.
LEMMA HashInvInformers ==
    ASSUME TypeOK, ObservedHasDeployment, HashInv, Informers
    PROVE  HashInv'
<1> SUFFICES ASSUME NEW p \in Pipelines, p \notin pq'
             PROVE  StampIsCurrent(p)' /\ HashThere(p)'
  BY DEF HashInv
<1> DEFINE o == Cached(plv)[p]
<1>1. /\ p \notin pq /\ UNCHANGED pw
      /\ UNCHANGED plv \/ (~Synced(plv) /\ plv' = Deliver(plv) /\ p \notin Changed(plv))
      /\ \/ UNCHANGED clv
         \/ /\ ~Synced(clv) /\ clv' = Deliver(clv)
            /\ \A c \in Changed(clv) : p \notin FindPipelinesForCluster(c)
      /\ \/ UNCHANGED cmv
         \/ /\ ~Synced(cmv) /\ cmv' = Deliver(cmv)
            /\ \A c \in Changed(cmv) : p \notin FindPipelinesForConfigMap(c)
  BY DEF Informers, DeliverPipelines, DeliverConfigMaps, DeliverClusters,
         DeliverDeployments
<1>2. StampIsCurrent(p) /\ HashThere(p)
  BY <1>1 DEF HashInv
<1>3. /\ Cached(plv')[p] = Cached(plv)[p]
      /\ Quiet(plv', p) => Quiet(plv, p)
  BY <1>1, DeliveryFacts
<1>4. ASSUME o # Absent
      PROVE  /\ Cached(clv')[o.cluster] = Cached(clv)[o.cluster]
             /\ Cached(cmv')[o.cluster] = Cached(cmv)[o.cluster]
             /\ Quiet(clv', o.cluster) => Quiet(clv, o.cluster)
             /\ Quiet(cmv', o.cluster) => Quiet(cmv, o.cluster)
  <2>1. o.cluster \in Clusters
    BY <1>4, Reads DEF PipelineStore, PipelineObject
  <2>2. /\ \/ UNCHANGED clv
           \/ ~Synced(clv) /\ clv' = Deliver(clv) /\ o.cluster \notin Changed(clv)
        /\ \/ UNCHANGED cmv
           \/ ~Synced(cmv) /\ cmv' = Deliver(cmv) /\ o.cluster \notin Changed(cmv)
    BY <1>1, <1>4 DEF FindPipelinesForCluster, FindPipelinesForConfigMap
  <2> HIDE DEF o
  <2> QED
    BY <2>1, <2>2, DeliveryFacts
<1>5. Come(p, {"Applied"})' => Come(p, {"Applied"})
  BY <1>1, <1>3 DEF Come, PipelineOn, Cached, Quiet, Versions
<1>6. StampIsCurrent(p)'
  BY <1>1, <1>2, <1>3, <1>4, StampIsCurrentKept
<1>7. [Next]_vars
  BY DEF Next
<1>8. HashThere(p)'
  BY <1>2, <1>3, <1>4, <1>5, <1>7, HashThereKept
<1> QED
  BY <1>6, <1>8

\* The rebuild passes on the text of the ConfigMap, or one that it has just
\* written.
LEMMA RebuildIsCurrent ==
    ASSUME TypeOK, RebuildClusterConfig, NEW p \in Pipelines
    PROVE  StampIsCurrent(p)'
<1> DEFINE c       == pw.obj.cluster
           exclude == IF pw.obj.deleting THEN pw.name ELSE Absent
           content == Render(Cached(plv), c, exclude)
           cm      == Cached(cmv)[c]
           new     == [cm EXCEPT !.content = content]
<1>1. /\ pw.pc = "rebuild" /\ pw \in PipelineWorker /\ pw.obj \in PipelineObject
      /\ Grown(cmv, cmv')
  BY PipelineControllerFrame
     DEF RebuildClusterConfig, TypeOK, PipelineController, StoresGrow
<1>2. Cached(cmv)' = Cached(cmv) /\ (\A d : Quiet(cmv, d)' => Quiet(cmv', d))
  BY <1>1 DEF Grown, Quiet, Versions, Cached
<1>3. CASE pw'.pc # "stamp"
  BY <1>3 DEF StampIsCurrent
<1>4. CASE pw'.pc = "stamp"
  <2>1. /\ pw' = [pw EXCEPT !.pc = "stamp", !.content = content]
        /\ cm # Absent
        /\ cm.content = content \/ SetConfigMap(c, new)
    <3>1. ~PipelineReturnErr /\ ~RebuildNotFound
      BY <1>1, <1>4 DEF RebuildNotFound, PipelineReturnErr, PipelineGoto,
                        PipelineIdle, PipelineWorker
    <3> QED
      BY <3>1 DEF RebuildClusterConfig
  <2>2. pw'.obj = pw.obj /\ pw'.content = content
    BY <1>1, <2>1 DEF PipelineWorker
  <2>3. c \in Clusters /\ cm \in ConfigMap
    BY <1>1, <2>1, Reads DEF PipelineObject, ConfigMapStore
  <2>4. new.content = content
    BY <2>3 DEF ConfigMap
  <2> HIDE DEF new, content
  <2>5. Quiet(cmv', c) => cm.content = content
    <3>1. SetConfigMap(c, new) /\ Quiet(cmv', c) => cm = new
      BY <2>3, WriteQuiet
    <3> QED
      BY <2>1, <2>4, <3>1
  <2> QED
    BY <1>2, <2>1, <2>2, <2>5 DEF StampIsCurrent
<1> QED
  BY <1>3, <1>4

\* The worker comes to Applied by stamping the text of the ConfigMap, and goes
\* on to the status.
LEMMA HashInvController ==
    ASSUME Lag["deployments"] = 0, TypeOK, ProtocolInv, PipelineInv,
           ObservedHasDeployment, HashInv,
           PipelineController \/ PipelineCallFails
    PROVE  HashInv'
<1> SUFFICES ASSUME NEW p \in Pipelines, p \notin pq'
             PROVE  StampIsCurrent(p)' /\ HashThere(p)'
  BY DEF HashInv
<1> DEFINE o == Cached(plv)[p]
<1>1. /\ Cached(plv') = Cached(plv) /\ Cached(clv') = Cached(clv)
      /\ Cached(cmv') = Cached(cmv)
      /\ Quiet(plv', p) => Quiet(plv, p)
      /\ \A c : /\ Quiet(clv', c) => Quiet(clv, c)
                /\ Quiet(cmv', c) => Quiet(cmv, c)
  BY PipelineControllerFrame, QuietGrown DEF StoresGrow, Grown
<1>2. Cached(plv)'[p] = o /\ (Quiet(plv, p)' => Quiet(plv', p))
  BY <1>1 DEF Quiet, Versions, Cached
<1>3. [Next]_vars
  BY DEF Next
<1>4. /\ pw.pc # "idle" => pw \in PipelineWorker /\ pw.obj \in PipelineObject
      /\ \A x \in PipelineObject : x # Absent
  BY ObjectAssumption DEF TypeOK
<1>5. \* a reconcile that has come to an end, or is on another pipeline
      ASSUME p \notin pq, pw'.pc # "stamp",
             Come(p, {"Applied"})' => Come(p, {"Applied"})
      PROVE  StampIsCurrent(p)' /\ HashThere(p)'
  <2>1. StampIsCurrent(p) /\ HashThere(p)
    BY <1>5 DEF HashInv
  <2>2. HashThere(p)'
    BY <1>1, <1>3, <1>5, <2>1, HashThereKept
  <2> QED
    BY <1>5, <2>2 DEF StampIsCurrent
<1>6. ASSUME ~PipelineOn(p), ~PipelineOn(p)'
      PROVE  Come(p, {"Applied"})' => Come(p, {"Applied"})
  BY <1>1, <1>2, <1>6 DEF Come
<1>7. ASSUME NEW q \in Pipelines, PipelineReconcile(q)
      PROVE  StampIsCurrent(p)' /\ HashThere(p)'
  <2>1. /\ pw.pc = "idle" /\ pw'.pc \notin {"stamp", "Applied"}
        /\ pw'.pc = "idle" \/ pw'.name = q
        /\ p # q => p \notin pq
    BY <1>7 DEF PipelineReconcile, PipelineBranch, PipelineIdle
  <2>2. CASE p # q
    BY <1>5, <1>6, <2>1, <2>2 DEF PipelineOn
  <2>3. CASE p = q
    <3>1. o # Absent /\ ~o.deleting => PipelineOn(p)'
      BY <1>7, <2>3 DEF PipelineReconcile, PipelineBranch, PipelineOn
    <3>2. ~Come(p, {"Applied"})'
      BY <1>2, <2>1, <3>1 DEF Come
    <3> QED
      BY <2>1, <3>2 DEF StampIsCurrent, HashThere
  <2> QED
    BY <2>2, <2>3
<1>8. ASSUME PipelineOn(p), p \notin pq
      PROVE  pw.obj = o /\ pw.name = p /\ o \in PipelineObject /\ o # Absent
  BY <1>4, <1>8 DEF PipelineInv, PipelineDone, PipelineAsRead, PipelineOn
<1>9. CASE AddFinalizer \/ RemoveFinalizer
  <2>1. /\ pw.pc \in {"addFinalizer", "removeFinalizer"} /\ pw'.pc = "idle"
        /\ pq' = pq \cup {pw.name} \/ pq' = pq
    BY <1>9 DEF AddFinalizer, RemoveFinalizer, PipelineReturn,
                PipelineReturnErr, PipelineIdle
  <2>2. p \notin pq /\ ~PipelineOn(p)'
    BY <2>1 DEF PipelineOn
  <2>3. CASE PipelineOn(p)
    <3>1. o.phase # "Applied" \/ o.deleting
      BY <1>8, <2>1, <2>2, <2>3 DEF ProtocolInv, WorkerInv
    <3>2. ~Come(p, {"Applied"})'
      BY <1>2, <2>2, <3>1 DEF Come
    <3> QED
      BY <1>5, <2>1, <2>2, <3>2
  <2> QED
    BY <1>5, <1>6, <2>1, <2>2, <2>3
<1>10. CASE RebuildClusterConfig
  <2>1. /\ pw.pc = "rebuild"
        /\ \/ pw'.pc = "idle" /\ pq' = pq \cup {pw.name}
           \/ /\ UNCHANGED pq /\ pw'.pc \in {"removeFinalizer", "stamp"}
              /\ pw'.name = pw.name
    <3>1. pw.pc = "rebuild" /\ pw \in PipelineWorker
      BY <1>4, <1>10 DEF RebuildClusterConfig
    <3>2. PipelineReturnErr => pw'.pc = "idle" /\ pq' = pq \cup {pw.name}
      BY DEF PipelineReturnErr, PipelineIdle
    <3>3. PipelineGoto("removeFinalizer")
            => /\ UNCHANGED pq
               /\ pw'.pc = "removeFinalizer" /\ pw'.name = pw.name
      BY <3>1 DEF PipelineGoto, PipelineWorker
    <3>4. \A x : pw' = [pw EXCEPT !.pc = "stamp", !.content = x]
                   => pw'.pc = "stamp" /\ pw'.name = pw.name
      BY <3>1 DEF PipelineWorker
    <3>5. \/ PipelineReturnErr \/ PipelineGoto("removeFinalizer")
          \/ UNCHANGED pq
               /\ \E x : pw' = [pw EXCEPT !.pc = "stamp", !.content = x]
      BY <1>10 DEF RebuildClusterConfig, RebuildNotFound
    <3> QED
      BY <3>1, <3>2, <3>3, <3>4, <3>5
  <2>2. p \notin pq
    BY <2>1
  <2>3. Come(p, {"Applied"})' => Come(p, {"Applied"})
    <3>1. CASE PipelineOn(p)
      BY <2>1, <2>2, <3>1 DEF PipelineOn, Come
    <3>2. CASE ~PipelineOn(p)
      BY <1>6, <2>1, <3>2 DEF PipelineOn
    <3> QED
      BY <3>1, <3>2
  <2>4. StampIsCurrent(p) /\ HashThere(p)
    BY <2>2 DEF HashInv
  <2>5. HashThere(p)'
    BY <1>1, <1>3, <2>3, <2>4, HashThereKept
  <2> QED
    BY <1>10, <2>5, RebuildIsCurrent
<1>11. CASE StampDeployment
  <2>1. /\ pw.pc = "stamp" /\ Fresh
        /\ \/ pw'.pc = "idle" /\ pq' = pq \cup {pw.name}
           \/ /\ UNCHANGED pq /\ pw'.name = pw.name
              /\ pw'.pc = IF pw.obj.deleting THEN "removeFinalizer"
                          ELSE "Applied"
    BY <1>4, <1>11
       DEF StampDeployment, RebuildNotFound, PipelineGoto,
           PipelineReturnErr, PipelineIdle, PipelineWorker
  <2>2. p \notin pq /\ pw'.pc # "stamp"
    BY <2>1
  <2>3. CASE ~PipelineOn(p)
    <3>1. ~PipelineOn(p)'
      BY <2>1, <2>3 DEF PipelineOn
    <3> QED
      BY <1>5, <1>6, <2>2, <2>3, <3>1
  <2>4. CASE PipelineOn(p)
    <3> DEFINE c   == o.cluster
               cm  == Cached(cmv)[c]
               dep == Cached(dpv)[c]
               new == StampedDeployment(dep, Hash(pw.content))
    <3>1. pw.obj = o /\ pw.name = p /\ o \in PipelineObject /\ o # Absent
      BY <1>8, <2>2, <2>4
    <3>2. Cached(dpv) = Actual(dpv)
      BY <2>1, DeploymentsUpToDate
    <3>3. c \in Clusters
      BY <3>1 DEF PipelineObject
    <3>4. ASSUME Come(p, {"Applied"})', Quiet(cmv', c)
          PROVE  cm # Absent /\ Actual(dpv')[c].hash = Hash(cm.content)
      <4>1. ~o.deleting
        BY <1>2, <3>4 DEF Come
      <4>2. cm # Absent /\ pw.content = cm.content
        <5>1. StampIsCurrent(p) /\ Quiet(cmv, c)
          BY <1>1, <2>2, <3>4 DEF HashInv
        <5> QED
          BY <2>1, <3>1, <5>1 DEF StampIsCurrent
      <4>3. /\ dep # Absent
            /\ \/ dep.hash = Hash(pw.content) /\ UNCHANGED dpv
               \/ SetDeployment(c, new)
        BY <1>11, <2>1, <2>2, <3>1, <4>1
           DEF StampDeployment, RebuildNotFound, PipelineReturnErr
      <4>4. dep \in Deployment /\ pw.content \in Contents
        BY <1>4, <2>1, <3>3, <4>3, Reads DEF DeploymentStore, PipelineWorker
      <4>5. new \in Deployment /\ new.hash = Hash(pw.content)
        BY <4>4 DEF StampedDeployment, Deployment, Hash
      <4>6. SetDeployment(c, new) => Actual(dpv')[c] = new
        <5> HIDE DEF new, c
        <5>1. SetDeployment(c, new)
                => Actual(dpv') = [Actual(dpv) EXCEPT ![c] = new]
          BY <3>3, <4>5, DeploymentWrite DEF TypeOK
        <5> QED
          BY <3>3, <5>1, Reads DEF DeploymentStore
      <4>7. UNCHANGED dpv => Actual(dpv')[c] = dep
        BY <3>2
      <4> HIDE DEF new, c, dep, cm
      <4> QED
        BY <4>2, <4>3, <4>5, <4>6, <4>7
    <3>5. HashThere(p)'
      <4>1. /\ Quiet(cmv, Cached(plv)[p].cluster)' => Quiet(cmv', c)
            /\ Cached(cmv)[Cached(plv)[p].cluster]' = cm
            /\ Actual(dpv)[Cached(plv)[p].cluster]' = Actual(dpv')[c]
        BY <1>1, <1>2 DEF Quiet, Versions, Cached, Actual
      <4> HIDE DEF c, cm
      <4> QED
        BY <3>4, <4>1 DEF HashThere, Stamped
    <3> QED
      BY <2>2, <3>5 DEF StampIsCurrent
  <2> QED
    BY <2>3, <2>4
<1>12. CASE SetStatus
  <2> DEFINE new == [pw.obj EXCEPT !.phase = pw.pc,
                                   !.observed = pw.obj.generation]
  <2>1. /\ pw.pc \in {"Pending", "Applied"} /\ pw'.pc = "idle"
        /\ \/ new = pw.obj /\ UNCHANGED pq
           \/ new # pw.obj /\ SetPipeline(pw.name, new) /\ UNCHANGED pq
           \/ pq' = pq \cup {pw.name}
    BY <1>12 DEF SetStatus, PipelineReturn, PipelineReturnErr, PipelineIdle
  <2> HIDE DEF new
  <2>2. p \notin pq /\ ~PipelineOn(p)'
    BY <2>1 DEF PipelineOn
  <2>3. CASE PipelineOn(p)
    <3>1. pw.obj = o /\ pw.name = p /\ o \in PipelineObject /\ o # Absent
      BY <1>8, <2>2, <2>3
    <3>2. Quiet(plv', p) => new = o
      BY <2>1, <2>2, <3>1, WriteQuiet
    <3>3. new = o => o.phase = pw.pc
      BY <3>1 DEF new, PipelineObject
    <3>4. Come(p, {"Applied"})' => Come(p, {"Applied"})
      BY <1>2, <2>2, <2>3, <3>2, <3>3 DEF Come
    <3> QED
      BY <1>5, <2>1, <2>2, <3>4
  <2> QED
    BY <1>5, <1>6, <2>1, <2>2, <2>3
<1>13. CASE PipelineCallFails
  <2>1. pw.pc # "idle" /\ pw'.pc = "idle" /\ pq' = pq \cup {pw.name}
    BY <1>13 DEF PipelineCallFails, PipelineReturnErr, PipelineIdle
  <2>2. p \notin pq /\ ~PipelineOn(p) /\ ~PipelineOn(p)'
    BY <2>1 DEF PipelineOn
  <2> QED
    BY <1>5, <1>6, <2>1, <2>2
<1> QED
  BY <1>7, <1>9, <1>10, <1>11, <1>12, <1>13 DEF PipelineController

\* A restart makes a request for whatever is there.
LEMMA HashInvRestart ==
    ASSUME TypeOK, Restart
    PROVE  HashInv'
<1> SUFFICES ASSUME NEW p \in Pipelines, p \notin pq'
             PROVE  StampIsCurrent(p)' /\ HashThere(p)'
  BY DEF HashInv
<1>1. Actual(plv)[p] = Absent /\ plv' = Relist(plv) /\ pw'.pc = "idle"
  BY DEF Restart, PipelineIdle
<1>2. Cached(plv)'[p] = Absent
  BY <1>1 DEF Relist, Cached
<1> QED
  BY <1>1, <1>2 DEF StampIsCurrent, HashThere, Come

\* Every step keeps the invariant.
LEMMA HashInvStep ==
    ASSUME Lag["deployments"] = 0
    PROVE  TypeOK /\ ProtocolInv /\ PipelineInv /\ ObservedHasDeployment
             /\ HashInv /\ [Next]_vars
             => HashInv'
<1> SUFFICES ASSUME TypeOK, ProtocolInv, PipelineInv, ObservedHasDeployment,
                    HashInv, [Next]_vars
             PROVE  HashInv'
  OBVIOUS
<1>1. CASE User \/ Kubernetes
  BY <1>1, UserFrame, KubernetesFrame, HashInvFrame
<1>2. CASE ClusterController \/ ClusterCallFails
  BY <1>2, ClusterControllerFrame, HashInvFrame
<1>3. CASE UNCHANGED vars
  BY <1>3, WritesGrow, HashInvFrame DEF StoresGrow, vars, stores
<1>4. CASE Informers
  BY <1>4, HashInvInformers
<1>5. CASE PipelineController \/ PipelineCallFails
  BY <1>5, HashInvController
<1>6. CASE Restart
  BY <1>6, HashInvRestart
<1> QED
  BY <1>1, <1>2, <1>3, <1>4, <1>5, <1>6 DEF Next

\* When nothing is left to do, every pipeline with a cluster is Applied, and the
\* status of the cluster has been written.
LEMMA HashInvSettles ==
    TypeOK /\ HashInv /\ SettledMerged /\ SettledCluster => SettledStamped
<1> SUFFICES ASSUME TypeOK, HashInv, SettledMerged, SettledCluster, Settled,
                    NEW p \in Pipelines, Live(p),
                    Exists(Actual(plv)[p].cluster)
             PROVE  LET c == Actual(plv)[p].cluster IN
                    Actual(dpv)[c].hash = Hash(Actual(cmv)[c].content)
  BY DEF SettledStamped
<1> DEFINE o == Actual(plv)[p]
           c == o.cluster
<1>1. c \in Clusters
  BY Reads DEF Live, PipelineStore, PipelineObject
<1>2. /\ Quiet(plv, p) /\ Actual(plv) = Cached(plv)
      /\ Quiet(clv, c) /\ Actual(clv) = Cached(clv)
      /\ Quiet(cmv, c) /\ Actual(cmv) = Cached(cmv)
  BY QuietFacts DEF Settled, TypeOK
<1>3. p \notin pq /\ ~PipelineOn(p)
  BY DEF Settled, PipelineOn
<1>4. ~o.deleting /\ o.phase = "Applied"
  BY DEF SettledMerged
<1>5. Actual(dpv)[c] # Absent /\ Actual(clv)[c].observed
  BY <1>1 DEF SettledCluster
<1>6. Come(p, {"Applied"})
  BY <1>2, <1>3, <1>4 DEF Come, Live
<1>7. Stamped(c)
  BY <1>2, <1>3, <1>6 DEF HashInv, HashThere
<1> QED
  BY <1>2, <1>5, <1>7 DEF Stamped, Exists

\* Every instance in which the informer of Deployments is up to date, and in all
\* behaviours in which no cluster loses its Deployment to the garbage collector:
\* when nothing is left to do, the pods have been told to restart for the very
\* text that the ConfigMap holds, although the pipeline controller watches no
\* Deployment and two controllers write it.
THEOREM HashIsCurrent ==
    ASSUME Lag["deployments"] = 0
    PROVE  Spec /\ [][DeploymentsStay]_vars => []SettledStamped
<1>1. Spec => []TypeOK /\ []ProtocolInv
  BY ProtocolInit, ProtocolStep, TypeCorrect, PTL DEF Spec
<1>2. Spec => []DeletingHasFinalizer
  BY <1>1, DeletingInit, DeletingStep, PTL DEF Spec
<1>3. Spec => []PipelineInv
  BY <1>1, <1>2, PipelineInvInit, PipelineInvStep, PTL DEF Spec
<1>4. TypeOK /\ ObservedHasDeployment /\ UNCHANGED vars
        => ObservedHasDeployment'
  BY DEF vars, stores, ObservedHasDeployment, Exists, Actual
<1>5. Spec /\ [][DeploymentsStay]_vars => []ObservedHasDeployment
  BY <1>1, <1>4, HashInvInit, ObservedStep, PTL DEF Spec
<1>6. Spec /\ [][DeploymentsStay]_vars => []HashInv
  BY <1>1, <1>3, <1>5, HashInvInit, HashInvStep, PTL DEF Spec
<1> QED
  BY <1>1, <1>6, HashInvSettles, ClusterUpdatesAreNotLost,
     PipelineUpdatesAreNotLost, PTL

=============================================================================
