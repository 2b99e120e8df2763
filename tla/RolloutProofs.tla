--------------------------- MODULE RolloutProofs ----------------------------
(***************************************************************************)
(* The rolling restart, for all values of the constants: which hashes the  *)
(* pod template of a Deployment can carry, and who changes them.           *)
(***************************************************************************)
EXTENDS PipelineOperatorProofs

(***************************************************************************)
(* The inductive invariant.  A worker that is about to stamp has compared  *)
(* its text with a cached ConfigMap or has written it, so every cached     *)
(* text, and the text in the worker's hands, must have been published too. *)
(***************************************************************************)
TextsWerePublished ==
    \A s \in Versions(cmv) : \A c \in Clusters :
      s[c] # Absent => s[c].content \in published[c]

StampIsPublished ==
    pw.pc = "stamp" => pw.content \in published[pw.obj.cluster]

RolloutInv == TextsWerePublished /\ StampIsPublished /\ StampedWasPublished

\* Forgetting versions, and publishing more, keeps what is said of texts ...
LEMMA TextsRead ==
    ASSUME TextsWerePublished, Versions(cmv') \subseteq Versions(cmv),
           \A c \in Clusters : published[c] \subseteq published'[c]
    PROVE  TextsWerePublished'
  BY DEF TextsWerePublished

\* ... and of hashes.
LEMMA StampsRead ==
    ASSUME StampedWasPublished, Versions(dpv') \subseteq Versions(dpv),
           \A c \in Clusters : published[c] \subseteq published'[c]
    PROVE  StampedWasPublished'
  BY DEF StampedWasPublished

\* A write of a ConfigMap publishes its text.
LEMMA TextsWrite ==
    ASSUME TypeOK, TextsWerePublished, NEW c \in Clusters,
           NEW o \in ConfigMap \cup {Absent}, SetConfigMap(c, o)
    PROVE  /\ TextsWerePublished'
           /\ \A d \in Clusters : published[d] \subseteq published'[d]
           /\ o # Absent => o.content \in published'[c]
<1> DEFINE new == [Actual(cmv) EXCEPT ![c] = o]
<1>1. /\ Versions(cmv') \subseteq Versions(cmv) \cup {new}
      /\ \A d \in Clusters : published[d] \subseteq published'[d]
      /\ o # Absent => o.content \in published'[c]
  BY ConfigMapWrite DEF TypeOK
<1>2. Actual(cmv) \in Versions(cmv) /\ Actual(cmv) \in ConfigMapStore
  BY HistoryFacts DEF TypeOK
<1>3. \A d \in Clusters : new[d] = IF d = c THEN o ELSE Actual(cmv)[d]
  BY <1>2 DEF ConfigMapStore
<1>4. \A d \in Clusters : new[d] # Absent => new[d].content \in published'[d]
  BY <1>1, <1>2, <1>3 DEF TextsWerePublished
<1> HIDE DEF new
<1>5. TextsWerePublished'
  BY <1>1, <1>4 DEF TextsWerePublished
<1> QED
  BY <1>1, <1>5

\* A write of a Deployment whose hash stands for a published text.
LEMMA StampsWrite ==
    ASSUME TypeOK, StampedWasPublished, NEW c \in Clusters,
           NEW o \in Deployment \cup {Absent}, SetDeployment(c, o),
           o # Absent => o.hash \subseteq published[c],
           published' = published
    PROVE  StampedWasPublished'
<1> DEFINE new == [Actual(dpv) EXCEPT ![c] = o]
<1>1. Versions(dpv') \subseteq Versions(dpv) \cup {new}
  BY DeploymentWrite DEF TypeOK
<1>2. Actual(dpv) \in Versions(dpv) /\ Actual(dpv) \in DeploymentStore
  BY HistoryFacts DEF TypeOK
<1>3. \A d \in Clusters : new[d] = IF d = c THEN o ELSE Actual(dpv)[d]
  BY <1>2 DEF DeploymentStore
<1>4. \A d \in Clusters : new[d] # Absent => new[d].hash \subseteq published[d]
  BY <1>2, <1>3 DEF StampedWasPublished
<1> HIDE DEF new
<1> QED
  BY <1>1, <1>4 DEF StampedWasPublished

\* A step that touches none of this keeps the invariant.
LEMMA RolloutRead ==
    ASSUME TypeOK, RolloutInv,
           UNCHANGED <<cmv, dpv, published>>,
           UNCHANGED pw \/ pw'.pc # "stamp"
    PROVE  RolloutInv'
  BY DEF RolloutInv, TextsWerePublished, StampIsPublished, StampedWasPublished

\* The invariant holds initially.
LEMMA RolloutInit == Init => RolloutInv
<1> SUFFICES ASSUME Init PROVE RolloutInv
  OBVIOUS
<1>1. /\ Versions(cmv) = {[c \in Clusters |-> Absent]}
      /\ Versions(dpv) = {[c \in Clusters |-> Absent]}
  BY DEF Init, Versions
<1> QED
  BY <1>1 DEF Init, PipelineIdle, RolloutInv, TextsWerePublished,
              StampIsPublished, StampedWasPublished

\* rebuildClusterConfig reaches the stamp only with a text that the ConfigMap
\* has held, be it by its own update.
LEMMA RolloutRebuild ==
    TypeOK /\ RolloutInv /\ RebuildClusterConfig => RolloutInv'
<1> SUFFICES ASSUME TypeOK, RolloutInv, RebuildClusterConfig PROVE RolloutInv'
  OBVIOUS
<1> DEFINE c       == pw.obj.cluster
           exclude == IF pw.obj.deleting THEN pw.name ELSE Absent
           content == Render(Cached(plv), c, exclude)
           cm      == Cached(cmv)[c]
           toStamp == pw' = [pw EXCEPT !.pc = "stamp", !.content = content]
<1>1. /\ c \in Clusters /\ pw \in PipelineWorker /\ pw.obj \in PipelineObject
      /\ UNCHANGED dpv
  BY DEF RebuildClusterConfig, TypeOK, PipelineObject
<1>2. content \in Contents
  BY <1>1, Reads, RenderType
<1>3. Cached(cmv) \in Versions(cmv) /\ Cached(cmv) \in ConfigMapStore
  BY HistoryFacts DEF TypeOK
<1>4. toStamp => /\ pw'.pc = "stamp" /\ pw'.content = content
                 /\ pw'.obj.cluster = c
  BY <1>1 DEF PipelineWorker
<1>5. CASE UNCHANGED <<cmv, published>> /\ pw'.pc # "stamp"
  BY <1>1, <1>5, RolloutRead
<1>6. CASE /\ cm # Absent /\ cm.content = content /\ toStamp
           /\ UNCHANGED <<cmv, published>>
  <2>1. content \in published[c]
    BY <1>1, <1>3, <1>6 DEF RolloutInv, TextsWerePublished
  <2>2. StampIsPublished'
    BY <1>4, <1>6, <2>1 DEF StampIsPublished
  <2> QED
    BY <1>1, <1>6, <2>2 DEF RolloutInv, TextsWerePublished, StampedWasPublished
<1>7. CASE /\ cm # Absent /\ toStamp
           /\ SetConfigMap(c, [cm EXCEPT !.content = content])
  <2> DEFINE new == [cm EXCEPT !.content = content]
  <2>1. cm \in ConfigMap
    BY <1>1, <1>3, <1>7 DEF ConfigMapStore
  <2>2. new \in ConfigMap /\ new.content = content
    BY <1>2, <2>1 DEF ConfigMap
  <2>3. new # Absent
    BY <2>2, ObjectAssumption
  <2>4. SetConfigMap(c, new)
    BY <1>7
  <2> HIDE DEF new
  <2>5. /\ TextsWerePublished'
        /\ \A d \in Clusters : published[d] \subseteq published'[d]
        /\ new.content \in published'[c]
    <3> HIDE DEF c
    <3> QED
      BY <1>1, <2>2, <2>3, <2>4, TextsWrite DEF RolloutInv
  <2>6. StampIsPublished'
    BY <1>4, <1>7, <2>2, <2>5 DEF StampIsPublished
  <2>7. StampedWasPublished'
    BY <1>1, <2>5, StampsRead DEF RolloutInv
  <2> QED
    BY <2>5, <2>6, <2>7 DEF RolloutInv
<1>8. PipelineReturnErr \/ RebuildNotFound => pw'.pc # "stamp"
  BY <1>1 DEF PipelineReturnErr, RebuildNotFound, PipelineGoto, PipelineIdle,
              PipelineWorker
<1> QED
  BY <1>5, <1>6, <1>7, <1>8 DEF RebuildClusterConfig

\* The stamp puts the published text's hash on the Deployment.
LEMMA RolloutStamp ==
    TypeOK /\ RolloutInv /\ StampDeployment => RolloutInv'
<1> SUFFICES ASSUME TypeOK, RolloutInv, StampDeployment PROVE RolloutInv'
  OBVIOUS
<1> DEFINE c   == pw.obj.cluster
           dep == Cached(dpv)[c]
           new == StampedDeployment(dep, Hash(pw.content))
<1>1. /\ c \in Clusters /\ pw \in PipelineWorker /\ pw.obj \in PipelineObject
      /\ pw.content \in published[c] /\ pw.content \in Contents
      /\ UNCHANGED <<cmv, published>>
  BY DEF StampDeployment, TypeOK, PipelineObject, PipelineWorker, RolloutInv,
         StampIsPublished
<1>2. pw'.pc # "stamp"
  BY <1>1 DEF StampDeployment, PipelineReturnErr, RebuildNotFound, PipelineGoto,
              PipelineIdle, PipelineWorker
<1>3. CASE UNCHANGED dpv
  BY <1>1, <1>2, <1>3, RolloutRead
<1>4. CASE dep # Absent /\ SetDeployment(c, new)
  <2>1. dep \in Deployment
    BY <1>1, <1>4, Reads DEF DeploymentStore
  <2>2. new \in Deployment /\ new.hash = {pw.content}
    BY <1>1, <2>1 DEF StampedDeployment, Deployment, Hash
  <2>3. StampedWasPublished'
    <3> HIDE DEF c, new
    <3> QED
      BY <1>1, <1>4, <2>2, StampsWrite DEF RolloutInv
  <2> QED
    BY <1>1, <1>2, <2>3 DEF RolloutInv, TextsWerePublished, StampIsPublished
<1> QED
  BY <1>3, <1>4 DEF StampDeployment

\* The cluster controller creates ConfigMaps with the placeholder, which that
\* publishes, and takes over the hash of the Deployment it has read.
LEMMA RolloutClusterController ==
    TypeOK /\ RolloutInv /\ ClusterController => RolloutInv'
<1> SUFFICES ASSUME TypeOK, RolloutInv, ClusterController PROVE RolloutInv'
  OBVIOUS
<1>1. UNCHANGED pw
  BY DEF ClusterController, ClusterReconcile, ReconcileConfigMap,
         ReconcileDeployment, ReconcileStatus
<1>2. CASE UNCHANGED <<cmv, dpv, published>>
  BY <1>1, <1>2, RolloutRead
<1>3. CASE ReconcileConfigMap /\ ~UNCHANGED <<cmv, published>>
  <2> DEFINE o == [uid |-> cw.obj.uid, content |-> PlaceholderContent]
  <2>1. cw.name \in Clusters /\ cw.obj \in ClusterObject /\ UNCHANGED dpv
    BY <1>3 DEF ReconcileConfigMap, TypeOK
  <2>2. o \in ConfigMap
    BY <2>1 DEF ClusterObject, ConfigMap, PlaceholderContent, Contents
  <2>3. SetConfigMap(cw.name, o)
    BY <1>3 DEF ReconcileConfigMap
  <2> HIDE DEF o
  <2>4. /\ TextsWerePublished'
        /\ \A d \in Clusters : published[d] \subseteq published'[d]
    BY <2>1, <2>2, <2>3, TextsWrite DEF RolloutInv
  <2>5. StampedWasPublished'
    BY <2>1, <2>4, StampsRead DEF RolloutInv
  <2>6. StampIsPublished'
    BY <1>1, <2>4 DEF RolloutInv, StampIsPublished, TypeOK, PipelineObject
  <2> QED
    BY <2>4, <2>5, <2>6 DEF RolloutInv
<1>4. CASE ReconcileDeployment /\ ~UNCHANGED dpv
  <2> DEFINE c   == cw.name
             dep == Cached(dpv)[c]
             new == [uid |-> cw.obj.uid, image |-> cw.obj.image,
                     hash |-> NoHash, rolled |-> FALSE]
             upd == UpdatedDeployment(dep, cw.obj.image)
  <2>1. /\ c \in Clusters /\ cw.obj \in ClusterObject
        /\ UNCHANGED <<cmv, published>>
    BY <1>4 DEF ReconcileDeployment, TypeOK
  <2>2. CASE SetDeployment(c, new)
    <3>1. new \in Deployment /\ new.hash = {}
      BY <2>1 DEF ClusterObject, Deployment, NoHash
    <3>2. StampedWasPublished'
      <4> HIDE DEF new
      <4> QED
        BY <2>1, <2>2, <3>1, StampsWrite DEF RolloutInv
    <3> QED
      BY <1>1, <2>1, <3>2 DEF RolloutInv, TextsWerePublished, StampIsPublished
  <2>3. CASE dep # Absent /\ SetDeployment(c, upd)
    <3>1. Cached(dpv) \in Versions(dpv) /\ Cached(dpv) \in DeploymentStore
      BY HistoryFacts DEF TypeOK
    <3>2. dep \in Deployment /\ dep.hash \subseteq published[c]
      BY <2>1, <2>3, <3>1 DEF DeploymentStore, RolloutInv, StampedWasPublished
    <3>3. upd \in Deployment /\ upd.hash = dep.hash
      BY <2>1, <3>2 DEF UpdatedDeployment, Deployment, ClusterObject
    <3>4. StampedWasPublished'
      <4> HIDE DEF dep, upd
      <4> QED
        BY <2>1, <2>3, <3>2, <3>3, StampsWrite DEF RolloutInv
    <3> QED
      BY <1>1, <2>1, <3>4 DEF RolloutInv, TextsWerePublished, StampIsPublished
  <2> QED
    BY <1>4, <2>2, <2>3 DEF ReconcileDeployment
<1> QED
  BY <1>2, <1>3, <1>4
     DEF ClusterController, ClusterReconcile, ReconcileConfigMap,
         ReconcileDeployment, ReconcileStatus, stores

\* A text written by hand is published as well.
LEMMA RolloutUser == TypeOK /\ RolloutInv /\ User => RolloutInv'
<1> SUFFICES ASSUME TypeOK, RolloutInv, User PROVE RolloutInv'
  OBVIOUS
<1>1. ASSUME NEW c \in Clusters, NEW x \in Drifts, DriftConfigMap(c, x)
      PROVE  RolloutInv'
  <2> DEFINE o == [Actual(cmv)[c] EXCEPT !.content = x]
  <2>1. Actual(cmv)[c] \in ConfigMap /\ x \in Contents
    BY <1>1, Reads, OperatorAssumption DEF DriftConfigMap, ConfigMapStore
  <2>2. o \in ConfigMap
    BY <2>1 DEF ConfigMap
  <2>3. SetConfigMap(c, o) /\ UNCHANGED <<dpv, pw>>
    BY <1>1 DEF DriftConfigMap
  <2> HIDE DEF o
  <2>4. /\ TextsWerePublished'
        /\ \A d \in Clusters : published[d] \subseteq published'[d]
    BY <2>2, <2>3, TextsWrite DEF RolloutInv
  <2>5. StampedWasPublished'
    BY <2>3, <2>4, StampsRead DEF RolloutInv
  <2>6. StampIsPublished'
    BY <2>3, <2>4 DEF RolloutInv, StampIsPublished, TypeOK, PipelineObject
  <2> QED
    BY <2>4, <2>5, <2>6 DEF RolloutInv
<1>2. ASSUME NEW p \in Pipelines, NEW c \in Clusters, NEW k \in Keys,
             NEW d \in Defs,
             CreatePipeline(p, c, k, d) \/ EditPipeline(p, c, k, d)
      PROVE  UNCHANGED <<cmv, dpv, published, pw>>
  <2>1. CASE CreatePipeline(p, c, k, d)
    BY <2>1 DEF CreatePipeline
  <2>2. CASE EditPipeline(p, c, k, d)
    BY <2>2 DEF EditPipeline
  <2> QED
    BY <1>2, <2>1, <2>2
<1>3. \A p \in Pipelines :
        DeletePipeline(p) => UNCHANGED <<cmv, dpv, published, pw>>
  BY DEF DeletePipeline
<1>4. \A c \in Clusters :
        /\ DeleteCluster(c) => UNCHANGED <<cmv, dpv, published, pw>>
        /\ \A i \in Images : CreateCluster(c, i) \/ EditCluster(c, i)
             => UNCHANGED <<cmv, dpv, published, pw>>
  BY DEF CreateCluster, EditCluster, DeleteCluster
<1>5. CASE UNCHANGED <<cmv, dpv, published, pw>>
  BY <1>5, RolloutRead
<1> QED
  BY <1>1, <1>2, <1>3, <1>4, <1>5 DEF User

\* The garbage collector removes, a rollout keeps the hash.
LEMMA RolloutKubernetes == TypeOK /\ RolloutInv /\ Kubernetes => RolloutInv'
<1> SUFFICES ASSUME TypeOK, RolloutInv, Kubernetes PROVE RolloutInv'
  OBVIOUS
<1>1. ASSUME NEW c \in Clusters, CollectConfigMap(c) PROVE RolloutInv'
  <2>1. SetConfigMap(c, Absent) /\ UNCHANGED <<dpv, pw>>
    BY <1>1 DEF CollectConfigMap
  <2>2. /\ TextsWerePublished'
        /\ \A d \in Clusters : published[d] \subseteq published'[d]
    BY <2>1, TextsWrite DEF RolloutInv
  <2>3. StampedWasPublished'
    BY <2>1, <2>2, StampsRead DEF RolloutInv
  <2>4. StampIsPublished'
    BY <2>1, <2>2 DEF RolloutInv, StampIsPublished, TypeOK, PipelineObject
  <2> QED
    BY <2>2, <2>3, <2>4 DEF RolloutInv
<1>2. ASSUME NEW c \in Clusters, CollectDeployment(c) PROVE RolloutInv'
  <2>1. SetDeployment(c, Absent) /\ UNCHANGED <<cmv, published, pw>>
    BY <1>2 DEF CollectDeployment
  <2>2. StampedWasPublished'
    BY <2>1, StampsWrite DEF RolloutInv
  <2> QED
    BY <2>1, <2>2 DEF RolloutInv, TextsWerePublished, StampIsPublished
<1>3. ASSUME NEW c \in Clusters, RolloutComplete(c) PROVE RolloutInv'
  <2> DEFINE dep == Actual(dpv)[c]
             new == [dep EXCEPT !.rolled = TRUE]
  <2>1. SetDeployment(c, new) /\ UNCHANGED <<cmv, published, pw>>
    BY <1>3 DEF RolloutComplete
  <2>2. Actual(dpv) \in Versions(dpv) /\ Actual(dpv) \in DeploymentStore
    BY HistoryFacts DEF TypeOK
  <2>3. dep \in Deployment /\ dep.hash \subseteq published[c]
    BY <1>3, <2>2
       DEF RolloutComplete, DeploymentStore, RolloutInv, StampedWasPublished
  <2>4. new \in Deployment /\ new.hash = dep.hash
    BY <2>3 DEF Deployment
  <2> HIDE DEF dep, new
  <2>5. StampedWasPublished'
    BY <2>1, <2>3, <2>4, StampsWrite DEF RolloutInv
  <2> QED
    BY <2>1, <2>5 DEF RolloutInv, TextsWerePublished, StampIsPublished
<1> QED
  BY <1>1, <1>2, <1>3 DEF Kubernetes

\* Every step keeps the invariant.
LEMMA RolloutStep == TypeOK /\ RolloutInv /\ [Next]_vars => RolloutInv'
<1> SUFFICES ASSUME TypeOK, RolloutInv, [Next]_vars PROVE RolloutInv'
  OBVIOUS
<1>1. CASE Informers
  <2>1. /\ UNCHANGED cmv \/ (~Synced(cmv) /\ cmv' = Deliver(cmv))
        /\ UNCHANGED dpv \/ (~Synced(dpv) /\ dpv' = Deliver(dpv))
        /\ UNCHANGED <<pw, published>>
    BY <1>1 DEF Informers, DeliverPipelines, DeliverConfigMaps,
                DeliverClusters, DeliverDeployments
  <2>2. /\ Versions(cmv') \subseteq Versions(cmv)
        /\ Versions(dpv') \subseteq Versions(dpv)
    BY <2>1, DeliverFacts DEF TypeOK
  <2>3. TextsWerePublished' /\ StampedWasPublished'
    BY <2>1, <2>2, TextsRead, StampsRead DEF RolloutInv
  <2> QED
    BY <2>1, <2>3 DEF RolloutInv, StampIsPublished
<1>2. CASE PipelineController
  <2>1. CASE RebuildClusterConfig
    BY <2>1, RolloutRebuild
  <2>2. CASE StampDeployment
    BY <2>2, RolloutStamp
  <2>3. CASE AddFinalizer \/ RemoveFinalizer \/ SetStatus
    <3>1. UNCHANGED <<cmv, dpv, published>> /\ pw' = PipelineIdle
      BY <2>3 DEF AddFinalizer, RemoveFinalizer, SetStatus, PipelineReturn,
                  PipelineReturnErr
    <3> QED
      BY <3>1, RolloutRead DEF PipelineIdle
  <2>4. ASSUME NEW p \in Pipelines, PipelineReconcile(p) PROVE RolloutInv'
    <3>1. UNCHANGED <<cmv, dpv, published>> /\ pw'.pc # "stamp"
      BY <2>4 DEF PipelineReconcile, PipelineBranch, PipelineIdle, stores
    <3> QED
      BY <3>1, RolloutRead
  <2> QED
    BY <1>2, <2>1, <2>2, <2>3, <2>4 DEF PipelineController
<1>3. CASE ClusterController
  BY <1>3, RolloutClusterController
<1>4. CASE User
  BY <1>4, RolloutUser
<1>5. CASE Kubernetes
  BY <1>5, RolloutKubernetes
<1>6. CASE PipelineCallFails \/ ClusterCallFails \/ UNCHANGED vars
  <2>1. /\ UNCHANGED <<cmv, dpv, published>>
        /\ UNCHANGED pw \/ pw' = PipelineIdle
    BY <1>6 DEF PipelineCallFails, ClusterCallFails, PipelineReturnErr, vars,
                stores
  <2> QED
    BY <2>1, RolloutRead DEF PipelineIdle
<1>7. CASE Restart
  <2>1. /\ Versions(cmv') \subseteq Versions(cmv)
        /\ Versions(dpv') \subseteq Versions(dpv)
    BY <1>7, RelistFacts DEF Restart, TypeOK
  <2>2. UNCHANGED published /\ pw' = PipelineIdle
    BY <1>7 DEF Restart
  <2>3. TextsWerePublished' /\ StampedWasPublished'
    BY <2>1, <2>2, TextsRead, StampsRead DEF RolloutInv
  <2> QED
    BY <2>2, <2>3 DEF RolloutInv, StampIsPublished, PipelineIdle
<1> QED
  BY <1>1, <1>2, <1>3, <1>4, <1>5, <1>6, <1>7 DEF Next

\* No Deployment, in no cache and at no time, carries the hash of a text that
\* the ConfigMap of its cluster has never held: the restart that a new hash
\* causes always comes after the text it stands for.
THEOREM StampsArePublished == Spec => []StampedWasPublished
<1>1. Spec => []RolloutInv
  BY RolloutInit, RolloutStep, TypeCorrect, PTL DEF Spec
<1>2. RolloutInv => StampedWasPublished
  BY DEF RolloutInv
<1> QED
  BY <1>1, <1>2, PTL

-----------------------------------------------------------------------------
(***************************************************************************)
(* Who changes the hash.                                                   *)
(***************************************************************************)
\* A write of a Deployment that keeps the hash of what the API server holds.
LEMMA HashKept ==
    ASSUME TypeOK, NEW c \in Clusters, NEW o \in Deployment \cup {Absent},
           SetDeployment(c, o),
           o # Absent /\ Actual(dpv)[c] # Absent => o.hash = Actual(dpv)[c].hash
    PROVE  \A d \in Clusters :
             Actual(dpv)[d] # Absent /\ Actual(dpv')[d] # Absent
               => Actual(dpv')[d].hash = Actual(dpv)[d].hash
<1>1. Actual(dpv') = [Actual(dpv) EXCEPT ![c] = o]
  BY DeploymentWrite DEF TypeOK
<1>2. Actual(dpv) \in DeploymentStore
  BY Reads
<1> QED
  BY <1>1, <1>2 DEF DeploymentStore

\* The hash of a Deployment that stays changes only in the step in which the
\* pipeline controller stamps the Deployment of the cluster it works on, with the
\* hash of the text that it holds.
LEMMA HashStep ==
    ASSUME TypeOK, [Next]_vars, NEW c \in Clusters,
           Actual(dpv)[c] # Absent, Actual(dpv')[c] # Absent,
           Actual(dpv')[c].hash # Actual(dpv)[c].hash
    PROVE  /\ pw.pc = "stamp" /\ pw.obj.cluster = c
           /\ Actual(dpv')[c].hash = Hash(pw.content)
<1>1. Actual(dpv') # Actual(dpv) /\ ~UNCHANGED dpv
  OBVIOUS
<1>2. CASE StampDeployment
  <2> DEFINE b   == pw.obj.cluster
             new == StampedDeployment(Cached(dpv)[b], Hash(pw.content))
  <2>1. pw.pc = "stamp" /\ b \in Clusters /\ pw.content \in Contents
    BY <1>2 DEF StampDeployment, TypeOK, PipelineObject, PipelineWorker
  <2>2. Cached(dpv)[b] # Absent /\ SetDeployment(b, new)
    BY <1>1, <1>2 DEF StampDeployment
  <2>3. new \in Deployment
    BY <2>1, <2>2, Reads
       DEF DeploymentStore, StampedDeployment, Deployment, Hash
  <2>4. Actual(dpv') = [Actual(dpv) EXCEPT ![b] = new]
    <3> HIDE DEF b, new
    <3> QED
      BY <2>1, <2>2, <2>3, DeploymentWrite DEF TypeOK
  <2>5. b = c
    BY <2>4
  <2>6. new.hash = Hash(pw.content)
    BY <2>1, <2>2, Reads DEF DeploymentStore, StampedDeployment, Deployment
  <2>7. Actual(dpv')[c] = new
    <3> HIDE DEF new
    <3> QED
      BY <2>1, <2>4, <2>5, Reads DEF DeploymentStore
  <2> QED
    BY <2>1, <2>5, <2>6, <2>7
<1>3. CASE ReconcileDeployment
  <2> DEFINE b   == cw.name
             dep == Cached(dpv)[b]
             new == [uid |-> cw.obj.uid, image |-> cw.obj.image,
                     hash |-> NoHash, rolled |-> FALSE]
             upd == UpdatedDeployment(dep, cw.obj.image)
  <2>1. b \in Clusters /\ cw.obj \in ClusterObject
    BY <1>3 DEF ReconcileDeployment, TypeOK
  <2>2. CASE Actual(dpv)[b] = Absent /\ SetDeployment(b, new)
    <3>1. new \in Deployment
      BY <2>1 DEF ClusterObject, Deployment, NoHash, Contents
    <3> HIDE DEF new, b
    <3> QED
      BY <2>1, <2>2, <3>1, HashKept
  <2>3. CASE dep # Absent /\ Actual(dpv)[b] = dep /\ SetDeployment(b, upd)
    <3>1. dep \in Deployment
      BY <2>1, <2>3, Reads DEF DeploymentStore
    <3>2. upd \in Deployment /\ upd.hash = dep.hash
      BY <2>1, <3>1 DEF UpdatedDeployment, Deployment, ClusterObject
    <3> HIDE DEF upd, dep, b
    <3> QED
      BY <2>1, <2>3, <3>2, HashKept
  <2> QED
    BY <1>1, <1>3, <2>2, <2>3 DEF ReconcileDeployment, UpToDate
<1>4. CASE Kubernetes
  <2>1. PICK b \in Clusters :
          CollectConfigMap(b) \/ CollectDeployment(b) \/ RolloutComplete(b)
    BY <1>4 DEF Kubernetes
  <2>2. CASE CollectDeployment(b)
    BY <2>2, HashKept DEF CollectDeployment
  <2>3. CASE RolloutComplete(b)
    <3> DEFINE new == [Actual(dpv)[b] EXCEPT !.rolled = TRUE]
    <3>1. Actual(dpv)[b] \in Deployment
      BY <2>3, Reads DEF RolloutComplete, DeploymentStore
    <3>2. new \in Deployment /\ new.hash = Actual(dpv)[b].hash
      BY <3>1 DEF Deployment
    <3>3. SetDeployment(b, new)
      BY <2>3 DEF RolloutComplete
    <3> HIDE DEF new
    <3> QED
      BY <3>2, <3>3, HashKept
  <2> QED
    BY <1>1, <2>1, <2>2, <2>3 DEF CollectConfigMap
<1>5. CASE Informers
  <2>1. UNCHANGED dpv \/ (~Synced(dpv) /\ dpv' = Deliver(dpv))
    BY <1>5 DEF Informers, DeliverPipelines, DeliverConfigMaps,
                DeliverClusters, DeliverDeployments
  <2> QED
    BY <1>1, <2>1, DeliverFacts DEF TypeOK
<1>6. CASE Restart
  BY <1>1, <1>6, RelistFacts DEF Restart, TypeOK
<1>7. CASE User
  <2>1. ASSUME NEW p \in Pipelines, NEW b \in Clusters, NEW k \in Keys,
               NEW d \in Defs,
               CreatePipeline(p, b, k, d) \/ EditPipeline(p, b, k, d)
        PROVE  UNCHANGED dpv
    <3>1. CASE CreatePipeline(p, b, k, d)
      BY <3>1 DEF CreatePipeline
    <3>2. CASE EditPipeline(p, b, k, d)
      BY <3>2 DEF EditPipeline
    <3> QED
      BY <2>1, <3>1, <3>2
  <2>2. \A p \in Pipelines : DeletePipeline(p) => UNCHANGED dpv
    BY DEF DeletePipeline
  <2> QED
    BY <1>1, <1>7, <2>1, <2>2
       DEF User, CreateCluster, EditCluster, DeleteCluster, DriftConfigMap
<1>8. CASE \/ PipelineCallFails \/ ClusterCallFails \/ UNCHANGED vars
           \/ \E p \in Pipelines : PipelineReconcile(p)
           \/ AddFinalizer \/ RebuildClusterConfig \/ RemoveFinalizer
           \/ SetStatus \/ (\E b \in Clusters : ClusterReconcile(b))
           \/ ReconcileConfigMap \/ ReconcileStatus
  BY <1>1, <1>8
     DEF PipelineCallFails, ClusterCallFails, vars, stores, PipelineReconcile,
         AddFinalizer, RebuildClusterConfig, RemoveFinalizer, SetStatus,
         ClusterReconcile, ReconcileConfigMap, ReconcileStatus
<1> QED
  BY <1>2, <1>3, <1>4, <1>5, <1>6, <1>7, <1>8
     DEF Next, PipelineController, ClusterController

\* The cluster controller, the Deployment controller and restarts of the
\* operator never change the hash annotation of a Deployment that stays.
THEOREM HashIsOwned == Spec => HashOwnedByPipelines
<1>1. TypeOK /\ [Next]_vars =>
        [\A c \in Clusters :
           LET old == Actual(dpv)[c]
               new == Actual(dpv')[c]
           IN  old # Absent /\ new # Absent /\ new.hash # old.hash
                 => pw.pc = "stamp" /\ pw.obj.cluster = c]_vars
  BY HashStep
<1> QED
  BY <1>1, TypeCorrect, PTL DEF Spec, HashOwnedByPipelines

=============================================================================
