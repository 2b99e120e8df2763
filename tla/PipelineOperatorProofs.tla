----------------------- MODULE PipelineOperatorProofs -----------------------
(***************************************************************************)
(* Proofs about PipelineOperator, for any sets of pipelines, clusters,     *)
(* keys and definitions, any lag of the informers and any number of edits, *)
(* faults and restarts.                                                    *)
(***************************************************************************)
EXTENDS PipelineOperator, InformerProofs, FiniteSetTheorems

-----------------------------------------------------------------------------
(***************************************************************************)
(* Reads and writes of the four kinds.                                     *)
(***************************************************************************)
\* What the caches and the API server return are stores of the kind.
LEMMA Reads ==
    ASSUME TypeOK
    PROVE  /\ Cached(plv) \in PipelineStore /\ Actual(plv) \in PipelineStore
           /\ Cached(clv) \in ClusterStore /\ Actual(clv) \in ClusterStore
           /\ Cached(cmv) \in ConfigMapStore /\ Actual(cmv) \in ConfigMapStore
           /\ Cached(dpv) \in DeploymentStore /\ Actual(dpv) \in DeploymentStore
  BY HistoryFacts DEF TypeOK

\* A write of one object leaves the others alone.
LEMMA PipelineWrite ==
    ASSUME plv \in History(PipelineStore), NEW p \in Pipelines,
           NEW o \in PipelineObject \cup {Absent}, SetPipeline(p, o)
    PROVE  LET new == [Actual(plv) EXCEPT ![p] = o] IN
           /\ plv' \in History(PipelineStore)
           /\ Actual(plv') = new
           /\ Versions(plv') \subseteq Versions(plv) \cup {new}
<1>1. Actual(plv) \in PipelineStore
  BY HistoryFacts
<1> DEFINE new == [Actual(plv) EXCEPT ![p] = o]
<1>2. new \in PipelineStore
  BY <1>1 DEF PipelineStore
<1>3. plv' = Commit(plv, new)
  BY DEF SetPipeline
<1> HIDE DEF new
<1>4. /\ Commit(plv, new) \in History(PipelineStore)
      /\ Actual(Commit(plv, new)) = new
      /\ Versions(Commit(plv, new)) \subseteq Versions(plv) \cup {new}
  BY <1>2, CommitFacts
<1> QED
  BY <1>3, <1>4 DEF new

\* A write of a cluster keeps the history of clusters a history.
LEMMA ClusterWrite ==
    ASSUME clv \in History(ClusterStore), NEW c \in Clusters,
           NEW o \in ClusterObject \cup {Absent}, SetCluster(c, o)
    PROVE  clv' \in History(ClusterStore)
<1>1. Actual(clv) \in ClusterStore
  BY HistoryFacts
<1>2. [Actual(clv) EXCEPT ![c] = o] \in ClusterStore
  BY <1>1 DEF ClusterStore
<1> QED
  BY <1>2, CommitFacts DEF SetCluster

\* A write of a Deployment adds one version and leaves the others alone.
LEMMA DeploymentWrite ==
    ASSUME dpv \in History(DeploymentStore), NEW c \in Clusters,
           NEW o \in Deployment \cup {Absent}, SetDeployment(c, o)
    PROVE  LET new == [Actual(dpv) EXCEPT ![c] = o] IN
           /\ dpv' \in History(DeploymentStore)
           /\ Actual(dpv') = new
           /\ Versions(dpv') \subseteq Versions(dpv) \cup {new}
<1>1. Actual(dpv) \in DeploymentStore
  BY HistoryFacts
<1> DEFINE new == [Actual(dpv) EXCEPT ![c] = o]
<1>2. new \in DeploymentStore
  BY <1>1 DEF DeploymentStore
<1>3. dpv' = Commit(dpv, new)
  BY DEF SetDeployment
<1> HIDE DEF new
<1>4. /\ Commit(dpv, new) \in History(DeploymentStore)
      /\ Actual(Commit(dpv, new)) = new
      /\ Versions(Commit(dpv, new)) \subseteq Versions(dpv) \cup {new}
  BY <1>2, CommitFacts
<1> QED
  BY <1>3, <1>4 DEF new

\* A write of a ConfigMap adds one version and records the text as published.
LEMMA ConfigMapWrite ==
    ASSUME cmv \in History(ConfigMapStore), NEW c \in Clusters,
           NEW o \in ConfigMap \cup {Absent}, SetConfigMap(c, o),
           published \in [Clusters -> SUBSET Contents]
    PROVE  LET new == [Actual(cmv) EXCEPT ![c] = o] IN
           /\ cmv' \in History(ConfigMapStore)
           /\ Actual(cmv') = new
           /\ Versions(cmv') \subseteq Versions(cmv) \cup {new}
           /\ published' \in [Clusters -> SUBSET Contents]
           /\ \A d \in Clusters : published[d] \subseteq published'[d]
           /\ o # Absent => o.content \in published'[c]
<1>1. Actual(cmv) \in ConfigMapStore
  BY HistoryFacts
<1> DEFINE new == [Actual(cmv) EXCEPT ![c] = o]
<1>2. new \in ConfigMapStore
  BY <1>1 DEF ConfigMapStore
<1>3. cmv' = Commit(cmv, new)
  BY DEF SetConfigMap
<1> HIDE DEF new
<1>4. /\ Commit(cmv, new) \in History(ConfigMapStore)
      /\ Actual(Commit(cmv, new)) = new
      /\ Versions(Commit(cmv, new)) \subseteq Versions(cmv) \cup {new}
  BY <1>2, CommitFacts
<1>5. o # Absent => o.content \in Contents
  BY DEF ConfigMap
<1>6. /\ published' \in [Clusters -> SUBSET Contents]
      /\ \A d \in Clusters : published[d] \subseteq published'[d]
      /\ o # Absent => o.content \in published'[c]
  BY <1>5 DEF SetConfigMap
<1> QED
  BY <1>3, <1>4, <1>6 DEF new

-----------------------------------------------------------------------------
(***************************************************************************)
(* Operators.                                                              *)
(***************************************************************************)
\* What rebuildClusterConfig renders is a text.
LEMMA RenderType ==
    ASSUME NEW listed \in PipelineStore, NEW c, NEW exclude
    PROVE  Render(listed, c, exclude) \in Contents
<1>1. ASSUME NEW p \in Targets(listed, c, exclude)
      PROVE  EntryOf(listed[p]) \in Entries
  <2>1. p \in Pipelines /\ listed[p] # Absent
    BY DEF Targets
  <2>2. listed[p] \in PipelineObject
    BY <2>1 DEF PipelineStore
  <2> QED
    BY <2>2 DEF PipelineObject, EntryOf, Entries
<1> QED
  BY <1>1 DEF Render, Contents

\* The number of pipelines in a cluster status is a natural number.
LEMMA TargetsCount ==
    ASSUME NEW listed, NEW c, NEW exclude
    PROVE  Cardinality(Targets(listed, c, exclude)) \in Nat
<1>1. IsFiniteSet(Targets(listed, c, exclude))
  BY DefinitionAssumption, FS_Subset DEF Targets
<1> QED
  BY <1>1, FS_CardinalityType

-----------------------------------------------------------------------------
(***************************************************************************)
(* Type correctness, one lemma per part of Next.                           *)
(***************************************************************************)
\* The initial state is well typed.
LEMMA TypeInit == Init => TypeOK
<1> SUFFICES ASSUME Init PROVE TypeOK
  OBVIOUS
<1>1. \A S : \A s \in S : <<s>> \in History(S)
  BY DEF History
<1>2. plv \in History(PipelineStore)
  BY <1>1 DEF Init, PipelineStore
<1>3. clv \in History(ClusterStore)
  BY <1>1 DEF Init, ClusterStore
<1>4. cmv \in History(ConfigMapStore)
  BY <1>1 DEF Init, ConfigMapStore
<1>5. dpv \in History(DeploymentStore)
  BY <1>1 DEF Init, DeploymentStore
<1>6. /\ pw \in PipelineWorker /\ cw \in ClusterWorker
      /\ pw.pc = "idle" /\ cw.pc = "idle"
  BY DEF Init, PipelineIdle, ClusterIdle, PipelineWorker, ClusterWorker,
         PlaceholderContent, Contents
<1>7. published \in [Clusters -> SUBSET Contents]
  BY DEF Init
<1>8. pq \subseteq Pipelines /\ cq \subseteq Clusters
  BY DEF Init
<1>9. edits \in Nat /\ uids \in Nat /\ faults \in Nat
  BY OperatorAssumption DEF Init
<1> QED
  BY <1>2, <1>3, <1>4, <1>5, <1>6, <1>7, <1>8, <1>9 DEF TypeOK

\* Watch events keep the state well typed.
LEMMA TypeInformers == TypeOK /\ Informers => TypeOK'
<1> SUFFICES ASSUME TypeOK, Informers PROVE TypeOK'
  OBVIOUS
<1>1. /\ Cached(plv) \in PipelineStore /\ Cached(clv) \in ClusterStore
      /\ Cached(cmv) \in ConfigMapStore /\ Cached(dpv) \in DeploymentStore
  BY Reads
<1>2. /\ Changed(plv) \subseteq Pipelines /\ Changed(clv) \subseteq Clusters
      /\ Changed(cmv) \subseteq Clusters /\ Changed(dpv) \subseteq Clusters
  BY <1>1 DEF Changed, PipelineStore, ClusterStore, ConfigMapStore,
              DeploymentStore
<1>3. CASE DeliverPipelines
  BY <1>2, <1>3, DeliverFacts DEF TypeOK, DeliverPipelines, bounds
<1>4. CASE DeliverConfigMaps
  BY <1>2, <1>4, DeliverFacts
     DEF TypeOK, DeliverConfigMaps, bounds, FindPipelinesForConfigMap
<1>5. CASE DeliverClusters
  BY <1>2, <1>5, DeliverFacts
     DEF TypeOK, DeliverClusters, bounds, FindPipelinesForCluster
<1>6. CASE DeliverDeployments
  BY <1>2, <1>6, DeliverFacts DEF TypeOK, DeliverDeployments, bounds
<1> QED
  BY <1>3, <1>4, <1>5, <1>6 DEF Informers

\* The ways a reconcile ends or goes on keep the worker and the queue well
\* typed.
LEMMA PipelineControl ==
    ASSUME TypeOK, pw.pc # "idle",
           \/ PipelineReturn
           \/ PipelineReturnErr
           \/ \E pc \in {"removeFinalizer", "Applied"} : PipelineGoto(pc)
    PROVE  /\ pq' \subseteq Pipelines
           /\ pw' \in PipelineWorker
           /\ pw'.pc # "idle" => pw'.name \in Pipelines
                                /\ pw'.obj \in PipelineObject
  BY DEF TypeOK, PipelineReturn, PipelineReturnErr, PipelineGoto, PipelineIdle,
         PipelineWorker, PlaceholderContent, Contents

\* The same for the worker of the cluster controller.
LEMMA ClusterControl ==
    ASSUME TypeOK, cw.pc # "idle",
           \/ ClusterReturn
           \/ ClusterReturnErr
           \/ \E pc \in {"deployment", "status"} : ClusterGoto(pc)
    PROVE  /\ cq' \subseteq Clusters
           /\ cw' \in ClusterWorker
           /\ cw'.pc # "idle" => cw'.name \in Clusters
                                /\ cw'.obj \in ClusterObject
  BY DEF TypeOK, ClusterReturn, ClusterReturnErr, ClusterGoto, ClusterIdle,
         ClusterWorker

\* Every call of the pipeline controller keeps the state well typed.
LEMMA TypePipelineController == TypeOK /\ PipelineController => TypeOK'
<1> SUFFICES ASSUME TypeOK, PipelineController PROVE TypeOK'
  OBVIOUS
<1>1. ASSUME NEW p \in Pipelines, PipelineReconcile(p) PROVE TypeOK'
  <2>1. Cached(plv)[p] \in PipelineObject \cup {Absent}
    BY Reads DEF PipelineStore
  <2>2. /\ pq' \subseteq Pipelines
        /\ pw' \in PipelineWorker
        /\ pw'.pc # "idle" => pw'.name \in Pipelines
                             /\ pw'.obj \in PipelineObject
    BY <1>1, <2>1
       DEF PipelineReconcile, PipelineBranch, TypeOK, PipelineIdle,
           PipelineWorker, PlaceholderContent, Contents
  <2> QED
    BY <1>1, <2>2 DEF PipelineReconcile, TypeOK, stores, bounds
<1>2. CASE AddFinalizer
  <2>1. pw.name \in Pipelines /\ pw.obj \in PipelineObject /\ pw.pc # "idle"
    BY <1>2 DEF AddFinalizer, TypeOK
  <2>2. [pw.obj EXCEPT !.finalizer = TRUE] \in PipelineObject
    BY <2>1 DEF PipelineObject
  <2>3. plv' \in History(PipelineStore)
    BY <1>2, <2>1, <2>2, PipelineWrite DEF AddFinalizer, TypeOK
  <2>4. PipelineReturn \/ PipelineReturnErr
    BY <1>2 DEF AddFinalizer
  <2> QED
    BY <1>2, <2>1, <2>3, <2>4, PipelineControl DEF AddFinalizer, TypeOK, bounds
<1>3. CASE RebuildClusterConfig
  <2> DEFINE c       == pw.obj.cluster
             exclude == IF pw.obj.deleting THEN pw.name ELSE Absent
             content == Render(Cached(plv), c, exclude)
  <2>1. /\ pw.name \in Pipelines /\ pw.obj \in PipelineObject
        /\ pw.pc # "idle" /\ c \in Clusters
    BY <1>3 DEF RebuildClusterConfig, TypeOK, PipelineObject
  <2>2. content \in Contents
    BY Reads, RenderType
  <2>3. Cached(cmv)[c] \in ConfigMap \cup {Absent}
    BY <2>1, Reads DEF ConfigMapStore
  <2>4. /\ cmv' \in History(ConfigMapStore)
        /\ published' \in [Clusters -> SUBSET Contents]
    <3>1. CASE UNCHANGED <<cmv, published>>
      BY <3>1 DEF TypeOK
    <3>2. CASE /\ Cached(cmv)[c] # Absent
               /\ SetConfigMap(c, [Cached(cmv)[c] EXCEPT !.content = content])
      <4>1. [Cached(cmv)[c] EXCEPT !.content = content] \in ConfigMap
        BY <2>2, <2>3, <3>2 DEF ConfigMap
      <4> QED
        BY <2>1, <3>2, <4>1, ConfigMapWrite DEF TypeOK
    <3> QED
      BY <1>3, <3>1, <3>2 DEF RebuildClusterConfig
  <2>5. \/ PipelineReturnErr
        \/ PipelineGoto("removeFinalizer")
        \/ pw' = [pw EXCEPT !.pc = "stamp", !.content = content]
             /\ UNCHANGED pq
    BY <1>3 DEF RebuildClusterConfig, RebuildNotFound
  <2>6. /\ pq' \subseteq Pipelines
        /\ pw' \in PipelineWorker
        /\ pw'.pc # "idle" => pw'.name \in Pipelines
                             /\ pw'.obj \in PipelineObject
    <3>1. CASE PipelineReturnErr \/ PipelineGoto("removeFinalizer")
      BY <2>1, <3>1, PipelineControl
    <3>2. CASE pw' = [pw EXCEPT !.pc = "stamp", !.content = content]
                 /\ UNCHANGED pq
      BY <2>1, <2>2, <3>2 DEF TypeOK, PipelineWorker
    <3> QED
      BY <2>5, <3>1, <3>2
  <2> QED
    BY <1>3, <2>4, <2>6 DEF RebuildClusterConfig, TypeOK, bounds
<1>4. CASE StampDeployment
  <2> DEFINE c == pw.obj.cluster
  <2>1. /\ pw.name \in Pipelines /\ pw.obj \in PipelineObject
        /\ pw.pc # "idle" /\ c \in Clusters /\ pw.content \in Contents
    BY <1>4 DEF StampDeployment, TypeOK, PipelineObject, PipelineWorker
  <2>2. Cached(dpv)[c] \in Deployment \cup {Absent}
    BY <2>1, Reads DEF DeploymentStore
  <2>3. dpv' \in History(DeploymentStore)
    <3>1. CASE UNCHANGED dpv
      BY <3>1 DEF TypeOK
    <3>2. CASE /\ Cached(dpv)[c] # Absent
               /\ SetDeployment(c, StampedDeployment(Cached(dpv)[c],
                                                     Hash(pw.content)))
      <4>1. StampedDeployment(Cached(dpv)[c], Hash(pw.content)) \in Deployment
        BY <2>1, <2>2, <3>2 DEF StampedDeployment, Hash, Deployment
      <4> QED
        BY <2>1, <3>2, <4>1, DeploymentWrite DEF TypeOK
    <3> QED
      BY <1>4, <3>1, <3>2 DEF StampDeployment
  <2>4. \/ PipelineReturnErr
        \/ PipelineGoto("removeFinalizer") \/ PipelineGoto("Applied")
    BY <1>4 DEF StampDeployment, RebuildNotFound
  <2> QED
    BY <1>4, <2>1, <2>3, <2>4, PipelineControl
       DEF StampDeployment, TypeOK, bounds
<1>5. CASE RemoveFinalizer
  <2>1. pw.name \in Pipelines /\ pw.pc # "idle"
    BY <1>5 DEF RemoveFinalizer, TypeOK
  <2>2. plv' \in History(PipelineStore)
    BY <1>5, <2>1, PipelineWrite DEF RemoveFinalizer, TypeOK
  <2>3. PipelineReturn \/ PipelineReturnErr
    BY <1>5 DEF RemoveFinalizer
  <2> QED
    BY <1>5, <2>1, <2>2, <2>3, PipelineControl
       DEF RemoveFinalizer, TypeOK, bounds
<1>6. CASE SetStatus
  <2> DEFINE o == [pw.obj EXCEPT !.phase = pw.pc,
                                 !.observed = pw.obj.generation]
  <2>1. pw.name \in Pipelines /\ pw.obj \in PipelineObject /\ pw.pc # "idle"
    BY <1>6 DEF SetStatus, TypeOK
  <2>2. o \in PipelineObject
    BY <1>6, <2>1 DEF SetStatus, PipelineObject
  <2>3. plv' \in History(PipelineStore)
    BY <1>6, <2>1, <2>2, PipelineWrite DEF SetStatus, TypeOK
  <2>4. PipelineReturn \/ PipelineReturnErr
    BY <1>6 DEF SetStatus
  <2> QED
    BY <1>6, <2>1, <2>3, <2>4, PipelineControl DEF SetStatus, TypeOK, bounds
<1> QED
  BY <1>1, <1>2, <1>3, <1>4, <1>5, <1>6 DEF PipelineController

\* Every call of the cluster controller keeps the state well typed.
LEMMA TypeClusterController == TypeOK /\ ClusterController => TypeOK'
<1> SUFFICES ASSUME TypeOK, ClusterController PROVE TypeOK'
  OBVIOUS
<1>1. ASSUME NEW c \in Clusters, ClusterReconcile(c) PROVE TypeOK'
  <2>1. Cached(clv)[c] \in ClusterObject \cup {Absent}
    BY Reads DEF ClusterStore
  <2> QED
    BY <1>1, <2>1
       DEF ClusterReconcile, TypeOK, ClusterIdle, ClusterWorker, stores, bounds
<1>2. CASE ReconcileConfigMap
  <2>1. cw.name \in Clusters /\ cw.obj \in ClusterObject /\ cw.pc # "idle"
    BY <1>2 DEF ReconcileConfigMap, TypeOK
  <2>2. [uid |-> cw.obj.uid, content |-> PlaceholderContent] \in ConfigMap
    BY <2>1 DEF ClusterObject, ConfigMap, PlaceholderContent, Contents
  <2>3. /\ cmv' \in History(ConfigMapStore)
        /\ published' \in [Clusters -> SUBSET Contents]
    BY <1>2, <2>1, <2>2, ConfigMapWrite DEF ReconcileConfigMap, TypeOK
  <2>4. ClusterReturnErr \/ ClusterGoto("deployment")
    BY <1>2 DEF ReconcileConfigMap
  <2> QED
    BY <1>2, <2>1, <2>3, <2>4, ClusterControl
       DEF ReconcileConfigMap, TypeOK, bounds
<1>3. CASE ReconcileDeployment
  <2> DEFINE c == cw.name
  <2>1. c \in Clusters /\ cw.obj \in ClusterObject /\ cw.pc # "idle"
    BY <1>3 DEF ReconcileDeployment, TypeOK
  <2>2. Cached(dpv)[c] \in Deployment \cup {Absent}
    BY <2>1, Reads DEF DeploymentStore
  <2>3. [uid |-> cw.obj.uid, image |-> cw.obj.image, hash |-> NoHash,
         rolled |-> FALSE] \in Deployment
    BY <2>1 DEF ClusterObject, Deployment, NoHash
  <2>4. Cached(dpv)[c] # Absent
          => UpdatedDeployment(Cached(dpv)[c], cw.obj.image) \in Deployment
    BY <2>1, <2>2 DEF ClusterObject, Deployment, UpdatedDeployment
  <2>5. dpv' \in History(DeploymentStore)
    BY <1>3, <2>1, <2>3, <2>4, DeploymentWrite DEF ReconcileDeployment, TypeOK
  <2>6. ClusterReturnErr \/ ClusterGoto("status")
    BY <1>3 DEF ReconcileDeployment
  <2> QED
    BY <1>3, <2>1, <2>5, <2>6, ClusterControl
       DEF ReconcileDeployment, TypeOK, bounds
<1>4. CASE ReconcileStatus
  <2> DEFINE c   == cw.name
             st  == [progressing |-> ~Cached(dpv)[c].rolled,
                     pipelines |-> Cardinality(Targets(Cached(plv), c, Absent))]
             new == [cw.obj EXCEPT !.status = {st}, !.observed = TRUE]
  <2>1. c \in Clusters /\ cw.obj \in ClusterObject /\ cw.pc # "idle"
    BY <1>4 DEF ReconcileStatus, TypeOK
  <2>2. st \in ClusterStatus
    BY TargetsCount DEF ClusterStatus
  <2>3. new \in ClusterObject
    BY <2>1, <2>2 DEF ClusterObject
  <2>4. clv' \in History(ClusterStore)
    BY <1>4, <2>1, <2>3, ClusterWrite DEF ReconcileStatus, TypeOK
  <2>5. ClusterReturn \/ ClusterReturnErr
    BY <1>4 DEF ReconcileStatus
  <2> QED
    BY <1>4, <2>1, <2>4, <2>5, ClusterControl
       DEF ReconcileStatus, TypeOK, bounds
<1> QED
  BY <1>1, <1>2, <1>3, <1>4 DEF ClusterController

\* Failed calls and restarts keep the state well typed.
LEMMA TypeFaults ==
    TypeOK /\ (PipelineCallFails \/ ClusterCallFails \/ Restart) => TypeOK'
<1> SUFFICES ASSUME TypeOK, PipelineCallFails \/ ClusterCallFails \/ Restart
             PROVE  TypeOK'
  OBVIOUS
<1>1. edits' \in Nat /\ uids' \in Nat /\ faults' \in Nat
  BY DEF PipelineCallFails, ClusterCallFails, Restart, Faulty, TypeOK
<1>2. CASE PipelineCallFails
  BY <1>1, <1>2, PipelineControl DEF PipelineCallFails, TypeOK, stores
<1>3. CASE ClusterCallFails
  BY <1>1, <1>3, ClusterControl DEF ClusterCallFails, TypeOK, stores
<1>4. CASE Restart
  <2>1. /\ plv' \in History(PipelineStore) /\ clv' \in History(ClusterStore)
        /\ cmv' \in History(ConfigMapStore) /\ dpv' \in History(DeploymentStore)
    BY <1>4, RelistFacts DEF Restart, TypeOK
  <2>2. /\ pw' \in PipelineWorker /\ cw' \in ClusterWorker
        /\ pw'.pc = "idle" /\ cw'.pc = "idle"
    BY <1>4 DEF Restart, PipelineIdle, ClusterIdle, PipelineWorker,
                ClusterWorker, PlaceholderContent, Contents
  <2>3. pq' \subseteq Pipelines /\ cq' \subseteq Clusters
    BY <1>4 DEF Restart
  <2> QED
    BY <1>1, <1>4, <2>1, <2>2, <2>3 DEF Restart, TypeOK
<1> QED
  BY <1>2, <1>3, <1>4

\* Users keep the state well typed.
LEMMA TypeUser == TypeOK /\ User => TypeOK'
<1> SUFFICES ASSUME TypeOK, User PROVE TypeOK'
  OBVIOUS
<1>1. ASSUME NEW p \in Pipelines, NEW c \in Clusters, NEW k \in Keys,
             NEW d \in Defs, CreatePipeline(p, c, k, d)
      PROVE  TypeOK'
  <2>1. [cluster |-> c, key |-> k, def |-> d, generation |-> 1,
         deleting |-> FALSE, finalizer |-> FALSE, phase |-> "",
         observed |-> 0] \in PipelineObject
    BY DEF PipelineObject
  <2>2. plv' \in History(PipelineStore)
    BY <1>1, <2>1, PipelineWrite DEF CreatePipeline, TypeOK
  <2>3. edits' \in Nat /\ faults' \in Nat
    <3>1. Edits
      BY <1>1 DEF CreatePipeline
    <3> QED
      BY <3>1 DEF Edits, TypeOK
  <2>4. UNCHANGED <<clv, cmv, dpv, pq, cq, pw, cw, published, uids>>
    BY <1>1 DEF CreatePipeline
  <2> QED
    BY <2>2, <2>3, <2>4 DEF TypeOK
<1>2. ASSUME NEW p \in Pipelines, NEW c \in Clusters, NEW k \in Keys,
             NEW d \in Defs, EditPipeline(p, c, k, d)
      PROVE  TypeOK'
  <2> DEFINE old == Actual(plv)[p]
             o   == [old EXCEPT !.cluster = c, !.key = k, !.def = d,
                                !.generation = @ + 1]
  <2>1. old \in PipelineObject
    BY <1>2, Reads DEF EditPipeline, PipelineStore
  <2>2. o \in PipelineObject
    <3> HIDE DEF old
    <3>1. old.generation + 1 \in Nat
      <4>1. old.generation \in Nat
        BY <2>1 DEF PipelineObject
      <4> QED
        BY <4>1
    <3> QED
      BY <2>1, <3>1 DEF PipelineObject
  <2>3. plv' \in History(PipelineStore)
    BY <1>2, <2>2, PipelineWrite DEF EditPipeline, TypeOK
  <2> QED
    BY <1>2, <2>3 DEF EditPipeline, Edits, TypeOK
<1>3. ASSUME NEW p \in Pipelines, DeletePipeline(p) PROVE TypeOK'
  <2> DEFINE old == Actual(plv)[p]
             o   == [old EXCEPT !.deleting = TRUE, !.generation = @ + 1]
  <2>1. old \in PipelineObject
    BY <1>3, Reads DEF DeletePipeline, PipelineStore
  <2>2. o \in PipelineObject
    <3> HIDE DEF old
    <3>1. old.generation + 1 \in Nat
      <4>1. old.generation \in Nat
        BY <2>1 DEF PipelineObject
      <4> QED
        BY <4>1
    <3> QED
      BY <2>1, <3>1 DEF PipelineObject
  <2>3. SetPipeline(p, o) \/ SetPipeline(p, Absent)
    BY <1>3 DEF DeletePipeline
  <2>4. plv' \in History(PipelineStore)
    BY <2>2, <2>3, PipelineWrite DEF TypeOK
  <2> QED
    BY <1>3, <2>4 DEF DeletePipeline, Edits, TypeOK
<1>4. ASSUME NEW c \in Clusters, NEW i \in Images, CreateCluster(c, i)
      PROVE  TypeOK'
  <2>1. [uid |-> uids', image |-> i, status |-> {}, observed |-> FALSE]
          \in ClusterObject
    BY <1>4 DEF CreateCluster, ClusterObject, TypeOK
  <2>2. clv' \in History(ClusterStore)
    BY <1>4, <2>1, ClusterWrite DEF CreateCluster, TypeOK
  <2> QED
    BY <1>4, <2>2 DEF CreateCluster, Edits, TypeOK
<1>5. ASSUME NEW c \in Clusters, NEW i \in Images, EditCluster(c, i)
      PROVE  TypeOK'
  <2>1. Actual(clv)[c] \in ClusterObject
    BY <1>5, Reads DEF EditCluster, ClusterStore
  <2>2. [Actual(clv)[c] EXCEPT !.image = i, !.observed = FALSE] \in ClusterObject
    BY <2>1 DEF ClusterObject
  <2>3. clv' \in History(ClusterStore)
    BY <1>5, <2>2, ClusterWrite DEF EditCluster, TypeOK
  <2> QED
    BY <1>5, <2>3 DEF EditCluster, Edits, TypeOK
<1>6. ASSUME NEW c \in Clusters, DeleteCluster(c) PROVE TypeOK'
  <2>1. clv' \in History(ClusterStore)
    BY <1>6, ClusterWrite DEF DeleteCluster, TypeOK
  <2> QED
    BY <1>6, <2>1 DEF DeleteCluster, Edits, TypeOK
<1>7. ASSUME NEW c \in Clusters, NEW x \in Drifts, DriftConfigMap(c, x)
      PROVE  TypeOK'
  <2>1. Actual(cmv)[c] \in ConfigMap
    BY <1>7, Reads DEF DriftConfigMap, ConfigMapStore
  <2>2. [Actual(cmv)[c] EXCEPT !.content = x] \in ConfigMap
    BY <2>1, OperatorAssumption DEF ConfigMap
  <2>3. /\ cmv' \in History(ConfigMapStore)
        /\ published' \in [Clusters -> SUBSET Contents]
    BY <1>7, <2>2, ConfigMapWrite DEF DriftConfigMap, TypeOK
  <2> QED
    BY <1>7, <2>3 DEF DriftConfigMap, Edits, TypeOK
<1> QED
  BY <1>1, <1>2, <1>3, <1>4, <1>5, <1>6, <1>7 DEF User

\* Garbage collection and rollouts keep the state well typed.
LEMMA TypeKubernetes == TypeOK /\ Kubernetes => TypeOK'
<1> SUFFICES ASSUME TypeOK, NEW c \in Clusters,
                    \/ CollectConfigMap(c)
                    \/ CollectDeployment(c)
                    \/ RolloutComplete(c)
             PROVE  TypeOK'
  BY DEF Kubernetes
<1>1. CASE CollectConfigMap(c)
  <2>1. /\ cmv' \in History(ConfigMapStore)
        /\ published' \in [Clusters -> SUBSET Contents]
    BY <1>1, ConfigMapWrite DEF CollectConfigMap, TypeOK
  <2> QED
    BY <1>1, <2>1 DEF CollectConfigMap, TypeOK, bounds
<1>2. CASE CollectDeployment(c)
  <2>1. dpv' \in History(DeploymentStore)
    BY <1>2, DeploymentWrite DEF CollectDeployment, TypeOK
  <2> QED
    BY <1>2, <2>1 DEF CollectDeployment, TypeOK, bounds
<1>3. CASE RolloutComplete(c)
  <2>1. Actual(dpv)[c] \in Deployment
    BY <1>3, Reads DEF RolloutComplete, DeploymentStore
  <2>2. [Actual(dpv)[c] EXCEPT !.rolled = TRUE] \in Deployment
    BY <2>1 DEF Deployment
  <2>3. dpv' \in History(DeploymentStore)
    BY <1>3, <2>2, DeploymentWrite DEF RolloutComplete, TypeOK
  <2> QED
    BY <1>3, <2>3 DEF RolloutComplete, TypeOK, bounds
<1> QED
  BY <1>1, <1>2, <1>3

\* So does every step.
LEMMA TypeStep == TypeOK /\ [Next]_vars => TypeOK'
<1>1. TypeOK /\ UNCHANGED vars => TypeOK'
  BY DEF vars, stores, bounds, TypeOK
<1> QED
  BY <1>1, TypeInformers, TypePipelineController, TypeClusterController,
     TypeFaults, TypeUser, TypeKubernetes DEF Next

\* Every reachable state is well typed, and a busy worker always has the object
\* it works on.
THEOREM TypeCorrect == Spec => []TypeOK
  BY TypeInit, TypeStep, PTL DEF Spec

=============================================================================
