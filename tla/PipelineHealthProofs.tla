------------------------ MODULE PipelineHealthProofs -------------------------
(***************************************************************************)
(* The chain from containers to the Healthy condition, for any number of   *)
(* replicas, texts and events: types, what a pipeline at rest has seen of  *)
(* its cluster, and what its pods run with.                                *)
(***************************************************************************)
EXTENDS PipelineHealth, TLAPS

PipelineObject == [text : Texts, generation : Nat,
                   phase : {"None", "Pending", "Applied"}, observed : Nat,
                   healthy : SUBSET Condition]
ClusterObject    == [status : SUBSET Status]
DeploymentObject == [hash : Texts \cup {NoText}, ready : Nat,
                     created : BOOLEAN, seen : BOOLEAN]

LEMMA KindFacts ==
    /\ Kinds = {"pipeline", "cluster", "configmap", "deployment"}
    /\ Objects["pipeline"] = PipelineObject
    /\ Objects["cluster"] = ClusterObject
    /\ Objects["configmap"] = Texts \cup {NoText}
    /\ Objects["deployment"] = DeploymentObject
    /\ Absent \notin PipelineObject /\ Absent \notin ClusterObject
    /\ Absent \notin Texts \cup {NoText} /\ Absent \notin DeploymentObject
<1>1. /\ Kinds = {"pipeline", "cluster", "configmap", "deployment"}
      /\ Objects["pipeline"] = PipelineObject
      /\ Objects["cluster"] = ClusterObject
      /\ Objects["configmap"] = Texts \cup {NoText}
      /\ Objects["deployment"] = DeploymentObject
  BY DEF Kinds, Objects, PipelineObject, ClusterObject, DeploymentObject
<1> QED
  BY <1>1, ObjectAssumption

(***************************************************************************)
(* The inductive invariant for the types.  What is a field of an object    *)
(* only has a type if the object is there: the chain of the two            *)
(* controllers creates the ConfigMap before the Deployment and the         *)
(* Deployment before the pods, and nothing goes away in between.           *)
(***************************************************************************)
InOrder ==
    /\ obj.pipeline # Absent
    /\ obj.deployment # Absent => obj.configmap # Absent
    /\ cw \in {"deployment", "status"} => obj.configmap # Absent
    /\ cw = "status" => obj.deployment # Absent
    /\ pw.pc \in {"stamp", "Applied"} =>
         obj.cluster # Absent /\ obj.configmap # Absent
    /\ pw.pc = "Applied" => obj.deployment # Absent
    /\ DOMAIN list # {} => obj.deployment # Absent

Typed == TypeOK /\ InOrder

\* What TypeOK says of the objects.
ObjectsOK ==
    /\ DOMAIN obj = Kinds
    /\ \A k \in Kinds : obj[k] \in Objects[k] \cup {Absent}

\* A write of an object.
LEMMA WriteFacts ==
    ASSUME ObjectsOK, NEW k \in Kinds, NEW o \in Objects[k] \cup {Absent},
           Write(k, o)
    PROVE  /\ ObjectsOK'
           /\ obj'[k] = o
           /\ \A j \in Kinds \ {k} : obj'[j] = obj[j]
  BY DEF ObjectsOK, Write

\* Objects as TypeOK has them.
LEMMA ObjectFacts ==
    ASSUME ObjectsOK
    PROVE  /\ obj.pipeline \in PipelineObject \cup {Absent}
           /\ obj.cluster \in ClusterObject \cup {Absent}
           /\ obj.configmap \in Texts \cup {NoText, Absent}
           /\ obj.deployment \in DeploymentObject \cup {Absent}
  BY KindFacts DEF ObjectsOK

\* The queues keep their type whatever happens.
LEMMA NotifyFacts ==
    ASSUME NEW p \in BOOLEAN, NEW c \in BOOLEAN, Notify(p, c)
    PROVE  pq' \in BOOLEAN /\ cq' \in BOOLEAN
  BY DEF Notify

\* The invariant holds initially.
LEMMA TypedInit == Init => Typed
<1> SUFFICES ASSUME Init PROVE Typed
  OBVIOUS
<1>1. ObjectsOK /\ InOrder
  <2>1. PICK t \in Texts :
          obj = [pipeline |-> [text |-> t, generation |-> 1, phase |-> "None",
                               observed |-> 0, healthy |-> {}],
                 cluster |-> Absent, configmap |-> Absent,
                 deployment |-> Absent]
    BY DEF Init
  <2>2. /\ DOMAIN obj = Kinds
        /\ obj["pipeline"] \in PipelineObject
        /\ obj["cluster"] = Absent /\ obj["configmap"] = Absent
        /\ obj["deployment"] = Absent
    BY <2>1, KindFacts DEF PipelineObject
  <2>3. ObjectsOK
    BY <2>2, KindFacts DEF ObjectsOK
  <2>4. DOMAIN list = {}
    BY DEF Init, NoPodList
  <2>5. pw.pc = "idle" /\ cw = "idle"
    BY DEF Init, Idle
  <2> QED
    BY <2>2, <2>3, <2>4, <2>5, KindFacts DEF InOrder
<1>2. /\ DOMAIN list = {} /\ pq \in BOOLEAN /\ cq \in BOOLEAN
      /\ pods \in [runs : SUBSET (Texts \cup {NoText}),
                   text : Texts \cup {NoText}, up : BOOLEAN]
      /\ pw = [pc |-> "idle", obj |-> Absent, text |-> NoText]
      /\ cw = "idle" /\ inspected = {} /\ events \in Nat
  BY HealthAssumption DEF Init, NoPodList, Idle
<1> QED
  BY <1>1, <1>2, KindFacts DEF Typed, TypeOK, ObjectsOK

\* What TypeOK says of the rest.
RestOK ==
    /\ DOMAIN list \subseteq Nat
    /\ \A i \in DOMAIN list : list[i] \in ContainerState
    /\ pods \in [runs : SUBSET (Texts \cup {NoText}),
                 text : Texts \cup {NoText}, up : BOOLEAN]
    /\ pq \in BOOLEAN /\ cq \in BOOLEAN
    /\ pw \in [pc   : {"idle", "rebuild", "stamp", "Pending", "Applied"},
               obj  : PipelineObject \cup {Absent},
               text : Texts \cup {NoText}]
    /\ pw.pc # "idle" => pw.obj \in PipelineObject
    /\ cw \in {"idle", "configmap", "deployment", "status"}
    /\ inspected \subseteq Inspection
    /\ events \in Nat

LEMMA TypeParts ==
    /\ TypeOK <=> ObjectsOK /\ RestOK
    /\ ObjectsOK' /\ RestOK' => TypeOK'
  BY KindFacts DEF TypeOK, ObjectsOK, RestOK

\* An inspection finds a condition.
LEMMA InspectionType ==
    ASSUME RestOK, NEW g \in Nat, NEW c \in InspectClusterHealth(g)
    PROVE  c \in Condition
<1>1. \A i \in Failing : i \in Nat /\ list[i] \in {"waiting", "failed"}
  BY DEF RestOK, Failing, Showing
<1> QED
  BY <1>1 DEF InspectClusterHealth, Condition

\* The end of a reconcile of the pipeline.
LEMMA SetStatusTyped ==
    ASSUME Typed, pw.pc \in {"Pending", "Applied"},
           NEW healthy \in SUBSET Condition, SetStatus(healthy),
           UNCHANGED <<cw, list, pods>>
    PROVE  /\ ObjectsOK' /\ InOrder'
           /\ pw' = Idle /\ pq' \in BOOLEAN /\ cq' \in BOOLEAN
<1> DEFINE o == [pw.obj EXCEPT !.phase = pw.pc, !.healthy = healthy,
                               !.observed = pw.obj.generation]
<1>1. o \in PipelineObject
  BY TypeParts DEF Typed, RestOK, PipelineObject
<1>2. ObjectsOK /\ pq \in BOOLEAN /\ cq \in BOOLEAN
  BY TypeParts DEF Typed, RestOK
<1> HIDE DEF o
<1>3. /\ pw' = Idle /\ pq' \in BOOLEAN /\ cq' \in BOOLEAN
      /\ UNCHANGED obj \/ Write("pipeline", o)
  BY <1>2, NotifyFacts
     DEF SetStatus, PipelineReturn, PipelineReturnErr, o
<1>4. CASE UNCHANGED obj
  BY <1>2, <1>3, <1>4 DEF ObjectsOK, Typed, InOrder, Idle
<1>5. CASE Write("pipeline", o)
  <2>1. /\ ObjectsOK' /\ obj'["pipeline"] = o
        /\ \A j \in Kinds \ {"pipeline"} : obj'[j] = obj[j]
    BY <1>1, <1>2, <1>5, WriteFacts, KindFacts
  <2>2. /\ obj'.cluster = obj.cluster /\ obj'.configmap = obj.configmap
        /\ obj'.deployment = obj.deployment
    BY <2>1, KindFacts
  <2> QED
    BY <1>1, <1>3, <2>1, <2>2, KindFacts DEF Typed, InOrder, Idle
<1> QED
  BY <1>3, <1>4, <1>5

\* Every call of the pipeline controller keeps the types.
LEMMA TypedPipelineController ==
    Typed /\ (PipelineController \/ ListFails) => Typed'
<1> SUFFICES ASSUME Typed, PipelineController \/ ListFails
             PROVE  ObjectsOK' /\ RestOK' /\ InOrder'
  BY TypeParts DEF Typed
<1>0. /\ ObjectsOK /\ RestOK /\ InOrder
      /\ pq \in BOOLEAN /\ cq \in BOOLEAN
      /\ obj.pipeline \in PipelineObject
  BY TypeParts, ObjectFacts DEF Typed, RestOK, InOrder
<1>1. CASE PipelineReconcile
  <2>1. /\ pw' = [pc |-> "rebuild", obj |-> obj.pipeline, text |-> NoText]
        /\ UNCHANGED obj /\ pq' \in BOOLEAN /\ cq' \in BOOLEAN
    BY <1>0, <1>1, NotifyFacts DEF PipelineReconcile
  <2> QED
    BY <1>0, <1>1, <2>1
       DEF PipelineReconcile, PipelineAt, ObjectsOK, RestOK, InOrder
<1>2. CASE RebuildClusterConfig
  <2>0. pw.pc = "rebuild" /\ pw.obj \in PipelineObject
    BY <1>0, <1>2 DEF RebuildClusterConfig, PipelineAt, RestOK
  <2>1. CASE UNCHANGED obj /\ pw' = [pw EXCEPT !.pc = "Pending"]
    <3>1. pq' \in BOOLEAN /\ cq' \in BOOLEAN
      BY <1>0, <1>2, NotifyFacts DEF RebuildClusterConfig, PipelineReturnErr
    <3> QED
      BY <1>0, <1>2, <2>0, <2>1, <3>1
         DEF RebuildClusterConfig, PipelineAt, ObjectsOK, RestOK, InOrder
  <2>2. CASE UNCHANGED obj /\ PipelineReturnErr
    <3>1. pw' = Idle /\ pq' \in BOOLEAN /\ cq' \in BOOLEAN
      BY <1>0, <2>2, NotifyFacts DEF PipelineReturnErr
    <3> QED
      BY <1>0, <1>2, <2>2, <3>1
         DEF RebuildClusterConfig, PipelineAt, ObjectsOK, RestOK, InOrder, Idle
  <2>3. CASE /\ obj.cluster # Absent /\ obj.configmap # Absent
             /\ Write("configmap", obj.pipeline.text)
             /\ pw' = [pw EXCEPT !.pc = "stamp", !.text = obj.pipeline.text]
    <3>1. pq' \in BOOLEAN /\ cq' \in BOOLEAN
      BY <1>0, <1>2, NotifyFacts DEF RebuildClusterConfig, PipelineReturnErr
    <3>2. obj.pipeline.text \in Texts
      BY <1>0 DEF PipelineObject
    <3>3. /\ ObjectsOK' /\ obj'["configmap"] = obj.pipeline.text
          /\ \A j \in Kinds \ {"configmap"} : obj'[j] = obj[j]
      BY <1>0, <2>3, <3>2, WriteFacts, KindFacts
    <3>4. /\ pw' \in [pc   : {"idle", "rebuild", "stamp", "Pending", "Applied"},
                       obj  : PipelineObject \cup {Absent},
                       text : Texts \cup {NoText}]
          /\ pw'.pc = "stamp" /\ pw'.obj \in PipelineObject
      BY <1>0, <2>0, <2>3, <3>2 DEF RestOK
    <3>5. InOrder'
      BY <1>0, <1>2, <2>3, <3>2, <3>3, <3>4, KindFacts
         DEF RebuildClusterConfig, PipelineAt, InOrder
    <3> QED
      BY <1>0, <1>2, <3>1, <3>3, <3>4, <3>5
         DEF RebuildClusterConfig, PipelineAt, RestOK
  <2> QED
    BY <1>2, <2>1, <2>2, <2>3 DEF RebuildClusterConfig
<1>3. CASE StampDeployment
  <2> DEFINE new == StampedDeployment(obj.deployment, pw.text)
  <2>1. CASE UNCHANGED obj /\ PipelineReturnErr
    <3>1. pw' = Idle /\ pq' \in BOOLEAN /\ cq' \in BOOLEAN
      BY <1>0, <2>1, NotifyFacts DEF PipelineReturnErr
    <3> QED
      BY <1>0, <1>3, <2>1, <3>1
         DEF StampDeployment, PipelineAt, ObjectsOK, RestOK, InOrder, Idle
  <2>2. CASE /\ obj.deployment # Absent /\ Write("deployment", new)
             /\ pw' = [pw EXCEPT !.pc = "Applied"] /\ Notify(pq, cq)
    <3>1. /\ pw.pc = "stamp" /\ pw.obj \in PipelineObject
          /\ pw.text \in Texts \cup {NoText}
      BY <1>0, <1>3 DEF StampDeployment, PipelineAt, RestOK
    <3>2. obj.deployment \in DeploymentObject
      BY <1>0, <2>2, ObjectFacts
    <3>3. new \in DeploymentObject
      BY <3>1, <3>2
         DEF StampedDeployment, DeploymentObject
    <3> HIDE DEF new
    <3>4. /\ ObjectsOK' /\ obj'["deployment"] = new
          /\ \A j \in Kinds \ {"deployment"} : obj'[j] = obj[j]
      BY <1>0, <2>2, <3>3, WriteFacts, KindFacts
    <3>5. /\ obj'.cluster = obj.cluster /\ obj'.configmap = obj.configmap
          /\ obj'.pipeline = obj.pipeline /\ obj'.deployment # Absent
      BY <3>3, <3>4, KindFacts
    <3>6. InOrder'
      BY <1>0, <1>3, <2>2, <3>1, <3>5
         DEF StampDeployment, PipelineAt, InOrder
    <3>7. /\ pq' \in BOOLEAN /\ cq' \in BOOLEAN
          /\ pw' \in [pc   : {"idle", "rebuild", "stamp", "Pending", "Applied"},
                      obj  : PipelineObject \cup {Absent},
                      text : Texts \cup {NoText}]
          /\ pw'.obj \in PipelineObject
      BY <1>0, <2>2, <3>1, NotifyFacts DEF RestOK
    <3> QED
      BY <1>0, <1>3, <3>4, <3>6, <3>7 DEF StampDeployment, PipelineAt, RestOK
  <2> QED
    BY <1>3, <2>1, <2>2 DEF StampDeployment
<1>4. ASSUME SetPending \/ SetApplied \/ ListFails
      PROVE  ObjectsOK' /\ RestOK' /\ InOrder'
  <2>1. /\ pw.pc \in {"Pending", "Applied"} /\ UNCHANGED <<cw, list, pods>>
        /\ pw.obj \in PipelineObject
    BY <1>0, <1>4 DEF SetPending, SetApplied, ListFails, PipelineAt, RestOK
  <2>2. PICK healthy \in SUBSET Condition : SetStatus(healthy)
    BY <1>0, <1>4, <2>1, InspectionType
       DEF SetPending, SetApplied, ListFails, PipelineObject
  <2>3. /\ ObjectsOK' /\ InOrder' /\ pw' = Idle
        /\ pq' \in BOOLEAN /\ cq' \in BOOLEAN
    BY <2>1, <2>2, SetStatusTyped
  <2>4. inspected' \subseteq Inspection
    <3>1. CASE SetPending \/ ListFails
      BY <1>0, <3>1 DEF SetPending, ListFails, RestOK
    <3>2. CASE SetApplied
      <4>1. obj.cluster \in ClusterObject /\ pw.obj.generation \in Nat
        BY <1>0, <2>1, <3>2, ObjectFacts
           DEF SetApplied, PipelineAt, InOrder, PipelineObject
      <4>2. PICK c \in InspectClusterHealth(pw.obj.generation) :
              inspected' = {[status |-> obj.cluster.status, found |-> c]}
        BY <3>2 DEF SetApplied
      <4>3. c \in Condition
        BY <1>0, <4>1, InspectionType
      <4> QED
        BY <4>1, <4>2, <4>3 DEF ClusterObject, Inspection
    <3> QED
      BY <1>4, <3>1, <3>2
  <2>5. events' \in Nat
    BY <1>0, <1>4 DEF SetPending, SetApplied, ListFails, RestOK
  <2> QED
    BY <1>0, <2>1, <2>3, <2>4, <2>5 DEF RestOK, Idle
<1> QED
  BY <1>1, <1>2, <1>3, <1>4 DEF PipelineController

\* A step that writes at most the Deployment, which has been there before, and
\* leaves the workers alone.
LEMMA DeploymentWrite ==
    ASSUME Typed, UNCHANGED <<pw, cw>>,
           obj.deployment # Absent,
           NEW new \in DeploymentObject, Write("deployment", new)
    PROVE  ObjectsOK' /\ InOrder'
<1>1. ObjectsOK
  BY TypeParts DEF Typed
<1>2. /\ ObjectsOK' /\ obj'["deployment"] = new
      /\ \A j \in Kinds \ {"deployment"} : obj'[j] = obj[j]
  BY <1>1, WriteFacts, KindFacts
<1>3. /\ obj'.cluster = obj.cluster /\ obj'.configmap = obj.configmap
      /\ obj'.pipeline = obj.pipeline /\ obj'.deployment # Absent
  BY <1>2, KindFacts
<1> QED
  BY <1>2, <1>3 DEF Typed, InOrder

\* Every call of the cluster controller keeps the types.
LEMMA TypedClusterController == Typed /\ ClusterController => Typed'
<1> SUFFICES ASSUME Typed, ClusterController
             PROVE  ObjectsOK' /\ RestOK' /\ InOrder'
  BY TypeParts DEF Typed
<1>0. /\ ObjectsOK /\ RestOK /\ InOrder
      /\ pq \in BOOLEAN /\ cq \in BOOLEAN
  BY TypeParts DEF Typed, RestOK
<1>1. /\ pq' \in BOOLEAN /\ cq' \in BOOLEAN
      /\ UNCHANGED <<pw, list, pods, inspected, events>>
      /\ cw' \in {"idle", "configmap", "deployment", "status"}
  BY <1>0, NotifyFacts
     DEF ClusterController, ClusterReconcile, ReconcileConfigMap,
         ReconcileDeployment, ReconcileStatus, ClusterAt, ClusterGoto
<1>2. RestOK'
  BY <1>0, <1>1 DEF RestOK
<1>3. CASE ClusterReconcile
  BY <1>0, <1>1, <1>2, <1>3 DEF ClusterReconcile, ObjectsOK, InOrder
<1>4. CASE ReconcileConfigMap
  <2>1. cw' = "deployment"
    BY <1>4 DEF ReconcileConfigMap, ClusterGoto
  <2>2. CASE obj.configmap = Absent /\ Write("configmap", NoText)
    <3>1. /\ ObjectsOK' /\ obj'["configmap"] = NoText
          /\ \A j \in Kinds \ {"configmap"} : obj'[j] = obj[j]
      BY <1>0, <2>2, WriteFacts, KindFacts
    <3>2. /\ obj'.cluster = obj.cluster /\ obj'.configmap # Absent
          /\ obj'.pipeline = obj.pipeline
          /\ obj'.deployment = obj.deployment
      BY <3>1, KindFacts
    <3> QED
      BY <1>0, <1>1, <1>2, <2>1, <3>1, <3>2 DEF InOrder
  <2>3. CASE obj.configmap # Absent /\ UNCHANGED obj
    BY <1>0, <1>1, <1>2, <2>1, <2>3 DEF ObjectsOK, InOrder
  <2> QED
    BY <1>4, <2>2, <2>3 DEF ReconcileConfigMap
<1>5. CASE ReconcileDeployment
  <2> DEFINE new == IF obj.deployment # Absent
                    THEN UpdatedDeployment(obj.deployment)
                    ELSE [hash |-> NoText, ready |-> 0, created |-> FALSE,
                          seen |-> FALSE]
  <2>1. cw = "deployment" /\ cw' = "status" /\ Write("deployment", new)
    BY <1>5 DEF ReconcileDeployment, ClusterAt, ClusterGoto
  <2>2. new \in DeploymentObject
    BY <1>0, ObjectFacts DEF UpdatedDeployment, DeploymentObject
  <2> HIDE DEF new
  <2>3. /\ ObjectsOK' /\ obj'["deployment"] = new
        /\ \A j \in Kinds \ {"deployment"} : obj'[j] = obj[j]
    BY <1>0, <2>1, <2>2, WriteFacts, KindFacts
  <2>4. /\ obj'.cluster = obj.cluster /\ obj'.configmap = obj.configmap
        /\ obj'.pipeline = obj.pipeline /\ obj'.deployment # Absent
    BY <2>2, <2>3, KindFacts
  <2> QED
    BY <1>0, <1>1, <1>2, <2>1, <2>3, <2>4 DEF InOrder
<1>6. CASE ReconcileStatus
  <2> DEFINE new == [status |-> {StatusOf(obj.deployment)}]
  <2>1. cw = "status" /\ cw' = "idle" /\ Write("cluster", new)
    BY <1>6 DEF ReconcileStatus, ClusterAt, ClusterGoto
  <2>2. obj.deployment \in DeploymentObject
    BY <1>0, <2>1, ObjectFacts DEF InOrder
  <2>3. new \in ClusterObject
    BY <2>2 DEF StatusOf, Status, ClusterObject, DeploymentObject
  <2> HIDE DEF new
  <2>4. /\ ObjectsOK' /\ obj'["cluster"] = new
        /\ \A j \in Kinds \ {"cluster"} : obj'[j] = obj[j]
    BY <1>0, <2>1, <2>3, WriteFacts, KindFacts
  <2>5. /\ obj'.cluster # Absent /\ obj'.configmap = obj.configmap
        /\ obj'.pipeline = obj.pipeline
        /\ obj'.deployment = obj.deployment
    BY <2>3, <2>4, KindFacts
  <2> QED
    BY <1>0, <1>1, <1>2, <2>1, <2>4, <2>5 DEF InOrder
<1> QED
  BY <1>3, <1>4, <1>5, <1>6 DEF ClusterController

\* Users, and faults of the operator.
LEMMA TypedUser ==
    Typed /\ (CreateCluster \/ \E t \in Texts : EditPipeline(t)) => Typed'
<1> SUFFICES ASSUME Typed, CreateCluster \/ \E t \in Texts : EditPipeline(t)
             PROVE  ObjectsOK' /\ RestOK' /\ InOrder'
  BY TypeParts DEF Typed
<1>0. /\ ObjectsOK /\ RestOK /\ InOrder
      /\ pq \in BOOLEAN /\ cq \in BOOLEAN
  BY TypeParts DEF Typed, RestOK
<1>1. PICK k \in {"cluster", "pipeline"}, o \in ClusterObject \cup PipelineObject :
        /\ Edit(k, o) /\ o \in Objects[k]
  <2>1. CASE CreateCluster
    <3>1. [status |-> {}] \in ClusterObject
      BY DEF ClusterObject
    <3> QED
      BY <2>1, <3>1, KindFacts DEF CreateCluster
  <2>2. ASSUME NEW t \in Texts, EditPipeline(t)
        PROVE  \E o \in PipelineObject : Edit("pipeline", o)
    <3>1. obj.pipeline \in PipelineObject
      BY <1>0, ObjectFacts DEF InOrder
    <3>2. [obj.pipeline EXCEPT !.text = t, !.generation = @ + 1]
            \in PipelineObject
      <4>1. obj.pipeline.generation + 1 \in Nat
        BY <3>1 DEF PipelineObject
      <4> QED
        BY <3>1, <4>1 DEF PipelineObject
    <3> QED
      BY <2>2, <3>2 DEF EditPipeline
  <2> QED
    BY <2>1, <2>2, KindFacts
<1>2. /\ ObjectsOK' /\ obj'[k] = o
      /\ \A j \in Kinds \ {k} : obj'[j] = obj[j]
  BY <1>0, <1>1, WriteFacts, KindFacts DEF Edit
<1>3. InOrder'
  <2>1. o # Absent
    BY <1>1, KindFacts
  <2>2. /\ obj'.configmap = obj.configmap /\ obj'.deployment = obj.deployment
        /\ obj'.pipeline # Absent
        /\ obj.cluster # Absent => obj'.cluster # Absent
    BY <1>0, <1>2, <2>1, KindFacts DEF InOrder
  <2> QED
    BY <1>0, <1>1, <2>2 DEF Edit, InOrder
<1>4. RestOK'
  <2>1. pq' \in BOOLEAN /\ cq' \in BOOLEAN
    BY <1>0, <1>1, NotifyFacts DEF Edit
  <2> QED
    BY <1>0, <1>1, <2>1 DEF Edit, RestOK
<1> QED
  BY <1>2, <1>3, <1>4

LEMMA TypedFaults ==
    Typed /\ (PipelineCallFails \/ ClusterCallFails \/ Restart) => Typed'
<1> SUFFICES ASSUME Typed, PipelineCallFails \/ ClusterCallFails \/ Restart
             PROVE  ObjectsOK' /\ RestOK' /\ InOrder'
  BY TypeParts DEF Typed
<1>0. /\ ObjectsOK /\ RestOK /\ InOrder
      /\ pq \in BOOLEAN /\ cq \in BOOLEAN
  BY TypeParts DEF Typed, RestOK
<1>1. UNCHANGED <<obj, list, pods, inspected>> /\ events' \in Nat
  <2>1. Faulty
    BY DEF PipelineCallFails, ClusterCallFails, Restart
  <2>2. events \in Nat
    BY <1>0 DEF RestOK
  <2> QED
    BY <2>1, <2>2 DEF Faulty
<1>2. pq' \in BOOLEAN /\ cq' \in BOOLEAN
  <2>1. CASE PipelineCallFails
    BY <1>0, <2>1, NotifyFacts DEF PipelineCallFails, PipelineReturnErr
  <2>2. CASE ClusterCallFails
    BY <1>0, <2>2, NotifyFacts DEF ClusterCallFails
  <2>3. CASE Restart
    BY <2>3 DEF Restart
  <2> QED
    BY <2>1, <2>2, <2>3
<1>3. pw' \in {pw, Idle} /\ cw' \in {cw, "idle"}
  BY DEF PipelineCallFails, ClusterCallFails, Restart, PipelineReturnErr
<1> QED
  BY <1>0, <1>1, <1>2, <1>3 DEF ObjectsOK, RestOK, InOrder, Idle

\* The pods and the Deployment controller.  What they write is a Deployment
\* that exists.
LEMMA PodsWrite ==
    ASSUME Typed, Kubernetes \/ Crash
    PROVE  /\ UNCHANGED <<pw, cw, inspected>>
           /\ \/ UNCHANGED obj
              \/ /\ obj.deployment # Absent
                 /\ \E new \in DeploymentObject : Write("deployment", new)
           /\ pq' \in BOOLEAN /\ cq' \in BOOLEAN /\ events' \in Nat
<1>0. /\ RestOK /\ InOrder /\ pq \in BOOLEAN /\ cq \in BOOLEAN
      /\ Replicas \in Nat \ {0} /\ events \in Nat
      /\ obj.deployment # Absent => obj.deployment \in DeploymentObject
  BY TypeParts, ObjectFacts, HealthAssumption DEF Typed, RestOK
<1>1. CASE PodsCreated
  <2>1. [obj.deployment EXCEPT !.created = TRUE, !.seen = TRUE]
          \in DeploymentObject
    BY <1>0, <1>1 DEF PodsCreated, DeploymentObject
  <2> QED
    BY <1>0, <1>1, <2>1, NotifyFacts DEF PodsCreated, Elsewhere
<1>2. CASE Scheduled \/ PodsStarted \/ Crash \/ Recover \/ Terminated
  BY <1>0, <1>2
     DEF Scheduled, PodsStarted, Crash, Recover, Terminated, Elsewhere
<1>3. ASSUME NEW n \in Nat, obj.deployment # Absent, SetReady(n)
      PROVE  /\ \E new \in DeploymentObject : Write("deployment", new)
             /\ pq' \in BOOLEAN /\ cq' \in BOOLEAN
  <2>1. [obj.deployment EXCEPT !.ready = n] \in DeploymentObject
    BY <1>0, <1>3 DEF DeploymentObject
  <2> QED
    BY <1>0, <1>3, <2>1, NotifyFacts DEF SetReady
<1>4. CASE PodsUp
  <2>1. PICK n \in Nat : SetReady(n)
    BY <1>0, <1>4 DEF PodsUp
  <2> QED
    BY <1>0, <1>3, <1>4, <2>1 DEF PodsUp, PodsMatch, Elsewhere
<1>5. CASE TakeOver
  BY <1>0, <1>3, <1>5 DEF TakeOver, Elsewhere, InOrder
<1>6. CASE PodsDown
  <2>1. DOMAIN list # {} /\ SetReady(0)
    BY <1>6 DEF PodsDown, Started
  <2> QED
    BY <1>0, <1>3, <1>6, <2>1 DEF PodsDown, Elsewhere, InOrder
<1> QED
  BY <1>1, <1>2, <1>4, <1>5, <1>6 DEF Kubernetes

\* The list of pods and what they run.
LEMMA PodsTyped ==
    ASSUME Typed, Kubernetes \/ Crash
    PROVE  /\ DOMAIN list' \subseteq Nat
           /\ \A i \in DOMAIN list' : list'[i] \in ContainerState
           /\ pods' \in [runs : SUBSET (Texts \cup {NoText}),
                         text : Texts \cup {NoText}, up : BOOLEAN]
           /\ DOMAIN list' # {} => obj.deployment # Absent
<1>0. /\ ObjectsOK /\ RestOK /\ InOrder
      /\ Replicas \in Nat \ {0}
  BY TypeParts, HealthAssumption DEF Typed
<1> USE DEF ContainerState
<1>1. CASE PodsCreated
  BY <1>0, <1>1 DEF PodsCreated, Remaining, Coming, RestOK
<1>2. CASE Scheduled \/ Crash \/ Recover
  BY <1>0, <1>2 DEF Scheduled, Crash, Recover, RestOK, InOrder
<1>3. CASE PodsStarted
  <2>1. Replicas + 1 \in Coming
    BY <1>0 DEF Coming
  <2>2. DOMAIN list # {}
    BY <1>3, <2>1 DEF PodsStarted
  <2>3. /\ obj.deployment \in DeploymentObject
        /\ obj.configmap \in Texts \cup {NoText}
    BY <1>0, <2>2, ObjectFacts DEF InOrder
  <2>4. pods' \in [runs : SUBSET (Texts \cup {NoText}),
                   text : Texts \cup {NoText}, up : BOOLEAN]
    BY <1>3, <2>3 DEF PodsStarted, DeploymentObject
  <2>5. \A old \in Remaining : list[old] \in ContainerState
    BY <1>0 DEF Remaining, RestOK
  <2>6. /\ DOMAIN list' \subseteq Nat
        /\ \A i \in DOMAIN list' : list'[i] \in ContainerState
    <3>1. CASE list' = [i \in 1 .. Replicas |-> "running"]
      BY <1>0, <3>1
    <3>2. ASSUME NEW old \in Remaining,
                 list' = [i \in 0 .. Replicas |-> IF i = 0 THEN list[old]
                                                  ELSE "running"]
          PROVE  /\ DOMAIN list' \subseteq Nat
                 /\ \A i \in DOMAIN list' : list'[i] \in ContainerState
      BY <1>0, <2>5, <3>2
    <3> QED
      BY <1>3, <3>1, <3>2 DEF PodsStarted
  <2> QED
    BY <1>0, <2>2, <2>4, <2>6 DEF InOrder
<1>4. CASE PodsUp \/ PodsDown
  BY <1>0, <1>4 DEF PodsUp, PodsDown, RestOK, InOrder
<1>5. CASE TakeOver \/ Terminated
  BY <1>0, <1>5 DEF TakeOver, Terminated, RestOK, InOrder
<1> QED
  BY <1>1, <1>2, <1>3, <1>4, <1>5 DEF Kubernetes

LEMMA TypedKubernetes == Typed /\ (Kubernetes \/ Crash) => Typed'
<1> SUFFICES ASSUME Typed, Kubernetes \/ Crash
             PROVE  ObjectsOK' /\ RestOK' /\ InOrder'
  BY TypeParts DEF Typed
<1>0. ObjectsOK /\ RestOK /\ InOrder
  BY TypeParts DEF Typed
<1>1. /\ UNCHANGED <<pw, cw, inspected>>
      /\ \/ UNCHANGED obj
         \/ /\ obj.deployment # Absent
            /\ \E new \in DeploymentObject : Write("deployment", new)
      /\ pq' \in BOOLEAN /\ cq' \in BOOLEAN /\ events' \in Nat
  BY PodsWrite
<1>2. /\ DOMAIN list' \subseteq Nat
      /\ \A i \in DOMAIN list' : list'[i] \in ContainerState
      /\ pods' \in [runs : SUBSET (Texts \cup {NoText}),
                    text : Texts \cup {NoText}, up : BOOLEAN]
      /\ DOMAIN list' # {} => obj.deployment # Absent
  BY PodsTyped
<1>3. RestOK'
  BY <1>0, <1>1, <1>2 DEF RestOK
<1>4. ObjectsOK' /\ InOrder'
  <2>1. CASE UNCHANGED obj
    BY <1>0, <1>1, <1>2, <2>1 DEF ObjectsOK, InOrder
  <2>2. CASE /\ obj.deployment # Absent
             /\ \E new \in DeploymentObject : Write("deployment", new)
    BY <1>1, <2>2, DeploymentWrite
  <2> QED
    BY <1>1, <2>1, <2>2
<1> QED
  BY <1>3, <1>4

LEMMA TypedStep == Typed /\ [Next]_vars => Typed'
<1>1. Typed /\ UNCHANGED vars => Typed'
  BY DEF vars, Typed, TypeOK, InOrder
<1> QED
  BY <1>1, TypedPipelineController, TypedClusterController, TypedUser,
     TypedFaults, TypedKubernetes DEF Next

LEMMA TypedAlways == Spec => []Typed
  BY TypedInit, TypedStep, PTL DEF Spec

\* In every reachable state of every instance each variable holds a value of
\* its kind: no call of the two controllers, and none of the Deployment
\* controller and the kubelet, uses a field of an object that is not there.
THEOREM TypeCorrect == Spec => []TypeOK
<1>1. Typed => TypeOK
  BY DEF Typed
<1> QED
  BY <1>1, TypedAlways, PTL

-----------------------------------------------------------------------------
(***************************************************************************)
(* What a step may change.                                                 *)
(***************************************************************************)
\* A step that leaves no request for the pipeline has disturbed nothing that
\* the pipeline controller watches.
LEMMA NotifyQuiet ==
    ASSUME NEW p, NEW c, Notify(p, c), ~pq'
    PROVE  /\ ~p
           /\ obj'.pipeline = obj.pipeline /\ obj'.cluster = obj.cluster
           /\ obj'.configmap = obj.configmap
  BY KindFacts DEF Notify, WakesPipeline

LEMMA Unwoken ==
    ASSUME Next, ~pq'
    PROVE  /\ obj'.pipeline = obj.pipeline /\ obj'.cluster = obj.cluster
           /\ obj'.configmap = obj.configmap
           /\ \/ ~pq /\ UNCHANGED <<pw, inspected>>
              \/ PipelineController \/ ListFails
<1>1. CASE PipelineController \/ ListFails
  <2>1. \E p, c : Notify(p, c)
    BY <1>1 DEF PipelineController, PipelineReconcile, StampDeployment,
                RebuildClusterConfig, SetPending, SetApplied, ListFails,
                SetStatus, PipelineReturn, PipelineReturnErr
  <2> QED
    BY <1>1, <2>1, NotifyQuiet
<1>2. CASE ClusterController
  <2>1. Notify(pq, FALSE) \/ Notify(pq, cq)
    BY <1>2 DEF ClusterController, ClusterReconcile, ReconcileConfigMap,
                ReconcileDeployment, ReconcileStatus, ClusterGoto
  <2>2. UNCHANGED <<pw, inspected>>
    BY <1>2 DEF ClusterController, ClusterReconcile, ReconcileConfigMap,
                ReconcileDeployment, ReconcileStatus, ClusterAt
  <2> QED
    BY <2>1, <2>2, NotifyQuiet
<1>3. CASE PipelineCallFails \/ Restart
  <2>1. ~Notify(TRUE, cq)
    BY NotifyQuiet
  <2> QED
    BY <1>3, <2>1 DEF PipelineCallFails, Restart, PipelineReturnErr
<1>4. CASE ClusterCallFails
  BY <1>4, NotifyQuiet DEF ClusterCallFails, Faulty
<1>5. CASE CreateCluster \/ \E t \in Texts : EditPipeline(t)
  <2>1. Notify(pq, cq) /\ UNCHANGED <<pw, inspected>>
    BY <1>5 DEF CreateCluster, EditPipeline, Edit
  <2> QED
    BY <2>1, NotifyQuiet
<1>6. CASE Scheduled \/ PodsStarted \/ Crash \/ Recover \/ Terminated
  BY <1>6 DEF Scheduled, PodsStarted, Crash, Recover, Terminated, Elsewhere
<1>7. CASE PodsCreated \/ PodsUp \/ TakeOver \/ PodsDown
  <2>1. Notify(pq, cq) /\ UNCHANGED <<pw, inspected>>
    BY <1>7 DEF PodsCreated, PodsUp, TakeOver, PodsDown, SetReady, Elsewhere
  <2> QED
    BY <2>1, NotifyQuiet
<1> QED
  BY <1>1, <1>2, <1>3, <1>4, <1>5, <1>6, <1>7 DEF Next, Kubernetes

\* A write of one object leaves the others alone.
LEMMA WriteElsewhere ==
    ASSUME NEW k, NEW o, Write(k, o)
    PROVE  /\ k # "pipeline" => obj'.pipeline = obj.pipeline
           /\ k # "cluster" => obj'.cluster = obj.cluster
           /\ k # "configmap" => obj'.configmap = obj.configmap
           /\ k # "deployment" => obj'.deployment = obj.deployment
  BY DEF Write

\* The pods and the Deployment controller leave it alone.
LEMMA PodsKeepHash ==
    ASSUME Typed, Kubernetes \/ Crash, obj.deployment # Absent
    PROVE  /\ obj'.deployment # Absent
           /\ obj'.deployment.hash = obj.deployment.hash
<1>0. ObjectsOK /\ obj.deployment \in DeploymentObject
  BY TypeParts, ObjectFacts DEF Typed
<1>1. CASE UNCHANGED obj
  BY <1>1
<1>2. ASSUME NEW new \in DeploymentObject, Write("deployment", new)
      PROVE  obj'["deployment"] = new /\ new # Absent
  BY <1>0, <1>2, WriteFacts, KindFacts
<1>3. UNCHANGED obj \/ obj'.deployment # Absent
  BY <1>2, PodsWrite
<1>4. UNCHANGED obj \/ obj'.deployment.hash = obj.deployment.hash
  <2>1. CASE Scheduled \/ PodsStarted \/ Crash \/ Recover \/ Terminated
    BY <2>1 DEF Scheduled, PodsStarted, Crash, Recover, Terminated
  <2>2. CASE PodsCreated
    BY <1>0, <2>2, KindFacts
       DEF PodsCreated, Write, ObjectsOK, DeploymentObject
  <2>3. ASSUME NEW n, SetReady(n)
        PROVE  obj'.deployment.hash = obj.deployment.hash
    BY <1>0, <2>3, KindFacts
       DEF SetReady, Write, ObjectsOK, DeploymentObject
  <2>4. CASE PodsUp \/ TakeOver \/ PodsDown
    BY <2>3, <2>4 DEF PodsUp, TakeOver, PodsDown
  <2> QED
    BY <2>1, <2>2, <2>4 DEF Kubernetes
<1> QED
  BY <1>3, <1>4

\* Only the stamp changes the hash of a Deployment, which stays once it is
\* there.
LEMMA HashKept ==
    ASSUME Typed, Next, obj.deployment # Absent
    PROVE  /\ obj'.deployment # Absent
           /\ StampDeployment \/ obj'.deployment.hash = obj.deployment.hash
<1>0. ObjectsOK
  BY TypeParts DEF Typed
<1>1. obj.deployment \in DeploymentObject
  BY <1>0, ObjectFacts
<1>2. CASE StampDeployment
  <2>1. StampedDeployment(obj.deployment, pw.text) \in DeploymentObject
    <3>1. pw.text \in Texts \cup {NoText}
      BY <1>2, TypeParts DEF StampDeployment, PipelineAt, Typed, RestOK
    <3> QED
      BY <1>1, <3>1 DEF StampedDeployment, DeploymentObject
  <2>2. \/ UNCHANGED obj
        \/ Write("deployment", StampedDeployment(obj.deployment, pw.text))
    BY <1>2 DEF StampDeployment
  <2>3. UNCHANGED obj \/ obj'["deployment"] \in DeploymentObject
    BY <1>0, <2>1, <2>2, WriteFacts, KindFacts
  <2> QED
    BY <1>1, <1>2, <2>3, KindFacts
<1>3. CASE ReconcileDeployment
  <2>1. Write("deployment", obj.deployment)
    BY <1>3 DEF ReconcileDeployment, UpdatedDeployment
  <2> QED
    BY <1>0, <1>1, <2>1, WriteFacts, KindFacts
<1>4. CASE Kubernetes \/ Crash
  BY <1>4, PodsKeepHash
<1>5. CASE UNCHANGED obj
  BY <1>5
<1>6. ASSUME NEW k \in {"pipeline", "cluster", "configmap"}, NEW o, Write(k, o)
      PROVE  obj'.deployment = obj.deployment
  BY <1>6, WriteElsewhere
<1>7. CASE \/ PipelineReconcile \/ RebuildClusterConfig
           \/ SetPending \/ SetApplied \/ ListFails
  BY <1>6, <1>7
     DEF PipelineReconcile, RebuildClusterConfig, SetPending, SetApplied,
         ListFails, SetStatus
<1>8. CASE ClusterReconcile \/ ReconcileConfigMap \/ ReconcileStatus
  <2>1. CASE UNCHANGED obj
    BY <2>1
  <2>2. CASE Write("configmap", NoText)
    BY <1>6, <2>2
  <2>3. CASE ReconcileStatus
    BY <1>6, <2>3 DEF ReconcileStatus
  <2> QED
    BY <1>8, <2>1, <2>2, <2>3 DEF ClusterReconcile, ReconcileConfigMap
<1>9. CASE CreateCluster \/ \E t \in Texts : EditPipeline(t)
  BY <1>6, <1>9 DEF CreateCluster, EditPipeline, Edit
<1>10. CASE PipelineCallFails \/ ClusterCallFails \/ Restart
  BY <1>10 DEF PipelineCallFails, ClusterCallFails, Restart, Faulty
<1> QED
  BY <1>2, <1>3, <1>4, <1>5, <1>7, <1>8, <1>9, <1>10
     DEF Next, PipelineController, ClusterController

-----------------------------------------------------------------------------
(***************************************************************************)
(* At rest.  HealthFollowsStatus is about a moment at which nothing is     *)
(* queued; the invariant says what each place of the worker already        *)
(* guarantees as long as no request has come since.                        *)
(***************************************************************************)
\* What the worker has read is what there is.
Reading ==
    /\ pw.pc # "idle" => pw.obj = obj.pipeline
    /\ pw.pc = "Pending" => obj.cluster = Absent
    /\ pw.pc \in {"stamp", "Applied"} =>
         obj.configmap = obj.pipeline.text /\ pw.text = obj.pipeline.text
    /\ pw.pc = "Applied" => obj.deployment.hash = obj.pipeline.text

\* What it has left behind.
Resting ==
    pw.pc = "idle" =>
      /\ obj.pipeline.observed = obj.pipeline.generation
      /\ obj.cluster # Absent =>
           /\ obj.pipeline.phase = "Applied"
           /\ \A i \in inspected :
                /\ i.status = obj.cluster.status
                /\ obj.pipeline.healthy = {i.found}
           /\ obj.deployment # Absent
           /\ obj.deployment.hash = obj.pipeline.text

AtRest == ~pq => Reading /\ Resting

\* A reconcile that ends without an error and without a write has found that
\* the status says already what it is to say.
LEMMA SetStatusQuiet ==
    ASSUME Typed, AtRest, pw.pc # "idle", NEW healthy, SetStatus(healthy), ~pq'
    PROVE  /\ ~pq /\ UNCHANGED obj /\ pw' = Idle
           /\ pw.obj.phase = pw.pc /\ pw.obj.observed = pw.obj.generation
           /\ pw.obj.healthy = healthy
<1> DEFINE o == [pw.obj EXCEPT !.phase = pw.pc, !.healthy = healthy,
                               !.observed = pw.obj.generation]
<1>1. ~Notify(TRUE, cq)
  BY NotifyQuiet
<1>2. /\ Notify(pq, cq) /\ pw' = Idle
      /\ \/ o = pw.obj /\ UNCHANGED obj
         \/ o # pw.obj /\ obj.pipeline = pw.obj /\ Write("pipeline", o)
  BY <1>1 DEF SetStatus, PipelineReturn, PipelineReturnErr
<1>3. ~pq /\ obj'.pipeline = obj.pipeline
  BY <1>2, NotifyQuiet
<1>4. pw.obj \in PipelineObject
  BY TypeParts DEF Typed, RestOK
<1>5. /\ o.phase = pw.pc /\ o.observed = pw.obj.generation
      /\ o.healthy = healthy
  BY <1>4 DEF PipelineObject
<1>6. ~(o # pw.obj /\ obj.pipeline = pw.obj /\ Write("pipeline", o))
  <2>1. Write("pipeline", o) => obj'["pipeline"] = o
    BY KindFacts, TypeParts DEF Typed, ObjectsOK, Write
  <2> QED
    BY <1>3, <2>1
<1> HIDE DEF o
<1> QED
  BY <1>2, <1>3, <1>5, <1>6

\* The invariant holds initially.
LEMMA AtRestInit == Init => AtRest
  BY DEF Init, AtRest

\* Steps of the others that leave no request.
LEMMA AtRestOthers ==
    ASSUME Typed, AtRest, Next, ~PipelineController, ~ListFails
    PROVE  AtRest'
<1> SUFFICES ASSUME ~pq' PROVE (Reading /\ Resting)'
  BY DEF AtRest
<1>1. /\ obj'.pipeline = obj.pipeline /\ obj'.cluster = obj.cluster
      /\ obj'.configmap = obj.configmap
      /\ ~pq /\ UNCHANGED <<pw, inspected>>
  BY Unwoken
<1>2. Reading /\ Resting
  BY <1>1 DEF AtRest
<1>3. obj.deployment # Absent =>
        /\ obj'.deployment # Absent
        /\ obj'.deployment.hash = obj.deployment.hash
  BY HashKept DEF PipelineController
<1>4. Reading'
  BY <1>1, <1>2, <1>3 DEF Reading, Typed, InOrder
<1>5. Resting'
  BY <1>1, <1>2, <1>3 DEF Resting
<1> QED
  BY <1>4, <1>5

LEMMA AtRestStep == Typed /\ AtRest /\ [Next]_vars => AtRest'
<1>1. Typed /\ AtRest /\ UNCHANGED vars => AtRest'
  BY DEF vars, AtRest, Reading, Resting
<1> SUFFICES ASSUME Typed, AtRest, PipelineController \/ ListFails, ~pq'
             PROVE  (Reading /\ Resting)'
  BY <1>1, AtRestOthers DEF AtRest
<1>2. /\ obj'.pipeline = obj.pipeline /\ obj'.cluster = obj.cluster
      /\ obj'.configmap = obj.configmap
  BY Unwoken DEF Next
<1>3. ~Notify(TRUE, cq) /\ (Notify(pq, cq) => ~pq)
  BY NotifyQuiet
<1>4. CASE PipelineReconcile
  <2>1. pw' = [pc |-> "rebuild", obj |-> obj.pipeline, text |-> NoText]
    BY <1>4 DEF PipelineReconcile
  <2> QED
    BY <1>2, <2>1 DEF Reading, Resting
<1>5. CASE RebuildClusterConfig
  <2>1. /\ pw.pc = "rebuild" /\ Notify(pq, cq)
        /\ \/ /\ obj.cluster = Absent /\ UNCHANGED obj
              /\ pw' = [pw EXCEPT !.pc = "Pending"]
           \/ /\ Write("configmap", obj.pipeline.text)
              /\ pw' = [pw EXCEPT !.pc = "stamp", !.text = obj.pipeline.text]
    BY <1>3, <1>5 DEF RebuildClusterConfig, PipelineAt, PipelineReturnErr
  <2>2. pw.obj = obj.pipeline
    BY <1>3, <2>1 DEF AtRest, Reading
  <2>3. /\ pw'.obj = pw.obj
        /\ \/ obj.cluster = Absent /\ pw'.pc = "Pending"
           \/ /\ Write("configmap", obj.pipeline.text)
              /\ pw'.pc = "stamp" /\ pw'.text = obj.pipeline.text
    BY <2>1, TypeParts DEF Typed, RestOK
  <2>4. Write("configmap", obj.pipeline.text)
          => obj'["configmap"] = obj.pipeline.text
    BY KindFacts, TypeParts DEF Typed, ObjectsOK, Write
  <2> QED
    BY <1>2, <2>2, <2>3, <2>4 DEF Reading, Resting
<1>6. CASE StampDeployment
  <2>1. /\ pw.pc = "stamp" /\ obj.deployment # Absent
        /\ Write("deployment", StampedDeployment(obj.deployment, pw.text))
        /\ pw' = [pw EXCEPT !.pc = "Applied"] /\ Notify(pq, cq)
    BY <1>3, <1>6 DEF StampDeployment, PipelineAt, PipelineReturnErr
  <2>2. Reading /\ obj.deployment \in DeploymentObject
    BY <1>3, <2>1, TypeParts, ObjectFacts DEF AtRest, Typed
  <2>3. StampedDeployment(obj.deployment, pw.text).hash = pw.text
    BY <2>2 DEF StampedDeployment, DeploymentObject
  <2>4. obj'["deployment"].hash = pw.text
    BY <2>1, <2>3, KindFacts, TypeParts DEF Typed, ObjectsOK, Write
  <2>5. pw'.pc = "Applied" /\ pw'.obj = pw.obj /\ pw'.text = pw.text
    BY <2>1, TypeParts DEF Typed, RestOK
  <2> QED
    BY <1>2, <2>1, <2>2, <2>4, <2>5 DEF Reading, Resting
<1>7. CASE SetPending \/ SetApplied \/ ListFails
  <2>1. pw.pc \in {"Pending", "Applied"}
    BY <1>7 DEF SetPending, SetApplied, ListFails, PipelineAt
  <2>2. PICK healthy :
          /\ SetStatus(healthy)
          /\ pw.pc = "Applied" => \A i \in inspected' :
               i.status = obj.cluster.status /\ healthy = {i.found}
    <3>1. CASE SetPending \/ ListFails
      BY <3>1 DEF SetPending, ListFails, PipelineAt
    <3>2. CASE SetApplied
      <4>1. PICK c : /\ SetStatus({c})
                     /\ inspected' = {[status |-> obj.cluster.status,
                                       found |-> c]}
        BY <3>2 DEF SetApplied
      <4> QED
        BY <4>1
    <3> QED
      BY <1>7, <3>1, <3>2
  <2>3. /\ ~pq /\ UNCHANGED obj /\ pw' = Idle
        /\ pw.obj.phase = pw.pc /\ pw.obj.observed = pw.obj.generation
        /\ pw.obj.healthy = healthy
    BY <2>1, <2>2, SetStatusQuiet
  <2>4. Reading
    BY <2>3 DEF AtRest
  <2>5. pw.pc = "Applied" => obj.deployment # Absent
    BY DEF Typed, InOrder
  <2> QED
    BY <2>1, <2>2, <2>3, <2>4, <2>5 DEF Reading, Resting, Idle
<1> QED
  BY <1>4, <1>5, <1>6, <1>7 DEF PipelineController

LEMMA AtRestAlways == Spec => []AtRest
  BY AtRestInit, AtRestStep, TypedAlways, PTL DEF Spec

\* Every instance: when nothing is left to do, the last inspection of the pods
\* has seen the last status of the cluster, and the Healthy condition is what it
\* found, unless the pods could not be listed then.  No other failed call, no
\* restart and no lost race between the two controllers makes the watch on
\* clusters insufficient.
THEOREM HealthIsCurrent == Spec => []HealthFollowsStatus
<1>1. AtRest => HealthFollowsStatus
  BY DEF AtRest, Resting, HealthFollowsStatus, Settled, Applied
<1> QED
  BY <1>1, AtRestAlways, PTL

-----------------------------------------------------------------------------
(***************************************************************************)
(* What the pods run with.  They start at any moment, with the text that   *)
(* is in the ConfigMap then and the hash that is in the template then, so  *)
(* the invariant relates hash and text both in the objects and in the pods.*)
(* It holds up to the first edit: until then every hash and every text is  *)
(* the placeholder or the first text, so the new one is new to all of them.*)
(***************************************************************************)
Text       == obj.pipeline.text
Generation == obj.pipeline.generation

\* What the worker holds.
Held ==
    /\ Generation >= 1
    /\ pw.pc # "idle" =>
         1 <= pw.obj.generation /\ pw.obj.generation <= Generation
    /\ pw.pc \in {"stamp", "Applied"} =>
         obj.configmap = pw.text /\ (Generation = 1 => pw.text = Text)

\* Before the first edit.
Unedited ==
    Generation = 1 =>
      /\ obj.configmap \in {Absent, NoText, Text}
      /\ obj.deployment # Absent => obj.deployment.hash \in {NoText, Text}
      /\ pods.runs \subseteq {NoText, Text}

\* What has the hash of the text has the text.
Hashed ==
    Generation <= 2 =>
      /\ obj.deployment # Absent /\ obj.deployment.hash = Text
           => obj.configmap = Text
      /\ Text \in pods.runs => pods.text = Text

TextInv == Held /\ Unedited /\ Hashed

\* The invariant holds initially.
LEMMA TextInit == Init => TextInv
<1> SUFFICES ASSUME Init PROVE TextInv
  OBVIOUS
<1>1. /\ Generation = 1 /\ Text \in Texts
      /\ obj.configmap = Absent /\ obj.deployment = Absent
  BY DEF Init, Generation, Text
<1>2. pw.pc = "idle" /\ pods.runs = {}
  BY DEF Init, Idle
<1> QED
  BY <1>1, <1>2 DEF TextInv, Held, Unedited, Hashed

\* Steps that touch neither texts nor hashes.
TextsKept ==
    /\ obj'.pipeline.text = obj.pipeline.text
    /\ obj'.pipeline.generation = obj.pipeline.generation
    /\ obj'.configmap = obj.configmap
    /\ obj'.deployment # Absent =>
         /\ obj.deployment # Absent
         /\ obj'.deployment.hash = obj.deployment.hash
    /\ pods'.runs = pods.runs /\ pods'.text = pods.text

LEMMA TextKept ==
    ASSUME Typed, TextInv, TextsKept,
           \/ pw'.pc = "idle"
           \/ UNCHANGED pw
           \/ /\ pw'.pc \in {"rebuild", "Pending"}
              /\ pw'.obj = obj.pipeline \/ (pw'.obj = pw.obj /\ pw.pc # "idle")
    PROVE  TextInv'
<1>1. Text' = Text /\ Generation' = Generation
  BY DEF TextsKept, Text, Generation
<1>2. Held'
  <2>1. Generation \in Nat
    BY TypeParts, ObjectFacts DEF Typed, InOrder, Generation, PipelineObject
  <2>2. CASE pw'.pc = "idle" \/ UNCHANGED pw
    BY <1>1, <2>2 DEF TextInv, TextsKept, Held
  <2>3. CASE /\ pw'.pc \in {"rebuild", "Pending"}
             /\ pw'.obj = obj.pipeline \/ (pw'.obj = pw.obj /\ pw.pc # "idle")
    BY <1>1, <2>1, <2>3 DEF TextInv, Held, Text, Generation
  <2> QED
    BY <2>2, <2>3
<1>3. Unedited' /\ Hashed'
  BY <1>1 DEF TextInv, TextsKept, Unedited, Hashed
<1> QED
  BY <1>2, <1>3 DEF TextInv

\* The steps that write a text or a hash.
LEMMA TextPipelineController ==
    Typed /\ TextInv /\ (PipelineController \/ ListFails) => TextInv'
<1> SUFFICES ASSUME Typed, TextInv, PipelineController \/ ListFails
             PROVE  TextInv'
  OBVIOUS
<1>0. /\ ObjectsOK /\ RestOK /\ obj.pipeline \in PipelineObject
      /\ Generation \in Nat /\ Text \in Texts
  BY TypeParts, ObjectFacts
     DEF Typed, InOrder, Generation, Text, PipelineObject
<1>1. CASE PipelineReconcile
  BY <1>1, TextKept DEF PipelineReconcile, PipelineAt, TextsKept
<1>2. CASE RebuildClusterConfig
  <2>0. pw.pc = "rebuild" /\ UNCHANGED pods
    BY <1>2 DEF RebuildClusterConfig, PipelineAt
  <2>1. CASE UNCHANGED obj /\ pw' = Idle
    BY <2>0, <2>1, TextKept DEF TextsKept, Idle
  <2>2. CASE UNCHANGED obj /\ pw' = [pw EXCEPT !.pc = "Pending"]
    <3>1. pw'.pc = "Pending" /\ pw'.obj = pw.obj
      BY <1>0, <2>2 DEF RestOK
    <3> QED
      BY <2>0, <2>2, <3>1, TextKept DEF TextsKept
  <2>3. CASE /\ obj.configmap # Absent /\ Write("configmap", obj.pipeline.text)
             /\ pw' = [pw EXCEPT !.pc = "stamp", !.text = obj.pipeline.text]
    <3>1. /\ obj'["configmap"] = obj.pipeline.text
          /\ \A j \in Kinds \ {"configmap"} : obj'[j] = obj[j]
      BY <1>0, <2>3, WriteFacts, KindFacts DEF PipelineObject
    <3>2. /\ obj'.pipeline = obj.pipeline /\ obj'.deployment = obj.deployment
          /\ obj'.configmap = Text
      BY <3>1, KindFacts DEF Text
    <3>3. Text' = Text /\ Generation' = Generation
      BY <3>2 DEF Text, Generation
    <3>4. pw'.pc = "stamp" /\ pw'.obj = pw.obj /\ pw'.text = Text
      BY <1>0, <2>3 DEF RestOK, Text
    <3>5. Held'
      BY <2>0, <3>2, <3>3, <3>4 DEF TextInv, Held
    <3> QED
      BY <2>0, <3>2, <3>3, <3>5 DEF TextInv, Unedited, Hashed
  <2> QED
    BY <1>2, <2>1, <2>2, <2>3 DEF RebuildClusterConfig, PipelineReturnErr
<1>3. CASE StampDeployment
  <2> DEFINE new == StampedDeployment(obj.deployment, pw.text)
  <2>0. pw.pc = "stamp" /\ pw.text \in Texts \cup {NoText} /\ UNCHANGED pods
    BY <1>0, <1>3 DEF StampDeployment, PipelineAt, RestOK
  <2>1. CASE UNCHANGED obj /\ pw' = Idle
    BY <2>0, <2>1, TextKept DEF TextsKept, Idle
  <2>2. CASE /\ obj.deployment # Absent /\ Write("deployment", new)
             /\ pw' = [pw EXCEPT !.pc = "Applied"]
    <3>1. new \in DeploymentObject /\ new.hash = pw.text
      BY <1>0, <2>0, <2>2, ObjectFacts
         DEF StampedDeployment, DeploymentObject
    <3> HIDE DEF new
    <3>2. /\ obj'["deployment"] = new
          /\ \A j \in Kinds \ {"deployment"} : obj'[j] = obj[j]
      BY <1>0, <2>2, <3>1, WriteFacts, KindFacts
    <3>3. /\ obj'.pipeline = obj.pipeline /\ obj'.configmap = obj.configmap
          /\ obj'.deployment.hash = pw.text
      BY <3>1, <3>2, KindFacts
    <3>4. pw'.pc = "Applied" /\ pw'.obj = pw.obj /\ pw'.text = pw.text
      BY <1>0, <2>2 DEF RestOK
    <3>5. Text' = Text /\ Generation' = Generation
      BY <3>3 DEF Text, Generation
    <3>6. Held'
      BY <2>0, <3>3, <3>4, <3>5 DEF TextInv, Held
    <3>7. Unedited'
      <4>1. Generation = 1 => pw.text = Text
        BY <2>0 DEF TextInv, Held
      <4> QED
        BY <2>0, <3>3, <3>5, <4>1 DEF TextInv, Unedited
    <3> QED
      BY <2>0, <3>3, <3>5, <3>6, <3>7 DEF TextInv, Held, Hashed
  <2> QED
    BY <1>3, <2>1, <2>2 DEF StampDeployment, PipelineReturnErr
<1>4. CASE SetPending \/ SetApplied \/ ListFails
  <2>1. /\ pw.pc \in {"Pending", "Applied"} /\ UNCHANGED pods
        /\ \E healthy : SetStatus(healthy)
    BY <1>4 DEF SetPending, SetApplied, ListFails, PipelineAt
  <2>2. PICK healthy : SetStatus(healthy)
    BY <2>1
  <2> DEFINE o == [pw.obj EXCEPT !.phase = pw.pc, !.healthy = healthy,
                                 !.observed = pw.obj.generation]
  <2>3. o.text = pw.obj.text /\ o.generation = pw.obj.generation
    BY <1>0, <2>1 DEF RestOK, PipelineObject
  <2> HIDE DEF o
  <2>4. /\ pw' = Idle
        /\ UNCHANGED obj \/ (obj.pipeline = pw.obj /\ Write("pipeline", o))
    BY <2>2 DEF SetStatus, PipelineReturn, PipelineReturnErr, o
  <2>5. TextsKept
    <3>1. Write("pipeline", o) =>
            /\ obj'["pipeline"] = o
            /\ obj'.configmap = obj.configmap
            /\ obj'.deployment = obj.deployment
      BY <1>0, WriteElsewhere, KindFacts DEF Write, ObjectsOK
    <3> QED
      BY <2>1, <2>3, <2>4, <3>1 DEF TextsKept
  <2> QED
    BY <2>4, <2>5, TextKept DEF Idle
<1> QED
  BY <1>1, <1>2, <1>3, <1>4 DEF PipelineController

\* A user.  The text of the first edit is not that of any hash.
LEMMA TextEdit ==
    ASSUME Typed, TextInv, NEW t \in Texts, EditPipeline(t)
    PROVE  TextInv'
<1> DEFINE new == [obj.pipeline EXCEPT !.text = t, !.generation = @ + 1]
<1>0. /\ ObjectsOK /\ RestOK /\ obj.pipeline \in PipelineObject
      /\ Generation \in Nat
  BY TypeParts, ObjectFacts DEF Typed, InOrder, Generation, PipelineObject
<1>1. new.text = t /\ new.generation = Generation + 1
  BY <1>0 DEF PipelineObject, Generation
<1>2. /\ t # Text /\ Write("pipeline", new) /\ UNCHANGED <<pw, pods>>
  BY DEF EditPipeline, Edit, Text
<1> HIDE DEF new
<1>3. /\ obj'["pipeline"] = new
      /\ obj'.configmap = obj.configmap /\ obj'.deployment = obj.deployment
  BY <1>0, <1>2, WriteElsewhere, KindFacts DEF Write, ObjectsOK
<1>4. Text' = t /\ Generation' = Generation + 1
  BY <1>1, <1>3 DEF Text, Generation
<1>5. Held'
  <2>1. pw.pc # "idle" => pw.obj.generation \in Nat
    BY <1>0 DEF RestOK, PipelineObject
  <2> QED
    BY <1>0, <1>2, <1>3, <1>4, <2>1 DEF TextInv, Held
<1>6. Unedited' /\ Hashed'
  <2>1. Generation >= 1 /\ Generation' >= 2 /\ (Generation' <= 2 => Generation = 1)
    BY <1>0, <1>4 DEF TextInv, Held
  <2>2. t # NoText
    BY HealthAssumption
  <2>3. Generation = 1 =>
          /\ obj.deployment # Absent => obj.deployment.hash # t
          /\ t \notin pods.runs
    BY <1>2, <2>2 DEF TextInv, Unedited
  <2>4. Hashed'
    BY <1>2, <1>3, <1>4, <2>1, <2>3 DEF Hashed
  <2>5. Unedited'
    BY <1>0, <1>4, <2>1 DEF Unedited
  <2> QED
    BY <2>4, <2>5
<1> QED
  BY <1>5, <1>6 DEF TextInv

\* The cluster controller puts a placeholder where there is nothing.
LEMMA TextClusterController ==
    Typed /\ TextInv /\ (ClusterController \/ CreateCluster) => TextInv'
<1> SUFFICES ASSUME Typed, TextInv, ClusterController \/ CreateCluster
             PROVE  TextInv'
  OBVIOUS
<1>0. ObjectsOK /\ UNCHANGED <<pw, pods>>
  BY TypeParts
     DEF Typed, ClusterController, ClusterReconcile, ReconcileConfigMap,
         ReconcileDeployment, ReconcileStatus, ClusterAt, CreateCluster, Edit
<1>1. CASE UNCHANGED obj
  BY <1>0, <1>1, TextKept DEF TextsKept
<1>2. ASSUME NEW o, Write("cluster", o) PROVE TextInv'
  BY <1>0, <1>2, WriteElsewhere, TextKept DEF TextsKept
<1>3. CASE obj.configmap = Absent /\ Write("configmap", NoText)
  <2>1. /\ obj'["configmap"] = NoText /\ obj'.pipeline = obj.pipeline
        /\ obj'.deployment = obj.deployment
    BY <1>0, <1>3, WriteElsewhere, KindFacts DEF Write, ObjectsOK
  <2>2. obj.deployment = Absent /\ pw.pc \notin {"stamp", "Applied"}
    BY <1>3 DEF Typed, InOrder
  <2>3. Text' = Text /\ Generation' = Generation
    BY <2>1 DEF Text, Generation
  <2> QED
    BY <1>0, <2>1, <2>2, <2>3 DEF TextInv, Held, Unedited, Hashed
<1>4. CASE ReconcileDeployment
  <2>1. CASE obj.deployment # Absent
    <3>1. obj'.deployment.hash = obj.deployment.hash
      <4>1. obj'["deployment"] = obj.deployment
        BY <1>0, <1>4, <2>1, KindFacts
           DEF ReconcileDeployment, UpdatedDeployment, Write, ObjectsOK
      <4> QED
        BY <4>1
    <3>2. /\ obj'.pipeline = obj.pipeline /\ obj'.configmap = obj.configmap
      BY <1>4, WriteElsewhere DEF ReconcileDeployment
    <3> QED
      BY <1>0, <2>1, <3>1, <3>2, TextKept DEF TextsKept
  <2>2. CASE obj.deployment = Absent
    <3>1. obj'["deployment"].hash = NoText
      BY <1>0, <1>4, <2>2, KindFacts
         DEF ReconcileDeployment, Write, ObjectsOK
    <3>2. /\ obj'.pipeline = obj.pipeline /\ obj'.configmap = obj.configmap
      BY <1>4, WriteElsewhere DEF ReconcileDeployment
    <3>3. Text' = Text /\ Generation' = Generation
      BY <3>2 DEF Text, Generation
    <3>4. Text # NoText
      <4>1. obj.pipeline \in PipelineObject
        BY <1>0, ObjectFacts DEF Typed, InOrder
      <4> QED
        BY <4>1, HealthAssumption DEF Text, PipelineObject
    <3> QED
      BY <1>0, <3>1, <3>2, <3>3, <3>4 DEF TextInv, Held, Unedited, Hashed
  <2> QED
    BY <2>1, <2>2
<1>5. CASE CreateCluster \/ ReconcileStatus
  BY <1>2, <1>5 DEF CreateCluster, Edit, ReconcileStatus
<1>6. CASE ClusterReconcile \/ ReconcileConfigMap
  BY <1>1, <1>3, <1>6 DEF ClusterReconcile, ReconcileConfigMap
<1> QED
  BY <1>4, <1>5, <1>6 DEF ClusterController

\* Pods start with the text and the hash of the moment.
LEMMA TextKubernetes ==
    Typed /\ TextInv /\ (Kubernetes \/ Crash) => TextInv'
<1> SUFFICES ASSUME Typed, TextInv, Kubernetes \/ Crash PROVE TextInv'
  OBVIOUS
<1>1. CASE PodsStarted
  <2>1. /\ UNCHANGED <<obj, pw>>
        /\ pods' = [runs |-> {obj.deployment.hash}, text |-> obj.configmap,
                    up |-> FALSE]
    BY <1>1 DEF PodsStarted, Elsewhere
  <2>2. obj.deployment # Absent
    <3>1. Replicas + 1 \in Coming
      BY HealthAssumption DEF Coming
    <3>2. DOMAIN list # {}
      BY <1>1, <3>1 DEF PodsStarted
    <3> QED
      BY <3>2 DEF Typed, InOrder
  <2>3. Text' = Text /\ Generation' = Generation
    BY <2>1 DEF Text, Generation
  <2> QED
    BY <2>1, <2>2, <2>3 DEF TextInv, Held, Unedited, Hashed
<1>2. CASE ~PodsStarted
  <2>1. pods'.runs = pods.runs /\ pods'.text = pods.text
    <3>1. UNCHANGED pods \/ \E u \in BOOLEAN : pods' = [pods EXCEPT !.up = u]
      BY <1>2 DEF Kubernetes, Crash, PodsCreated, Scheduled, Recover, PodsUp,
                  TakeOver, Terminated, PodsDown
    <3> QED
      BY <3>1, TypeParts DEF Typed, RestOK
  <2>2. /\ UNCHANGED pw
        /\ \/ UNCHANGED obj
           \/ /\ obj.deployment # Absent
              /\ \E new \in DeploymentObject : Write("deployment", new)
    BY PodsWrite
  <2>3. /\ obj'.pipeline = obj.pipeline /\ obj'.configmap = obj.configmap
    BY <2>2, WriteElsewhere
  <2>4. obj'.deployment # Absent =>
          /\ obj.deployment # Absent
          /\ obj'.deployment.hash = obj.deployment.hash
    <3>1. CASE UNCHANGED obj
      BY <3>1
    <3>2. CASE obj.deployment # Absent
      BY <3>2, PodsKeepHash
    <3> QED
      BY <2>2, <3>1, <3>2
  <2> QED
    BY <2>1, <2>2, <2>3, <2>4, TextKept DEF TextsKept
<1> QED
  BY <1>1, <1>2

LEMMA TextStep == Typed /\ TextInv /\ [Next]_vars => TextInv'
<1>1. Typed /\ TextInv /\ UNCHANGED <<obj, pw, pods>> => TextInv'
  BY TextKept DEF TextsKept
<1>2. Typed /\ TextInv /\ (PipelineCallFails \/ ClusterCallFails \/ Restart)
        => TextInv'
  <2> SUFFICES ASSUME Typed, TextInv,
                      PipelineCallFails \/ ClusterCallFails \/ Restart
               PROVE  TextInv'
    OBVIOUS
  <2>1. UNCHANGED <<obj, pods>> /\ (UNCHANGED pw \/ pw' = Idle)
    BY DEF PipelineCallFails, ClusterCallFails, Restart, Faulty,
           PipelineReturnErr
  <2> QED
    BY <2>1, TextKept DEF TextsKept, Idle
<1> QED
  BY <1>1, <1>2, TextPipelineController, TextClusterController, TextEdit,
     TextKubernetes DEF Next, vars

LEMMA TextAlways == Spec => []TextInv
  BY TextInit, TextStep, TypedAlways, PTL DEF Spec

\* Every instance: when nothing is left to do, a pipeline with a cluster is
\* Applied for its current generation, and up to the first edit all pods run
\* with its text, whenever they have started.
THEOREM UpdatesReachPods == Spec => []SettledApplied
<1>1. Typed /\ AtRest /\ TextInv => SettledApplied
  <2> SUFFICES ASSUME Typed, AtRest, TextInv, Settled, obj.cluster # Absent
               PROVE  /\ Applied
                      /\ obj.pipeline.observed = obj.pipeline.generation
                      /\ obj.pipeline.generation <= 2
                           => pods.text = obj.pipeline.text
    BY DEF SettledApplied
  <2>1. /\ obj.pipeline.observed = obj.pipeline.generation
        /\ obj.pipeline.phase = "Applied"
        /\ obj.deployment # Absent /\ obj.deployment.hash = obj.pipeline.text
    BY DEF AtRest, Resting, Settled
  <2>2. obj.pipeline.text \in pods.runs
    BY <2>1 DEF Settled, PodsMatch
  <2> QED
    BY <2>1, <2>2 DEF TextInv, Hashed, Text, Generation, Applied
<1> QED
  BY <1>1, TypedAlways, AtRestAlways, TextAlways, PTL

=============================================================================
