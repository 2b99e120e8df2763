--------------------------- MODULE LifecycleProofs ---------------------------
(***************************************************************************)
(* The finalizer protocol of the pipeline controller, for all values of    *)
(* the constants: what an Applied status implies, and that the whole       *)
(* system implements PipelineLifecycle.                                    *)
(***************************************************************************)
EXTENDS PipelineOperatorProofs

(***************************************************************************)
(* The inductive invariant.  AppliedHasFinalizer alone is not inductive:   *)
(* what the worker writes back is the object it has read, so its copy must *)
(* be as good as the versions, and the place the worker has reached must   *)
(* say which branch of Reconcile the copy has taken.                       *)
(***************************************************************************)
WorkerInv ==
    /\ pw.pc = "addFinalizer" => ~pw.obj.finalizer /\ ~pw.obj.deleting
    /\ pw.pc \in {"rebuild", "stamp"} => pw.obj.finalizer
    /\ pw.pc = "removeFinalizer" => pw.obj.finalizer /\ pw.obj.deleting
    /\ pw.pc \in {"Pending", "Applied"} => pw.obj.finalizer /\ ~pw.obj.deleting
    /\ pw.pc # "idle" /\ pw.obj.phase = "Applied" => pw.obj.finalizer

ProtocolInv == AppliedHasFinalizer /\ WorkerInv

\* A write of an object that is not Applied without a finalizer.
LEMMA AppliedWrite ==
    ASSUME TypeOK, AppliedHasFinalizer, NEW p \in Pipelines,
           NEW o \in PipelineObject \cup {Absent},
           o # Absent /\ o.phase = "Applied" => o.finalizer,
           SetPipeline(p, o)
    PROVE  AppliedHasFinalizer'
<1> DEFINE new == [Actual(plv) EXCEPT ![p] = o]
<1>1. Versions(plv') \subseteq Versions(plv) \cup {new}
  BY PipelineWrite DEF TypeOK
<1>2. Actual(plv) \in Versions(plv) /\ Actual(plv) \in PipelineStore
  BY HistoryFacts DEF TypeOK
<1>3. \A q \in Pipelines : new[q] = IF q = p THEN o ELSE Actual(plv)[q]
  BY <1>2 DEF PipelineStore
<1>4. \A q \in Pipelines :
        new[q] # Absent /\ new[q].phase = "Applied" => new[q].finalizer
  BY <1>2, <1>3 DEF AppliedHasFinalizer
<1> QED
  BY <1>1, <1>4 DEF AppliedHasFinalizer

\* Fewer versions.
LEMMA AppliedRead ==
    ASSUME AppliedHasFinalizer, Versions(plv') \subseteq Versions(plv)
    PROVE  AppliedHasFinalizer'
  BY DEF AppliedHasFinalizer

\* A reconcile that has ended makes no claim about an object.
LEMMA WorkerRests ==
    ASSUME PipelineReturn \/ PipelineReturnErr
    PROVE  WorkerInv'
  BY DEF PipelineReturn, PipelineReturnErr, PipelineIdle, WorkerInv

\* The invariant holds initially.
LEMMA ProtocolInit == Init => ProtocolInv
<1> SUFFICES ASSUME Init PROVE ProtocolInv
  OBVIOUS
<1>1. Versions(plv) = {[p \in Pipelines |-> Absent]}
  BY DEF Init, Versions
<1>2. AppliedHasFinalizer
  BY <1>1 DEF AppliedHasFinalizer
<1>3. WorkerInv
  BY DEF Init, PipelineIdle, WorkerInv
<1> QED
  BY <1>2, <1>3 DEF ProtocolInv

\* Every call of the pipeline controller keeps the invariant.
LEMMA ProtocolPipelineController ==
    TypeOK /\ ProtocolInv /\ PipelineController => ProtocolInv'
<1> SUFFICES ASSUME TypeOK, ProtocolInv, PipelineController PROVE ProtocolInv'
  OBVIOUS
<1> USE DEF ProtocolInv
<1>1. ASSUME NEW p \in Pipelines, PipelineReconcile(p) PROVE ProtocolInv'
  <2> DEFINE o == Cached(plv)[p]
  <2>1. Cached(plv) \in Versions(plv)
    BY HistoryFacts DEF TypeOK
  <2>2. o # Absent /\ o.phase = "Applied" => o.finalizer
    BY <2>1 DEF AppliedHasFinalizer
  <2>3. WorkerInv'
    BY <1>1, <2>2
       DEF PipelineReconcile, PipelineBranch, PipelineIdle, WorkerInv
  <2>4. AppliedHasFinalizer'
    BY <1>1 DEF PipelineReconcile, stores, AppliedHasFinalizer
  <2> QED
    BY <2>3, <2>4
<1>2. CASE AddFinalizer
  <2> DEFINE o == [pw.obj EXCEPT !.finalizer = TRUE]
  <2>1. pw.name \in Pipelines /\ pw.obj \in PipelineObject
    BY <1>2 DEF AddFinalizer, TypeOK
  <2>2. o \in PipelineObject /\ o.finalizer
    BY <2>1 DEF PipelineObject
  <2>3. AppliedHasFinalizer'
    <3>1. CASE SetPipeline(pw.name, o)
      BY <2>1, <2>2, <3>1, AppliedWrite
    <3>2. CASE UNCHANGED plv
      BY <3>2, AppliedRead
    <3> QED
      BY <1>2, <3>1, <3>2 DEF AddFinalizer
  <2>4. WorkerInv'
    BY <1>2, WorkerRests DEF AddFinalizer
  <2> QED
    BY <2>3, <2>4
<1>3. CASE RebuildClusterConfig
  <2>1. AppliedHasFinalizer'
    BY <1>3, AppliedRead DEF RebuildClusterConfig
  <2>2. pw.obj.finalizer /\ pw.pc = "rebuild" /\ pw \in PipelineWorker
    BY <1>3 DEF RebuildClusterConfig, WorkerInv, TypeOK
  <2>3. \/ PipelineReturnErr
        \/ pw.obj.deleting /\ pw' = [pw EXCEPT !.pc = "removeFinalizer"]
        \/ \E x : pw' = [pw EXCEPT !.pc = "stamp", !.content = x]
    BY <1>3 DEF RebuildClusterConfig, RebuildNotFound, PipelineGoto
  <2>4. WorkerInv'
    BY <2>2, <2>3, WorkerRests DEF WorkerInv, PipelineWorker
  <2> QED
    BY <2>1, <2>4
<1>4. CASE StampDeployment
  <2>1. AppliedHasFinalizer'
    BY <1>4, AppliedRead DEF StampDeployment
  <2>2. pw.obj.finalizer /\ pw.pc = "stamp" /\ pw \in PipelineWorker
    BY <1>4 DEF StampDeployment, WorkerInv, TypeOK
  <2>3. \/ PipelineReturnErr
        \/ pw.obj.deleting /\ pw' = [pw EXCEPT !.pc = "removeFinalizer"]
        \/ ~pw.obj.deleting /\ pw' = [pw EXCEPT !.pc = "Applied"]
    BY <1>4 DEF StampDeployment, RebuildNotFound, PipelineGoto
  <2>4. WorkerInv'
    BY <2>2, <2>3, WorkerRests DEF WorkerInv, PipelineWorker
  <2> QED
    BY <2>1, <2>4
<1>5. CASE RemoveFinalizer
  <2>1. pw.name \in Pipelines
    BY <1>5 DEF RemoveFinalizer, TypeOK
  <2>2. AppliedHasFinalizer'
    <3>1. CASE SetPipeline(pw.name, Absent)
      BY <2>1, <3>1, AppliedWrite
    <3>2. CASE UNCHANGED plv
      BY <3>2, AppliedRead
    <3> QED
      BY <1>5, <3>1, <3>2 DEF RemoveFinalizer
  <2>3. WorkerInv'
    BY <1>5, WorkerRests DEF RemoveFinalizer
  <2> QED
    BY <2>2, <2>3
<1>6. CASE SetStatus
  <2> DEFINE o == [pw.obj EXCEPT !.phase = pw.pc,
                                 !.observed = pw.obj.generation]
  <2>1. pw.name \in Pipelines /\ pw.obj \in PipelineObject
    BY <1>6 DEF SetStatus, TypeOK
  <2>2. o \in PipelineObject /\ o.finalizer
    BY <1>6, <2>1 DEF SetStatus, PipelineObject, WorkerInv
  <2>3. AppliedHasFinalizer'
    <3>1. CASE SetPipeline(pw.name, o)
      BY <2>1, <2>2, <3>1, AppliedWrite
    <3>2. CASE UNCHANGED plv
      BY <3>2, AppliedRead
    <3> QED
      BY <1>6, <3>1, <3>2 DEF SetStatus
  <2>4. WorkerInv'
    BY <1>6, WorkerRests DEF SetStatus
  <2> QED
    BY <2>3, <2>4
<1> QED
  BY <1>1, <1>2, <1>3, <1>4, <1>5, <1>6 DEF PipelineController

\* Users do not touch the worker.
LEMMA UserLeavesWorker == User => UNCHANGED pw
<1> SUFFICES ASSUME User PROVE UNCHANGED pw
  OBVIOUS
<1>1. \A p \in Pipelines, c \in Clusters, k \in Keys, d \in Defs :
        CreatePipeline(p, c, k, d) => UNCHANGED pw
  BY DEF CreatePipeline
<1>2. \A p \in Pipelines, c \in Clusters, k \in Keys, d \in Defs :
        EditPipeline(p, c, k, d) => UNCHANGED pw
  BY DEF EditPipeline
<1>3. \A p \in Pipelines : DeletePipeline(p) => UNCHANGED pw
  BY DEF DeletePipeline
<1>4. \A c \in Clusters, i \in Images :
        CreateCluster(c, i) \/ EditCluster(c, i) => UNCHANGED pw
  BY DEF CreateCluster, EditCluster
<1>5. \A c \in Clusters : DeleteCluster(c) => UNCHANGED pw
  BY DEF DeleteCluster
<1>6. \A c \in Clusters, x \in Drifts : DriftConfigMap(c, x) => UNCHANGED pw
  BY DEF DriftConfigMap
<1> QED
  BY <1>1, <1>2, <1>3, <1>4, <1>5, <1>6 DEF User

\* Users keep the invariant, whatever they do to a pipeline.
LEMMA ProtocolUser == TypeOK /\ ProtocolInv /\ User => ProtocolInv'
<1> SUFFICES ASSUME TypeOK, ProtocolInv, User PROVE ProtocolInv'
  OBVIOUS
<1>0. WorkerInv'
  BY UserLeavesWorker DEF ProtocolInv, WorkerInv
<1>1. ASSUME NEW p \in Pipelines, NEW c \in Clusters, NEW k \in Keys,
             NEW d \in Defs, CreatePipeline(p, c, k, d)
      PROVE  AppliedHasFinalizer'
  <2> DEFINE o == [cluster |-> c, key |-> k, def |-> d, generation |-> 1,
                   deleting |-> FALSE, finalizer |-> FALSE, phase |-> "",
                   observed |-> 0]
  <2>1. o \in PipelineObject /\ o.phase # "Applied"
    BY DEF PipelineObject
  <2>2. SetPipeline(p, o)
    BY <1>1 DEF CreatePipeline
  <2> QED
    BY <2>1, <2>2, AppliedWrite DEF ProtocolInv
<1>2. ASSUME NEW p \in Pipelines, NEW c \in Clusters, NEW k \in Keys,
             NEW d \in Defs, EditPipeline(p, c, k, d)
      PROVE  AppliedHasFinalizer'
  <2> DEFINE old == Actual(plv)[p]
             o   == [old EXCEPT !.cluster = c, !.key = k, !.def = d,
                                !.generation = @ + 1]
  <2>1. /\ old \in PipelineObject
        /\ old.phase = "Applied" => old.finalizer
    BY <1>2, Reads, HistoryFacts
       DEF EditPipeline, PipelineStore, TypeOK, ProtocolInv, AppliedHasFinalizer
  <2>2. /\ o \in PipelineObject
        /\ o.phase = "Applied" => o.finalizer
    <3> HIDE DEF old
    <3>1. old.generation + 1 \in Nat
      <4>1. old.generation \in Nat
        BY <2>1 DEF PipelineObject
      <4> QED
        BY <4>1
    <3> QED
      BY <2>1, <3>1 DEF PipelineObject
  <2>3. SetPipeline(p, o)
    BY <1>2 DEF EditPipeline
  <2> QED
    BY <2>2, <2>3, AppliedWrite DEF ProtocolInv
<1>3. ASSUME NEW p \in Pipelines, DeletePipeline(p)
      PROVE  AppliedHasFinalizer'
  <2> DEFINE old == Actual(plv)[p]
             o   == [old EXCEPT !.deleting = TRUE, !.generation = @ + 1]
  <2>1. old \in PipelineObject
    BY <1>3, Reads DEF DeletePipeline, PipelineStore
  <2>2. /\ o \in PipelineObject
        /\ old.finalizer => o.finalizer
    <3> HIDE DEF old
    <3>1. old.generation + 1 \in Nat
      <4>1. old.generation \in Nat
        BY <2>1 DEF PipelineObject
      <4> QED
        BY <4>1
    <3> QED
      BY <2>1, <3>1 DEF PipelineObject
  <2>3. \/ old.finalizer /\ SetPipeline(p, o)
        \/ SetPipeline(p, Absent)
    BY <1>3 DEF DeletePipeline
  <2> QED
    BY <2>2, <2>3, AppliedWrite DEF ProtocolInv
<1>4. ASSUME UNCHANGED plv PROVE AppliedHasFinalizer'
  BY <1>4, AppliedRead DEF ProtocolInv
<1> QED
  BY <1>0, <1>1, <1>2, <1>3, <1>4
     DEF User, ProtocolInv, CreateCluster, EditCluster, DeleteCluster,
         DriftConfigMap

\* Every step keeps the invariant.
LEMMA ProtocolStep == TypeOK /\ ProtocolInv /\ [Next]_vars => ProtocolInv'
<1> SUFFICES ASSUME TypeOK, ProtocolInv, [Next]_vars PROVE ProtocolInv'
  OBVIOUS
<1> USE DEF ProtocolInv
<1>1. CASE Informers
  <2>1. UNCHANGED plv \/ (~Synced(plv) /\ plv' = Deliver(plv))
    BY <1>1 DEF Informers, DeliverPipelines, DeliverConfigMaps,
                DeliverClusters, DeliverDeployments
  <2>2. AppliedHasFinalizer'
    BY <2>1, AppliedRead, DeliverFacts DEF TypeOK
  <2>3. WorkerInv'
    BY <1>1 DEF Informers, DeliverPipelines, DeliverConfigMaps,
                DeliverClusters, DeliverDeployments, WorkerInv
  <2> QED
    BY <2>2, <2>3
<1>2. CASE PipelineController
  BY <1>2, ProtocolPipelineController
<1>3. CASE User
  BY <1>3, ProtocolUser
<1>4. CASE ClusterController \/ ClusterCallFails \/ Kubernetes \/ UNCHANGED vars
  <2>1. UNCHANGED <<plv, pw>>
    BY <1>4 DEF ClusterController, ClusterReconcile, ReconcileConfigMap,
                ReconcileDeployment, ReconcileStatus, ClusterCallFails,
                Kubernetes, CollectConfigMap, CollectDeployment,
                RolloutComplete, vars, stores
  <2> QED
    BY <2>1 DEF AppliedHasFinalizer, WorkerInv
<1>5. CASE PipelineCallFails
  BY <1>5, WorkerRests, AppliedRead DEF PipelineCallFails, stores
<1>6. CASE Restart
  <2>1. AppliedHasFinalizer'
    BY <1>6, AppliedRead, RelistFacts DEF Restart, TypeOK
  <2>2. WorkerInv'
    BY <1>6 DEF Restart, PipelineIdle, WorkerInv
  <2> QED
    BY <2>1, <2>2
<1> QED
  BY <1>1, <1>2, <1>3, <1>4, <1>5, <1>6 DEF Next

\* In every state and for every reader, stale ones included, a pipeline that is
\* reported as Applied carries the finalizer.
THEOREM AppliedIsGuarded == Spec => []AppliedHasFinalizer
<1>1. Spec => []ProtocolInv
  BY ProtocolInit, ProtocolStep, TypeCorrect, PTL DEF Spec
<1>2. ProtocolInv => AppliedHasFinalizer
  BY DEF ProtocolInv
<1> QED
  BY <1>1, <1>2, PTL

-----------------------------------------------------------------------------
(***************************************************************************)
(* The history of the pipelines: who writes what.                          *)
(***************************************************************************)
\* What a user can turn a pipeline into: a new one, one of the next generation
\* with the status and the finalizer it had, or none if it has no finalizer.
UserChange(old, o) ==
    \/ /\ old = Absent /\ o # Absent
       /\ ~o.deleting /\ ~o.finalizer /\ o.phase = "" /\ o.observed <= o.generation
    \/ /\ old # Absent /\ o # Absent
       /\ o.generation = old.generation + 1
       /\ o.finalizer = old.finalizer
       /\ o.deleting => old.deleting \/ old.finalizer
       /\ old.deleting => o.deleting
       /\ o.phase = old.phase /\ o.observed = old.observed
    \/ old # Absent /\ ~old.finalizer /\ o = Absent

\* What the worker can turn the pipeline into that it holds.
WorkerChange(o) ==
    \/ /\ pw.pc = "addFinalizer" /\ ~pw.obj.finalizer /\ ~pw.obj.deleting
       /\ o = [pw.obj EXCEPT !.finalizer = TRUE]
    \/ /\ pw.pc = "removeFinalizer" /\ pw.obj.finalizer /\ pw.obj.deleting
       /\ o = Absent
    \/ /\ pw.pc \in {"Pending", "Applied"} /\ pw.obj.finalizer
       /\ ~pw.obj.deleting
       /\ o = [pw.obj EXCEPT !.phase = pw.pc, !.observed = pw.obj.generation]

\* The webhook is asked about everything but deletions, which leave the key as
\* it is.
UserMay(p, old, o) ==
    /\ Fresh
    /\ \/ o = Absent
       \/ Admitted(p, o)
       \/ old # Absent /\ o.cluster = old.cluster /\ o.key = old.key

UserWrites ==
    \E p \in Pipelines, o \in PipelineObject \cup {Absent} :
      /\ SetPipeline(p, o) /\ UNCHANGED pw
      /\ UserChange(Actual(plv)[p], o) /\ UserMay(p, Actual(plv)[p], o)

WorkerWrites ==
    /\ pw.name \in Pipelines /\ pw.obj \in PipelineObject
    /\ Actual(plv)[pw.name] = pw.obj
    /\ \E o \in PipelineObject \cup {Absent} :
         SetPipeline(pw.name, o) /\ WorkerChange(o)
    /\ pw' = PipelineIdle

\* Users change a pipeline in these ways only.
LEMMA UserWritesPipelines == TypeOK /\ User => UNCHANGED plv \/ UserWrites
<1> SUFFICES ASSUME TypeOK, User PROVE UNCHANGED plv \/ UserWrites
  OBVIOUS
<1>0. \A o \in PipelineObject : o # Absent
  BY ObjectAssumption
<1>1. ASSUME NEW p \in Pipelines, NEW c \in Clusters, NEW k \in Keys,
             NEW d \in Defs, CreatePipeline(p, c, k, d)
      PROVE  UserWrites
  <2> DEFINE o == [cluster |-> c, key |-> k, def |-> d, generation |-> 1,
                   deleting |-> FALSE, finalizer |-> FALSE, phase |-> "",
                   observed |-> 0]
  <2>1. /\ o \in PipelineObject
        /\ ~o.deleting /\ ~o.finalizer /\ o.phase = ""
        /\ o.observed <= o.generation
    BY DEF PipelineObject
  <2>2. /\ Actual(plv)[p] = Absent /\ SetPipeline(p, o) /\ UNCHANGED pw
        /\ Fresh /\ Admitted(p, o)
    BY <1>1 DEF CreatePipeline, Edits
  <2> HIDE DEF o
  <2> QED
    BY <1>0, <2>1, <2>2 DEF UserWrites, UserChange, UserMay
<1>2. ASSUME NEW p \in Pipelines, NEW c \in Clusters, NEW k \in Keys,
             NEW d \in Defs, EditPipeline(p, c, k, d)
      PROVE  UserWrites
  <2> DEFINE old == Actual(plv)[p]
             o   == [old EXCEPT !.cluster = c, !.key = k, !.def = d,
                                !.generation = @ + 1]
  <2>1. old \in PipelineObject /\ old # Absent
    BY <1>2, Reads DEF EditPipeline, PipelineStore
  <2>2. SetPipeline(p, o) /\ UNCHANGED pw /\ Fresh /\ Admitted(p, o)
    BY <1>2 DEF EditPipeline, Edits
  <2>3. /\ o \in PipelineObject /\ o.generation = old.generation + 1
        /\ o.finalizer = old.finalizer /\ o.deleting = old.deleting
        /\ o.phase = old.phase /\ o.observed = old.observed
    <3> HIDE DEF old
    <3>1. old.generation + 1 \in Nat
      <4>1. old.generation \in Nat
        BY <2>1 DEF PipelineObject
      <4> QED
        BY <4>1
    <3> QED
      BY <2>1, <3>1 DEF PipelineObject
  <2> HIDE DEF o
  <2> QED
    BY <1>0, <2>1, <2>2, <2>3 DEF UserWrites, UserChange, UserMay
<1>3. ASSUME NEW p \in Pipelines, DeletePipeline(p)
      PROVE  UserWrites
  <2> DEFINE old == Actual(plv)[p]
             o   == [old EXCEPT !.deleting = TRUE, !.generation = @ + 1]
  <2>1. old \in PipelineObject /\ old # Absent
    BY <1>3, Reads DEF DeletePipeline, PipelineStore
  <2>2. /\ SetPipeline(p, IF old.finalizer THEN o ELSE Absent)
        /\ UNCHANGED pw /\ Fresh
    BY <1>3 DEF DeletePipeline, Edits
  <2>3. /\ o \in PipelineObject /\ o.generation = old.generation + 1
        /\ o.finalizer = old.finalizer /\ o.deleting
        /\ o.phase = old.phase /\ o.observed = old.observed
        /\ o.cluster = old.cluster /\ o.key = old.key
    <3> HIDE DEF old
    <3>1. old.generation + 1 \in Nat
      <4>1. old.generation \in Nat
        BY <2>1 DEF PipelineObject
      <4> QED
        BY <4>1
    <3> QED
      BY <2>1, <3>1 DEF PipelineObject
  <2> HIDE DEF o
  <2> QED
    BY <1>0, <2>1, <2>2, <2>3 DEF UserWrites, UserChange, UserMay
<1>4. \/ UNCHANGED plv
      \/ \E p \in Pipelines, c \in Clusters, k \in Keys, d \in Defs :
           CreatePipeline(p, c, k, d) \/ EditPipeline(p, c, k, d)
      \/ \E p \in Pipelines : DeletePipeline(p)
  BY DEF User, CreateCluster, EditCluster, DeleteCluster, DriftConfigMap
<1> QED
  BY <1>1, <1>2, <1>3, <1>4

\* The worker changes the pipeline it holds, as it holds it, and rests.
LEMMA WorkerWritesPipelines ==
    TypeOK /\ ProtocolInv /\ PipelineController => UNCHANGED plv \/ WorkerWrites
<1> SUFFICES ASSUME TypeOK, ProtocolInv, PipelineController, ~UNCHANGED plv
             PROVE  WorkerWrites
  OBVIOUS
<1>1. AddFinalizer \/ RemoveFinalizer \/ SetStatus
  BY DEF PipelineController, PipelineReconcile, RebuildClusterConfig,
         StampDeployment, stores
<1>2. /\ pw.pc # "idle" /\ pw.name \in Pipelines /\ pw.obj \in PipelineObject
      /\ Actual(plv)[pw.name] = pw.obj /\ pw' = PipelineIdle
  BY <1>1 DEF AddFinalizer, RemoveFinalizer, SetStatus, PipelineReturn, TypeOK
<1>3. CASE AddFinalizer
  <2> DEFINE o == [pw.obj EXCEPT !.finalizer = TRUE]
  <2>1. o \in PipelineObject /\ SetPipeline(pw.name, o) /\ WorkerChange(o)
    BY <1>2, <1>3
       DEF AddFinalizer, PipelineObject, WorkerChange, ProtocolInv, WorkerInv
  <2> HIDE DEF o
  <2> QED
    BY <1>2, <2>1 DEF WorkerWrites
<1>4. CASE RemoveFinalizer
  <2>1. SetPipeline(pw.name, Absent) /\ WorkerChange(Absent)
    BY <1>4 DEF RemoveFinalizer, WorkerChange, ProtocolInv, WorkerInv
  <2> QED
    BY <1>2, <2>1 DEF WorkerWrites
<1>5. CASE SetStatus
  <2> DEFINE o == [pw.obj EXCEPT !.phase = pw.pc,
                                 !.observed = pw.obj.generation]
  <2>1. o \in PipelineObject /\ SetPipeline(pw.name, o) /\ WorkerChange(o)
    BY <1>2, <1>5
       DEF SetStatus, PipelineObject, WorkerChange, ProtocolInv, WorkerInv
  <2> HIDE DEF o
  <2> QED
    BY <1>2, <2>1 DEF WorkerWrites
<1> QED
  BY <1>1, <1>3, <1>4, <1>5

\* All that ever happens to the history of the pipelines.
LEMMA PipelineHistory ==
    TypeOK /\ ProtocolInv /\ [Next]_vars
      => \/ UNCHANGED plv
         \/ ~Synced(plv) /\ plv' = Deliver(plv) /\ UNCHANGED pw
         \/ plv' = Relist(plv) /\ pw' = PipelineIdle
         \/ UserWrites
         \/ WorkerWrites
<1>1. Informers => \/ UNCHANGED plv
                   \/ ~Synced(plv) /\ plv' = Deliver(plv) /\ UNCHANGED pw
  BY DEF Informers, DeliverPipelines, DeliverConfigMaps, DeliverClusters,
         DeliverDeployments
<1>2. Restart => plv' = Relist(plv) /\ pw' = PipelineIdle
  BY DEF Restart
<1>3. (\/ ClusterController \/ ClusterCallFails \/ PipelineCallFails
       \/ Kubernetes \/ UNCHANGED vars)
         => UNCHANGED plv
  BY DEF ClusterController, ClusterReconcile, ReconcileConfigMap,
         ReconcileDeployment, ReconcileStatus, ClusterCallFails,
         PipelineCallFails, Kubernetes, CollectConfigMap, CollectDeployment,
         RolloutComplete, vars, stores
<1> QED
  BY <1>1, <1>2, <1>3, UserWritesPipelines, WorkerWritesPipelines DEF Next

-----------------------------------------------------------------------------
(***************************************************************************)
(* Refinement.                                                             *)
(***************************************************************************)
Life == [p \in Pipelines |-> LifeOf(Actual(plv)[p])]

\* A write of pipeline p moves p alone to another state of life.
LEMMA LifeWrite ==
    ASSUME TypeOK, NEW p \in Pipelines,
           NEW o \in PipelineObject \cup {Absent}, SetPipeline(p, o)
    PROVE  Life' = [Life EXCEPT ![p] = LifeOf(o)]
<1>1. Actual(plv') = [Actual(plv) EXCEPT ![p] = o]
  BY PipelineWrite DEF TypeOK
<1>2. Actual(plv) \in PipelineStore
  BY HistoryFacts DEF TypeOK
<1>3. \A q \in Pipelines :
        Actual(plv')[q] = IF q = p THEN o ELSE Actual(plv)[q]
  BY <1>1, <1>2 DEF PipelineStore
<1>4. Life' = [q \in Pipelines |-> LifeOf(Actual(plv')[q])]
  BY DEF Life, LifeOf
<1> QED
  BY <1>3, <1>4 DEF Life

\* No write of a pipeline, no change of life.
LEMMA LifeRead ==
    ASSUME Actual(plv') = Actual(plv)
    PROVE  Life' = Life
  BY DEF Life, LifeOf

\* Initially there is no pipeline.
LEMMA LifeInit == Init => Lifecycle!Init
<1> SUFFICES ASSUME Init PROVE Lifecycle!Init
  OBVIOUS
<1>1. Actual(plv) = [p \in Pipelines |-> Absent]
  BY DEF Init, Actual
<1>2. \A p \in Pipelines : LifeOf(Actual(plv)[p]) = "absent"
  BY <1>1 DEF LifeOf
<1> QED
  BY <1>2 DEF Lifecycle!Init

\* What the pipeline worker writes are the steps Guard, Apply, Detach, Release.
LEMMA LifePipelineController ==
    TypeOK /\ ProtocolInv /\ PipelineController => Lifecycle!Next \/ Life' = Life
<1> SUFFICES ASSUME TypeOK, ProtocolInv, PipelineController
             PROVE  Lifecycle!Next \/ Life' = Life
  OBVIOUS
<1>0. \A o \in PipelineObject : o # Absent
  BY ObjectAssumption
<1>1. ASSUME UNCHANGED plv PROVE Life' = Life
  BY <1>1, LifeRead
<1>2. CASE AddFinalizer /\ ~UNCHANGED plv
  <2> DEFINE o == [pw.obj EXCEPT !.finalizer = TRUE]
  <2>1. /\ pw.name \in Pipelines /\ pw.obj \in PipelineObject
        /\ ~pw.obj.finalizer /\ ~pw.obj.deleting
        /\ pw.obj.phase # "Applied"
    BY <1>2 DEF AddFinalizer, TypeOK, ProtocolInv, WorkerInv
  <2>2. /\ o \in PipelineObject /\ o.finalizer /\ ~o.deleting
        /\ o.phase # "Applied"
    BY <2>1 DEF PipelineObject
  <2>3. Actual(plv)[pw.name] = pw.obj /\ SetPipeline(pw.name, o)
    BY <1>2 DEF AddFinalizer
  <2>4. Life[pw.name] = "unguarded"
    BY <1>0, <2>1, <2>3 DEF Life, LifeOf
  <2>5. LifeOf(o) = "guarded"
    BY <1>0, <2>2 DEF LifeOf
  <2>6. Life' = [Life EXCEPT ![pw.name] = "guarded"]
    BY <2>1, <2>2, <2>3, <2>5, LifeWrite
  <2>7. Lifecycle!Guard(pw.name)
    BY <2>4, <2>6 DEF Lifecycle!Guard, Lifecycle!Go, Life
  <2> QED
    BY <2>1, <2>7 DEF Lifecycle!Next
<1>3. CASE RemoveFinalizer /\ ~UNCHANGED plv
  <2>1. /\ pw.name \in Pipelines /\ pw.obj \in PipelineObject
        /\ pw.obj.finalizer /\ pw.obj.deleting
    BY <1>3 DEF RemoveFinalizer, TypeOK, ProtocolInv, WorkerInv
  <2>2. Actual(plv)[pw.name] = pw.obj /\ SetPipeline(pw.name, Absent)
    BY <1>3 DEF RemoveFinalizer
  <2>3. Life[pw.name] = "deleting"
    BY <1>0, <2>1, <2>2 DEF Life, LifeOf
  <2>4. Life' = [Life EXCEPT ![pw.name] = "absent"]
    BY <2>1, <2>2, LifeWrite DEF LifeOf
  <2>5. Lifecycle!Release(pw.name)
    BY <2>3, <2>4 DEF Lifecycle!Release, Lifecycle!Go, Life
  <2> QED
    BY <2>1, <2>5 DEF Lifecycle!Next
<1>4. CASE SetStatus /\ ~UNCHANGED plv
  <2> DEFINE o == [pw.obj EXCEPT !.phase = pw.pc,
                                 !.observed = pw.obj.generation]
  <2>1. /\ pw.name \in Pipelines /\ pw.obj \in PipelineObject
        /\ pw.obj.finalizer /\ ~pw.obj.deleting
        /\ pw.pc \in {"Pending", "Applied"}
    BY <1>4 DEF SetStatus, TypeOK, ProtocolInv, WorkerInv
  <2>2. /\ o \in PipelineObject /\ o.finalizer /\ ~o.deleting
        /\ o.phase = pw.pc
    BY <2>1 DEF PipelineObject
  <2>3. Actual(plv)[pw.name] = pw.obj /\ SetPipeline(pw.name, o)
    BY <1>4 DEF SetStatus
  <2>4. Life[pw.name] = IF pw.obj.phase = "Applied" THEN "applied" ELSE "guarded"
    BY <1>0, <2>1, <2>3 DEF Life, LifeOf
  <2>5. LifeOf(o) = IF pw.pc = "Applied" THEN "applied" ELSE "guarded"
    BY <1>0, <2>2 DEF LifeOf
  <2>6. Life' = [Life EXCEPT ![pw.name] = LifeOf(o)]
    BY <2>1, <2>2, <2>3, LifeWrite
  <2>7. CASE LifeOf(o) = Life[pw.name]
    BY <2>6, <2>7 DEF Life
  <2>8. CASE Life[pw.name] = "guarded" /\ LifeOf(o) = "applied"
    <3>1. Lifecycle!Apply(pw.name)
      BY <2>6, <2>8 DEF Lifecycle!Apply, Lifecycle!Go, Life
    <3> QED
      BY <2>1, <3>1 DEF Lifecycle!Next
  <2>9. CASE Life[pw.name] = "applied" /\ LifeOf(o) = "guarded"
    <3>1. Lifecycle!Detach(pw.name)
      BY <2>6, <2>9 DEF Lifecycle!Detach, Lifecycle!Go, Life
    <3> QED
      BY <2>1, <3>1 DEF Lifecycle!Next
  <2> QED
    BY <2>4, <2>5, <2>7, <2>8, <2>9
<1>5. CASE UNCHANGED plv
  BY <1>1, <1>5
<1>6. \/ UNCHANGED plv
      \/ AddFinalizer \/ RemoveFinalizer \/ SetStatus
  BY DEF PipelineController, PipelineReconcile, RebuildClusterConfig,
         StampDeployment, stores
<1> QED
  BY <1>2, <1>3, <1>4, <1>5, <1>6

\* What users write are the steps Create, Withdraw, Delete, or an edit, which is
\* no step of a life.
LEMMA LifeUser ==
    TypeOK /\ ProtocolInv /\ User => Lifecycle!Next \/ Life' = Life
<1> SUFFICES ASSUME TypeOK, ProtocolInv, User
             PROVE  Lifecycle!Next \/ Life' = Life
  OBVIOUS
<1>0. \A o \in PipelineObject : o # Absent
  BY ObjectAssumption
<1>1. ASSUME NEW p \in Pipelines, NEW c \in Clusters, NEW k \in Keys,
             NEW d \in Defs, CreatePipeline(p, c, k, d)
      PROVE  Lifecycle!Next
  <2> DEFINE o == [cluster |-> c, key |-> k, def |-> d, generation |-> 1,
                   deleting |-> FALSE, finalizer |-> FALSE, phase |-> "",
                   observed |-> 0]
  <2>1. o \in PipelineObject /\ ~o.finalizer
    BY DEF PipelineObject
  <2>2. Actual(plv)[p] = Absent /\ SetPipeline(p, o)
    BY <1>1 DEF CreatePipeline
  <2>3. LifeOf(o) = "unguarded"
    <3> HIDE DEF o
    <3> QED
      BY <1>0, <2>1 DEF LifeOf
  <2>4. Life[p] = "absent"
    BY <2>2 DEF Life, LifeOf
  <2>5. Life' = [Life EXCEPT ![p] = "unguarded"]
    <3> HIDE DEF o
    <3> QED
      BY <2>1, <2>2, <2>3, LifeWrite
  <2>6. Lifecycle!Create(p)
    BY <2>4, <2>5 DEF Lifecycle!Create, Lifecycle!Go, Life
  <2> QED
    BY <2>6 DEF Lifecycle!Next
<1>2. ASSUME NEW p \in Pipelines, NEW c \in Clusters, NEW k \in Keys,
             NEW d \in Defs, EditPipeline(p, c, k, d)
      PROVE  Life' = Life
  <2> DEFINE old == Actual(plv)[p]
             o   == [old EXCEPT !.cluster = c, !.key = k, !.def = d,
                                !.generation = @ + 1]
  <2>1. old \in PipelineObject
    BY <1>2, Reads DEF EditPipeline, PipelineStore
  <2>2. /\ o \in PipelineObject
        /\ o.finalizer = old.finalizer /\ o.deleting = old.deleting
        /\ o.phase = old.phase
    <3> HIDE DEF old
    <3>1. old.generation + 1 \in Nat
      <4>1. old.generation \in Nat
        BY <2>1 DEF PipelineObject
      <4> QED
        BY <4>1
    <3> QED
      BY <2>1, <3>1 DEF PipelineObject
  <2>3. SetPipeline(p, o)
    BY <1>2 DEF EditPipeline
  <2> HIDE DEF o
  <2>4. LifeOf(o) = LifeOf(old)
    BY <1>0, <2>1, <2>2 DEF LifeOf
  <2>5. Life' = [Life EXCEPT ![p] = Life[p]]
    BY <2>2, <2>3, <2>4, LifeWrite DEF Life
  <2> QED
    BY <2>5 DEF Life
<1>3. ASSUME NEW p \in Pipelines, DeletePipeline(p)
      PROVE  Lifecycle!Next
  <2> DEFINE old == Actual(plv)[p]
             o   == [old EXCEPT !.deleting = TRUE, !.generation = @ + 1]
  <2>1. old \in PipelineObject /\ ~old.deleting
    BY <1>3, Reads DEF DeletePipeline, PipelineStore
  <2>2. /\ o \in PipelineObject /\ o.deleting
        /\ o.finalizer = old.finalizer
    <3> HIDE DEF old
    <3>1. old.generation + 1 \in Nat
      <4>1. old.generation \in Nat
        BY <2>1 DEF PipelineObject
      <4> QED
        BY <4>1
    <3> QED
      BY <2>1, <3>1 DEF PipelineObject
  <2>3. IF old.finalizer THEN SetPipeline(p, o) ELSE SetPipeline(p, Absent)
    BY <1>3 DEF DeletePipeline
  <2> HIDE DEF o
  <2>4. CASE old.finalizer
    <3>1. Life[p] \in {"guarded", "applied"}
      BY <1>0, <2>1, <2>4 DEF Life, LifeOf
    <3>2. LifeOf(o) = "deleting"
      BY <1>0, <2>2, <2>4 DEF LifeOf
    <3>3. Life' = [Life EXCEPT ![p] = "deleting"]
      BY <2>2, <2>3, <2>4, <3>2, LifeWrite
    <3>4. Lifecycle!Delete(p)
      BY <3>1, <3>3 DEF Lifecycle!Delete, Lifecycle!Go, Life
    <3> QED
      BY <3>4 DEF Lifecycle!Next
  <2>5. CASE ~old.finalizer
    <3>1. Life[p] = "unguarded"
      BY <1>0, <2>1, <2>5 DEF Life, LifeOf
    <3>2. Life' = [Life EXCEPT ![p] = "absent"]
      BY <2>3, <2>5, LifeWrite DEF LifeOf
    <3>3. Lifecycle!Withdraw(p)
      BY <3>1, <3>2 DEF Lifecycle!Withdraw, Lifecycle!Go, Life
    <3> QED
      BY <3>3 DEF Lifecycle!Next
  <2> QED
    BY <2>4, <2>5
<1>4. CASE UNCHANGED plv
  BY <1>4, LifeRead
<1> QED
  BY <1>1, <1>2, <1>3, <1>4
     DEF User, CreateCluster, EditCluster, DeleteCluster, DriftConfigMap

\* Every step is a step of one pipeline's life, or none.
LEMMA LifeStep ==
    TypeOK /\ ProtocolInv /\ [Next]_vars => Lifecycle!Next \/ Life' = Life
<1> SUFFICES ASSUME TypeOK, ProtocolInv, [Next]_vars
             PROVE  Lifecycle!Next \/ Life' = Life
  OBVIOUS
<1>1. CASE PipelineController
  BY <1>1, LifePipelineController
<1>2. CASE User
  BY <1>2, LifeUser
<1>3. CASE Informers
  <2>1. UNCHANGED plv \/ (~Synced(plv) /\ plv' = Deliver(plv))
    BY <1>3 DEF Informers, DeliverPipelines, DeliverConfigMaps,
                DeliverClusters, DeliverDeployments
  <2>2. Actual(plv') = Actual(plv)
    BY <2>1, DeliverFacts DEF TypeOK
  <2> QED
    BY <2>2, LifeRead
<1>4. CASE Restart
  <2>1. Actual(plv') = Actual(plv)
    BY <1>4, RelistFacts DEF Restart, TypeOK
  <2> QED
    BY <2>1, LifeRead
<1>5. CASE \/ ClusterController \/ ClusterCallFails \/ PipelineCallFails
           \/ Kubernetes \/ UNCHANGED vars
  <2>1. UNCHANGED plv
    BY <1>5 DEF ClusterController, ClusterReconcile, ReconcileConfigMap,
                ReconcileDeployment, ReconcileStatus, ClusterCallFails,
                PipelineCallFails, Kubernetes, CollectConfigMap,
                CollectDeployment, RolloutComplete, vars, stores
  <2> QED
    BY <2>1, LifeRead
<1> QED
  BY <1>1, <1>2, <1>3, <1>4, <1>5 DEF Next

\* The operator, its users and Kubernetes together implement the life cycle: no
\* pipeline that carries the finalizer leaves the API server but through the
\* deletion protocol, and none is Applied before it carries the finalizer.
THEOREM LifecycleIsImplemented == Spec => ImplementsLifecycle
<1>1. Spec => []TypeOK /\ []ProtocolInv
  BY ProtocolInit, ProtocolStep, TypeCorrect, PTL DEF Spec
<1>2. TypeOK /\ ProtocolInv /\ [Next]_vars
        => [Lifecycle!Next]_([p \in Pipelines |-> LifeOf(Actual(plv)[p])])
  BY LifeStep DEF Life
<1> QED
  BY <1>1, <1>2, LifeInit, PTL DEF Spec, ImplementsLifecycle, Lifecycle!Spec

=============================================================================
