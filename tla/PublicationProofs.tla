------------------------- MODULE PublicationProofs -------------------------
(***************************************************************************)
(* What the operator publishes in the ConfigMaps, and what it says of it,  *)
(* for all values of the constants: nothing is reported as merged that has *)
(* not been, an entry that is wanted is never taken out, and an entry that *)
(* is not wanted goes before its pipeline does.                            *)
(***************************************************************************)
EXTENDS LifecycleProofs, RolloutProofs

-----------------------------------------------------------------------------
(***************************************************************************)
(* The order of the versions of a pipeline.                                *)
(*                                                                         *)
(* setStatus writes the object that was read at the beginning, if the API  *)
(* server still holds it, compared by value.  That the text which has been *)
(* rendered in between, from a later list, is about the same object, needs *)
(* an argument: an object that has been replaced never comes back.  Of the *)
(* versions that carry the finalizer, the generations never go down.  And  *)
(* a history never loses the finalizer and gains it again, although its    *)
(* versions may be arbitrarily many: only the worker adds or removes it,   *)
(* and it does so after the informer has gone past its last change.        *)
(***************************************************************************)
Guarded(o) == o # Absent /\ o.finalizer

\* x may be an earlier state of the incarnation y is a state of.
Precedes(x, y) ==
    /\ x.generation <= y.generation
    /\ x.deleting => y.deleting
    /\ x.generation = y.generation =>
         /\ x.cluster = y.cluster /\ x.key = y.key /\ x.def = y.def
         /\ x.deleting = y.deleting

OnlyLoses(h, p) ==
    \A s, t : Before(h, s, t) /\ Guarded(t[p]) => Guarded(s[p])
OnlyGains(h, p) ==
    \A s, t : Before(h, s, t) /\ Guarded(s[p]) => Guarded(t[p])

GuardOrder ==
    \A p \in Pipelines :
      /\ Guarded(Cached(plv)[p]) => OnlyLoses(plv, p)
      /\ ~Guarded(Cached(plv)[p]) => OnlyGains(plv, p)

GenerationOrder ==
    \A p \in Pipelines : \A s, t :
      Before(plv, s, t) /\ Guarded(s[p]) /\ Guarded(t[p])
        => Precedes(s[p], t[p])

WorkerOrder ==
    /\ pw.pc = "addFinalizer" => OnlyGains(plv, pw.name)
    /\ pw.pc \notin {"idle", "addFinalizer"} =>
         /\ OnlyLoses(plv, pw.name)
         /\ \A s \in Versions(plv) :
              Guarded(s[pw.name]) => Precedes(pw.obj, s[pw.name])

OrderInv == GuardOrder /\ GenerationOrder /\ WorkerOrder

\* Generations are numbers.
LEMMA GenerationNat ==
    \A x \in PipelineObject : x.generation \in Nat /\ x.generation <= x.generation
<1> SUFFICES ASSUME NEW x \in PipelineObject
             PROVE  x.generation \in Nat /\ x.generation <= x.generation
  OBVIOUS
<1>1. x.generation \in Nat
  BY DEF PipelineObject
<1> QED
  BY <1>1

\* A write puts one version after all others.
LEMMA WriteOrder ==
    ASSUME TypeOK, NEW p \in Pipelines,
           NEW o \in PipelineObject \cup {Absent}, SetPipeline(p, o)
    PROVE  /\ Actual(plv')[p] = o
           /\ \A q \in Pipelines \ {p} : Actual(plv')[q] = Actual(plv)[q]
           /\ Cached(plv') = Cached(plv)
           /\ \A s \in Versions(plv') : s \in Versions(plv) \/ s = Actual(plv')
           /\ \A s, t : Before(plv', s, t)
                          => \/ Before(plv, s, t)
                             \/ s \in Versions(plv) /\ t = Actual(plv')
<1> DEFINE new == [Actual(plv) EXCEPT ![p] = o]
<1>1. plv \in History(PipelineStore) /\ Actual(plv) \in PipelineStore
  BY Reads DEF TypeOK
<1>2. /\ new \in PipelineStore /\ new[p] = o
      /\ \A q \in Pipelines \ {p} : new[q] = Actual(plv)[q]
  BY <1>1 DEF PipelineStore
<1>3. /\ Actual(plv') = new
      /\ Versions(plv') \subseteq Versions(plv) \cup {new}
  BY <1>1, PipelineWrite
<1>4. plv' = Commit(plv, new)
  BY DEF SetPipeline
<1> HIDE DEF new
<1>5. Cached(plv') = Cached(plv)
  BY <1>1, <1>4, CommitGrows DEF Grown
<1>6. \A s, t : Before(plv', s, t)
                  => Before(plv, s, t) \/ (s \in Versions(plv) /\ t = new)
  BY <1>1, <1>2, <1>4, CommitBefore
<1> QED
  BY <1>2, <1>3, <1>5, <1>6

\* What is known of a version is known of the newest one, and the other way
\* round.
LEMMA OrderFacts ==
    ASSUME TypeOK
    PROVE  /\ Cached(plv) \in Versions(plv) /\ Actual(plv) \in Versions(plv)
           /\ \A s \in Versions(plv) :
                /\ s \in PipelineStore
                /\ s = Actual(plv) \/ Before(plv, s, Actual(plv))
                /\ s = Cached(plv) \/ Before(plv, Cached(plv), s)
  BY HistoryFacts, BeforeFacts DEF TypeOK

\* A later generation of an object, or the same one with another status, comes
\* after all that came before the object.
Continues(old, o) ==
    /\ Guarded(o) <=> Guarded(old)
    /\ \A x \in PipelineObject : Guarded(o) /\ Precedes(x, old) => Precedes(x, o)

\* A write that continues what the API server holds keeps the order.
LEMMA OrderContinued ==
    ASSUME TypeOK, OrderInv, NEW p \in Pipelines,
           NEW o \in PipelineObject \cup {Absent}, SetPipeline(p, o),
           Continues(Actual(plv)[p], o),
           pw' = pw \/ pw' = PipelineIdle
    PROVE  OrderInv'
<1> DEFINE new == Actual(plv')
           old == Actual(plv)
<1>1. /\ new[p] = o
      /\ \A q \in Pipelines \ {p} : new[q] = old[q]
      /\ Cached(plv') = Cached(plv)
      /\ \A s \in Versions(plv') : s \in Versions(plv) \/ s = new
      /\ \A s, t : Before(plv', s, t)
                     => \/ Before(plv, s, t)
                        \/ s \in Versions(plv) /\ t = new
  BY WriteOrder
<1>2. /\ old \in Versions(plv)
      /\ \A s \in Versions(plv) :
           s \in PipelineStore /\ (s = old \/ Before(plv, s, old))
  BY OrderFacts
<1>3. \A q \in Pipelines : Continues(old[q], new[q])
  BY <1>1 DEF Continues
<1> HIDE DEF new, old
<1>4. ASSUME NEW q \in Pipelines
      PROVE  /\ OnlyLoses(plv, q) => OnlyLoses(plv', q)
             /\ OnlyGains(plv, q) => OnlyGains(plv', q)
  <2>1. OnlyLoses(plv, q) => OnlyLoses(plv', q)
    BY <1>1, <1>2, <1>3 DEF OnlyLoses, Continues
  <2>2. OnlyGains(plv, q) => OnlyGains(plv', q)
    BY <1>1, <1>2, <1>3 DEF OnlyGains, Continues
  <2> QED
    BY <2>1, <2>2
<1>5. \A x \in PipelineObject : Precedes(x, x)
  BY GenerationNat DEF Precedes
<1>6. \A q \in Pipelines, s \in Versions(plv) :
        Guarded(s[q]) => s[q] \in PipelineObject
  BY <1>2 DEF Guarded, PipelineStore
<1>7. GuardOrder'
  <2>1. \A q \in Pipelines : Guarded(Cached(plv)[q])' <=> Guarded(Cached(plv)[q])
    BY <1>1 DEF Guarded, Cached
  <2> QED
    BY <1>4, <2>1 DEF GuardOrder, OrderInv
<1>8. GenerationOrder'
  <2> SUFFICES ASSUME NEW q \in Pipelines, NEW s, NEW t, Before(plv', s, t),
                      Guarded(s[q]), Guarded(t[q])
               PROVE  Precedes(s[q], t[q])
    BY DEF GenerationOrder
  <2>1. CASE Before(plv, s, t)
    BY <2>1 DEF OrderInv, GenerationOrder
  <2>2. CASE s \in Versions(plv) /\ t = new
    <3>1. s[q] \in PipelineObject /\ Guarded(old[q])
      BY <1>3, <1>6, <2>2 DEF Continues
    <3>2. Precedes(s[q], old[q])
      BY <1>2, <1>5, <2>2, <3>1 DEF OrderInv, GenerationOrder
    <3> QED
      BY <1>3, <2>2, <3>1, <3>2 DEF Continues
  <2> QED
    BY <1>1, <2>1, <2>2
<1>9. WorkerOrder'
  <2>1. CASE pw' = PipelineIdle
    BY <2>1 DEF WorkerOrder, PipelineIdle
  <2>2. CASE pw' = pw
    <3>1. pw.pc # "idle" => pw.name \in Pipelines /\ pw.obj \in PipelineObject
      BY DEF TypeOK
    <3>2. pw.pc = "addFinalizer" => OnlyGains(plv', pw.name)
      BY <1>4, <3>1 DEF OrderInv, WorkerOrder
    <3>3. ASSUME pw.pc \notin {"idle", "addFinalizer"}
          PROVE  /\ OnlyLoses(plv', pw.name)
                 /\ \A s \in Versions(plv') :
                      Guarded(s[pw.name]) => Precedes(pw.obj, s[pw.name])
      <4>1. OnlyLoses(plv', pw.name)
        BY <1>4, <3>1, <3>3 DEF OrderInv, WorkerOrder
      <4>2. \A s \in Versions(plv) :
              Guarded(s[pw.name]) => Precedes(pw.obj, s[pw.name])
        BY <3>3 DEF OrderInv, WorkerOrder
      <4>3. Guarded(new[pw.name]) => Precedes(pw.obj, new[pw.name])
        BY <1>2, <1>3, <3>1, <3>3, <4>2 DEF Continues
      <4> QED
        BY <1>1, <4>1, <4>2, <4>3
    <3> QED
      BY <2>2, <3>2, <3>3 DEF WorkerOrder
  <2> QED
    BY <2>1, <2>2
<1> QED
  BY <1>7, <1>8, <1>9 DEF OrderInv

\* The worker gives the finalizer to a pipeline of which no version has it, and
\* takes it from one that loses it for good.
LEMMA OrderWorkerWrites ==
    ASSUME TypeOK, OrderInv, WorkerWrites
    PROVE  OrderInv'
<1> DEFINE p == pw.name
<1>1. PICK o \in PipelineObject \cup {Absent} :
        SetPipeline(p, o) /\ WorkerChange(o)
  BY DEF WorkerWrites
<1>2. /\ p \in Pipelines /\ pw.obj \in PipelineObject /\ pw.obj # Absent
      /\ Actual(plv)[p] = pw.obj /\ pw' = PipelineIdle
  BY ObjectAssumption DEF WorkerWrites
<1> HIDE DEF p
<1>3. CASE pw.pc \in {"Pending", "Applied"}
  <2>1. /\ pw.obj.finalizer
        /\ o = [pw.obj EXCEPT !.phase = pw.pc, !.observed = pw.obj.generation]
    BY <1>1, <1>3 DEF WorkerChange
  <2>2. /\ o \in PipelineObject /\ o # Absent /\ o.finalizer
        /\ o.generation = pw.obj.generation /\ o.deleting = pw.obj.deleting
        /\ o.cluster = pw.obj.cluster /\ o.key = pw.obj.key
        /\ o.def = pw.obj.def
    <3>1. o # Absent
      BY <1>2, <2>1, <1>1, ObjectAssumption, <1>3 DEF PipelineObject
    <3> QED
      BY <1>1, <1>2, <2>1, <3>1 DEF PipelineObject
  <2>3. Continues(Actual(plv)[p], o)
    BY <1>2, <2>1, <2>2 DEF Continues, Guarded, Precedes
  <2> QED
    BY <1>1, <1>2, <2>3, OrderContinued
<1>4. CASE pw.pc \in {"addFinalizer", "removeFinalizer"}
  <2> DEFINE new == Actual(plv')
  <2>1. /\ new[p] = o
        /\ \A q \in Pipelines \ {p} : new[q] = Actual(plv)[q]
        /\ Cached(plv') = Cached(plv)
        /\ \A s, t : Before(plv', s, t)
                       => \/ Before(plv, s, t)
                          \/ s \in Versions(plv) /\ t = new
    BY <1>1, <1>2, WriteOrder
  <2>2. /\ Cached(plv) \in Versions(plv)
        /\ \A s \in Versions(plv) :
             /\ s \in PipelineStore
             /\ s = Actual(plv) \/ Before(plv, s, Actual(plv))
    BY OrderFacts
  <2> HIDE DEF new
  <2>3. \/ pw.pc = "addFinalizer" /\ ~Guarded(pw.obj)
        \/ pw.pc = "removeFinalizer" /\ Guarded(pw.obj) /\ ~Guarded(o)
    BY <1>1, <1>2, <1>4 DEF WorkerChange, Guarded
  <2>4. \* no version has the finalizer, or it is lost for good
        /\ ~Guarded(Cached(plv)[p]) => \A s \in Versions(plv) : ~Guarded(s[p])
        /\ Guarded(Cached(plv)[p]) => ~Guarded(o)
        /\ Guarded(o) => \A s \in Versions(plv) : ~Guarded(s[p])
    <3>1. CASE pw.pc = "addFinalizer"
      <4>1. OnlyGains(plv, p)
        BY <3>1 DEF OrderInv, WorkerOrder, p
      <4>2. \A s \in Versions(plv) : ~Guarded(s[p])
        BY <1>2, <2>2, <2>3, <3>1, <4>1 DEF OnlyGains
      <4> QED
        BY <2>2, <4>2
    <3>2. CASE pw.pc = "removeFinalizer"
      <4>1. OnlyLoses(plv, p)
        BY <3>2 DEF OrderInv, WorkerOrder, p
      <4>2. Guarded(Cached(plv)[p])
        BY <1>2, <2>2, <2>3, <3>2, <4>1 DEF OnlyLoses
      <4> QED
        BY <2>3, <3>2, <4>2
    <3> QED
      BY <2>3, <3>1, <3>2
  <2>5. GuardOrder'
    <3> SUFFICES ASSUME NEW q \in Pipelines
                 PROVE  /\ Guarded(Cached(plv)[q]) => OnlyLoses(plv', q)
                        /\ ~Guarded(Cached(plv)[q]) => OnlyGains(plv', q)
      <4>1. Cached(plv)' = Cached(plv)
        BY <2>1 DEF Cached
      <4> QED
        BY <4>1 DEF GuardOrder
    <3>1. /\ Guarded(Cached(plv)[q]) => OnlyLoses(plv, q)
          /\ ~Guarded(Cached(plv)[q]) => OnlyGains(plv, q)
      BY DEF OrderInv, GuardOrder
    <3>2. CASE q = p
      BY <2>1, <2>4, <3>1, <3>2 DEF OnlyLoses, OnlyGains
    <3>3. CASE q # p
      <4>1. new[q] = Actual(plv)[q]
        BY <2>1, <3>3
      <4> QED
        BY <2>1, <2>2, <3>1, <4>1 DEF OnlyLoses, OnlyGains
    <3> QED
      BY <3>2, <3>3
  <2>6. GenerationOrder'
    <3> SUFFICES ASSUME NEW q \in Pipelines, NEW s, NEW t, Before(plv', s, t),
                        Guarded(s[q]), Guarded(t[q])
                 PROVE  Precedes(s[q], t[q])
      BY DEF GenerationOrder
    <3>1. CASE Before(plv, s, t)
      BY <3>1 DEF OrderInv, GenerationOrder
    <3>2. CASE s \in Versions(plv) /\ t = new
      <4>1. q # p
        BY <2>1, <2>4, <3>2
      <4>2. t[q] = Actual(plv)[q] /\ s[q] \in PipelineObject
        BY <2>1, <2>2, <3>2, <4>1 DEF PipelineStore, Guarded
      <4>3. CASE s = Actual(plv)
        BY <4>2, <4>3, GenerationNat DEF Precedes
      <4>4. CASE Before(plv, s, Actual(plv))
        BY <4>2, <4>4 DEF OrderInv, GenerationOrder
      <4> QED
        BY <2>2, <3>2, <4>3, <4>4
    <3> QED
      BY <2>1, <3>1, <3>2
  <2>7. WorkerOrder'
    BY <1>2 DEF WorkerOrder, PipelineIdle
  <2> QED
    BY <2>5, <2>6, <2>7 DEF OrderInv
<1> QED
  BY <1>1, <1>3, <1>4 DEF WorkerChange

\* Users continue what is there: they neither add nor remove a finalizer of an
\* object that stays, and they only go on to the next generation.
LEMMA OrderUserWrites ==
    ASSUME TypeOK, OrderInv, UserWrites
    PROVE  OrderInv'
<1>1. PICK p \in Pipelines, o \in PipelineObject \cup {Absent} :
        SetPipeline(p, o) /\ UserChange(Actual(plv)[p], o) /\ UNCHANGED pw
  BY DEF UserWrites
<1> DEFINE old == Actual(plv)[p]
<1>2. old \in PipelineObject \cup {Absent}
  BY Reads DEF PipelineStore
<1> HIDE DEF old
<1>3. UserChange(old, o)
  BY <1>1 DEF old
<1>4. Guarded(o) <=> Guarded(old)
  BY <1>3 DEF UserChange, Guarded
<1>5. ASSUME NEW x \in PipelineObject, Guarded(o), Precedes(x, old)
      PROVE  Precedes(x, o)
  <2>1. o.generation = old.generation + 1
    BY <1>3, <1>5 DEF UserChange, Guarded
  <2>2. old \in PipelineObject
    BY <1>2, <1>4, <1>5 DEF Guarded
  <2>3. x.generation \in Nat /\ old.generation \in Nat
    BY <2>2, GenerationNat
  <2>4. x.generation <= old.generation
    BY <1>5 DEF Precedes
  <2>5. x.generation <= o.generation /\ x.generation # o.generation
    BY <2>1, <2>3, <2>4
  <2>6. x.deleting => o.deleting
    BY <1>3, <1>4, <1>5 DEF UserChange, Guarded, Precedes
  <2> QED
    BY <2>5, <2>6 DEF Precedes
<1>6. Continues(old, o)
  BY <1>4, <1>5 DEF Continues
<1> QED
  BY <1>1, <1>6, OrderContinued DEF old

\* Reading changes no order; when the cache goes over from versions without the
\* finalizer to versions with it, or back, all that is left is of one kind.
LEMMA OrderReads ==
    ASSUME TypeOK, OrderInv,
           \/ ~Synced(plv) /\ plv' = Deliver(plv) /\ UNCHANGED pw
           \/ plv' = Relist(plv) /\ pw' = PipelineIdle
    PROVE  OrderInv'
<1>1. /\ plv' \in History(PipelineStore)
      /\ Versions(plv') \subseteq Versions(plv)
      /\ \A s, t : Before(plv', s, t) => Before(plv, s, t)
  BY DeliverFacts, RelistFacts, ReadBefore DEF TypeOK
<1>2. /\ Cached(plv') \in Versions(plv)
      /\ \A t \in Versions(plv') :
           t = Cached(plv') \/ Before(plv', Cached(plv'), t)
      /\ \A s, t : Before(plv', s, t)
                     => s \in Versions(plv') /\ t \in Versions(plv')
  BY <1>1, HistoryFacts, BeforeFacts
<1>3. /\ Cached(plv) \in Versions(plv)
      /\ \A q \in Pipelines :
           /\ Guarded(Cached(plv)[q]) => OnlyLoses(plv, q)
           /\ ~Guarded(Cached(plv)[q]) => OnlyGains(plv, q)
  BY OrderFacts DEF OrderInv, GuardOrder
<1>4. \A q : /\ OnlyLoses(plv, q) => OnlyLoses(plv', q)
             /\ OnlyGains(plv, q) => OnlyGains(plv', q)
  BY <1>1 DEF OnlyLoses, OnlyGains
<1>5. GuardOrder'
  <2> SUFFICES ASSUME NEW q \in Pipelines
               PROVE  /\ Guarded(Cached(plv')[q]) => OnlyLoses(plv', q)
                      /\ ~Guarded(Cached(plv')[q]) => OnlyGains(plv', q)
    BY DEF GuardOrder, Cached
  <2>1. CASE Guarded(Cached(plv)[q]) /\ ~Guarded(Cached(plv')[q])
    <3>1. \A t \in Versions(plv') : ~Guarded(t[q])
      BY <1>2, <1>3, <1>4, <2>1 DEF OnlyLoses
    <3> QED
      BY <1>2, <2>1, <3>1 DEF OnlyGains
  <2>2. CASE ~Guarded(Cached(plv)[q]) /\ Guarded(Cached(plv')[q])
    <3>1. \A t \in Versions(plv') : Guarded(t[q])
      BY <1>2, <1>3, <1>4, <2>2 DEF OnlyGains
    <3> QED
      BY <1>2, <2>2, <3>1 DEF OnlyLoses
  <2> QED
    BY <1>3, <1>4, <2>1, <2>2
<1>6. GenerationOrder'
  BY <1>1 DEF OrderInv, GenerationOrder
<1>7. WorkerOrder'
  <2>1. CASE pw' = pw
    BY <1>1, <1>4, <2>1 DEF OrderInv, WorkerOrder
  <2>2. CASE pw' = PipelineIdle
    BY <2>2 DEF WorkerOrder, PipelineIdle
  <2> QED
    BY <2>1, <2>2
<1> QED
  BY <1>5, <1>6, <1>7 DEF OrderInv

\* How the worker of the pipeline controller goes on.
LEMMA WorkerMoves ==
    TypeOK /\ [Next]_vars
      => \/ UNCHANGED pw
         \/ pw' = PipelineIdle
         \/ \E p \in Pipelines : PipelineReconcile(p)
         \/ /\ RebuildClusterConfig \/ StampDeployment
            /\ pw'.name = pw.name /\ pw'.obj = pw.obj
            /\ \/ pw'.pc = "removeFinalizer"
               \/ /\ pw'.pc = "stamp" /\ RebuildClusterConfig
                  /\ pw'.content = Render(Cached(plv), pw.obj.cluster,
                                          IF pw.obj.deleting THEN pw.name
                                          ELSE Absent)
               \/ pw'.pc = "Applied" /\ pw.pc = "stamp"
<1> SUFFICES ASSUME TypeOK, [Next]_vars
             PROVE  \/ UNCHANGED pw
                    \/ pw' = PipelineIdle
                    \/ \E p \in Pipelines : PipelineReconcile(p)
                    \/ /\ RebuildClusterConfig \/ StampDeployment
                       /\ pw'.name = pw.name /\ pw'.obj = pw.obj
                       /\ \/ pw'.pc = "removeFinalizer"
                          \/ /\ pw'.pc = "stamp" /\ RebuildClusterConfig
                             /\ pw'.content =
                                  Render(Cached(plv), pw.obj.cluster,
                                         IF pw.obj.deleting THEN pw.name
                                         ELSE Absent)
                          \/ pw'.pc = "Applied" /\ pw.pc = "stamp"
  OBVIOUS
<1>1. CASE RebuildClusterConfig
  BY <1>1 DEF RebuildClusterConfig, RebuildNotFound, PipelineGoto,
              PipelineReturnErr, TypeOK, PipelineWorker
<1>2. CASE StampDeployment
  BY <1>2 DEF StampDeployment, RebuildNotFound, PipelineGoto,
              PipelineReturnErr, TypeOK, PipelineWorker
<1>3. CASE \/ AddFinalizer \/ RemoveFinalizer \/ SetStatus \/ PipelineCallFails
           \/ Restart
  BY <1>3 DEF AddFinalizer, RemoveFinalizer, SetStatus, PipelineCallFails,
              Restart, PipelineReturn, PipelineReturnErr
<1>4. CASE \/ Informers \/ ClusterController \/ ClusterCallFails \/ Kubernetes
           \/ UNCHANGED vars
  BY <1>4 DEF Informers, DeliverPipelines, DeliverConfigMaps, DeliverClusters,
              DeliverDeployments, ClusterController, ClusterReconcile,
              ReconcileConfigMap, ReconcileDeployment, ReconcileStatus,
              ClusterCallFails, Kubernetes, CollectConfigMap,
              CollectDeployment, RolloutComplete, vars
<1>5. CASE User
  BY <1>5, UserLeavesWorker
<1> QED
  BY <1>1, <1>2, <1>3, <1>4, <1>5 DEF Next, PipelineController

\* A move of the worker alone keeps the order: what it starts with is the oldest
\* version, and it goes on with that.
LEMMA OrderMoves ==
    ASSUME TypeOK, ProtocolInv, OrderInv, [Next]_vars, UNCHANGED plv
    PROVE  OrderInv'
<1>1. GuardOrder' /\ GenerationOrder'
  BY DEF OrderInv, GuardOrder, GenerationOrder
<1>2. WorkerOrder'
  <2>1. CASE UNCHANGED pw
    BY <2>1 DEF OrderInv, WorkerOrder
  <2>2. CASE pw' = PipelineIdle
    BY <2>2 DEF WorkerOrder, PipelineIdle
  <2>3. ASSUME NEW p \in Pipelines, PipelineReconcile(p) PROVE WorkerOrder'
    <3> DEFINE o == Cached(plv)[p]
    <3>1. CASE pw' = PipelineIdle
      BY <3>1 DEF WorkerOrder, PipelineIdle
    <3>2. CASE /\ pw'.pc = PipelineBranch(o) /\ pw'.name = p /\ pw'.obj = o
               /\ o # Absent
      <4>1. /\ Guarded(o) => OnlyLoses(plv, p)
            /\ ~Guarded(o) => OnlyGains(plv, p)
        BY DEF OrderInv, GuardOrder
      <4>2. /\ pw'.pc = "addFinalizer" => ~Guarded(o)
            /\ pw'.pc \notin {"idle", "addFinalizer"} => Guarded(o)
        BY <3>2 DEF PipelineBranch, Guarded
      <4>3. ASSUME Guarded(o), NEW s \in Versions(plv), Guarded(s[p])
            PROVE  Precedes(o, s[p])
        <5>1. o \in PipelineObject
          BY <4>3, Reads DEF Guarded, PipelineStore
        <5>2. CASE s = Cached(plv)
          BY <5>1, <5>2, GenerationNat DEF Precedes
        <5>3. CASE Before(plv, Cached(plv), s)
          BY <4>3, <5>3 DEF OrderInv, GenerationOrder
        <5> QED
          BY <5>2, <5>3, OrderFacts
      <4> QED
        BY <3>2, <4>1, <4>2, <4>3 DEF WorkerOrder
    <3> QED
      BY <2>3, <3>1, <3>2 DEF PipelineReconcile
  <2>4. CASE /\ pw.pc \in {"rebuild", "stamp"}
             /\ pw'.name = pw.name /\ pw'.obj = pw.obj
             /\ pw'.pc # "addFinalizer"
    BY <2>4 DEF OrderInv, WorkerOrder
  <2>5. /\ RebuildClusterConfig => pw.pc = "rebuild"
        /\ StampDeployment => pw.pc = "stamp"
    BY DEF RebuildClusterConfig, StampDeployment
  <2> QED
    BY <2>1, <2>2, <2>3, <2>4, <2>5, WorkerMoves
<1> QED
  BY <1>1, <1>2 DEF OrderInv

\* Every step keeps the order.
LEMMA OrderStep == TypeOK /\ ProtocolInv /\ OrderInv /\ [Next]_vars => OrderInv'
  BY PipelineHistory, OrderReads, OrderUserWrites, OrderWorkerWrites, OrderMoves

\* Initially there is one version.
LEMMA OrderInit == Init => OrderInv
<1> SUFFICES ASSUME Init PROVE OrderInv
  OBVIOUS
<1>1. \A s, t : ~Before(plv, s, t)
  BY DEF Init, Before
<1> QED
  BY <1>1 DEF Init, PipelineIdle, OrderInv, GuardOrder, GenerationOrder,
              WorkerOrder, OnlyLoses, OnlyGains

-----------------------------------------------------------------------------
(***************************************************************************)
(* The texts.                                                              *)
(***************************************************************************)
\* Where a text comes from that is published: it is the placeholder, a text
\* written by hand, or what the pipeline controller renders from its list.
NewText(c, x) ==
    \/ x = PlaceholderContent
    \/ x \in Drifts
    \/ \E exclude : /\ ~RenderFails(Cached(plv), c, exclude)
                    /\ x = Render(Cached(plv), c, exclude)

\* A write of a ConfigMap publishes its text and no other.
LEMMA WritePublishes ==
    ASSUME TypeOK, NEW c \in Clusters, NEW o, SetConfigMap(c, o)
    PROVE  \A d \in Clusters :
             /\ published[d] \subseteq published'[d]
             /\ \A x \in published'[d] \ published[d] :
                  d = c /\ o # Absent /\ x = o.content
  BY DEF SetConfigMap, TypeOK

\* No step takes a text back, and every new one has an origin.
LEMMA Publications ==
    TypeOK /\ [Next]_vars
      => \A d \in Clusters :
           /\ published[d] \subseteq published'[d]
           /\ \A x \in published'[d] \ published[d] : NewText(d, x)
<1> SUFFICES ASSUME TypeOK, [Next]_vars, NEW d \in Clusters
             PROVE  /\ published[d] \subseteq published'[d]
                    /\ \A x \in published'[d] \ published[d] : NewText(d, x)
  OBVIOUS
<1>1. CASE RebuildClusterConfig
  <2> DEFINE c       == pw.obj.cluster
             exclude == IF pw.obj.deleting THEN pw.name ELSE Absent
             content == Render(Cached(plv), c, exclude)
             cm      == Cached(cmv)[c]
             new     == [cm EXCEPT !.content = content]
  <2>1. c \in Clusters
    BY <1>1 DEF RebuildClusterConfig, TypeOK, PipelineObject
  <2>2. \/ UNCHANGED published
        \/ /\ ~RenderFails(Cached(plv), c, exclude) /\ cm # Absent
           /\ SetConfigMap(c, new)
    BY <1>1 DEF RebuildClusterConfig
  <2>3. cm # Absent => new.content = content
    BY <2>1, Reads DEF ConfigMapStore, ConfigMap
  <2> HIDE DEF c, new, content
  <2>4. CASE UNCHANGED published
    BY <2>4
  <2>5. CASE /\ ~RenderFails(Cached(plv), c, exclude) /\ cm # Absent
             /\ SetConfigMap(c, new)
    BY <2>1, <2>3, <2>5, WritePublishes DEF content, NewText
  <2> QED
    BY <2>2, <2>4, <2>5
<1>2. CASE ReconcileConfigMap
  <2> DEFINE new == [uid |-> cw.obj.uid, content |-> PlaceholderContent]
  <2>1. cw.name \in Clusters /\ new.content = PlaceholderContent
    BY <1>2 DEF ReconcileConfigMap, TypeOK
  <2>2. UNCHANGED published \/ SetConfigMap(cw.name, new)
    BY <1>2 DEF ReconcileConfigMap
  <2> HIDE DEF new
  <2>3. CASE SetConfigMap(cw.name, new)
    BY <2>1, <2>3, WritePublishes DEF NewText
  <2> QED
    BY <2>2, <2>3
<1>3. ASSUME NEW c \in Clusters, NEW x \in Drifts, DriftConfigMap(c, x)
      PROVE  /\ published[d] \subseteq published'[d]
             /\ \A y \in published'[d] \ published[d] : NewText(d, y)
  <2> DEFINE new == [Actual(cmv)[c] EXCEPT !.content = x]
  <2>1. SetConfigMap(c, new) /\ Actual(cmv)[c] \in ConfigMap
    BY <1>3, Reads DEF DriftConfigMap, ConfigMapStore
  <2>2. new.content = x
    BY <2>1 DEF ConfigMap
  <2> HIDE DEF new
  <2> QED
    BY <2>1, <2>2, WritePublishes DEF NewText
<1>4. ASSUME NEW c \in Clusters, CollectConfigMap(c)
      PROVE  /\ published[d] \subseteq published'[d]
             /\ \A x \in published'[d] \ published[d] : NewText(d, x)
  BY <1>4, WritePublishes DEF CollectConfigMap
<1>5. CASE UNCHANGED published
  BY <1>5
<1>6. \/ UNCHANGED published
      \/ RebuildClusterConfig \/ ReconcileConfigMap
      \/ \E c \in Clusters, x \in Drifts : DriftConfigMap(c, x)
      \/ \E c \in Clusters : CollectConfigMap(c)
  <2>1. PipelineController => UNCHANGED published \/ RebuildClusterConfig
    BY DEF PipelineController, PipelineReconcile, AddFinalizer,
           StampDeployment, RemoveFinalizer, SetStatus
  <2>2. ClusterController => UNCHANGED published \/ ReconcileConfigMap
    BY DEF ClusterController, ClusterReconcile, ReconcileDeployment,
           ReconcileStatus
  <2>3. /\ \A p \in Pipelines, c \in Clusters, k \in Keys, e \in Defs :
             CreatePipeline(p, c, k, e) => UNCHANGED published
        /\ \A p \in Pipelines, c \in Clusters, k \in Keys, e \in Defs :
             EditPipeline(p, c, k, e) => UNCHANGED published
        /\ \A p \in Pipelines : DeletePipeline(p) => UNCHANGED published
        /\ \A c \in Clusters, j \in Images :
             CreateCluster(c, j) \/ EditCluster(c, j) => UNCHANGED published
        /\ \A c \in Clusters : DeleteCluster(c) => UNCHANGED published
    <3>1. \A p \in Pipelines, c \in Clusters, k \in Keys, e \in Defs :
            CreatePipeline(p, c, k, e) => UNCHANGED published
      BY DEF CreatePipeline
    <3>2. \A p \in Pipelines, c \in Clusters, k \in Keys, e \in Defs :
            EditPipeline(p, c, k, e) => UNCHANGED published
      BY DEF EditPipeline
    <3> QED
      BY <3>1, <3>2
         DEF DeletePipeline, CreateCluster, EditCluster, DeleteCluster
  <2>4. User => \/ UNCHANGED published
                \/ \E c \in Clusters, x \in Drifts : DriftConfigMap(c, x)
    BY <2>3 DEF User
  <2>5. Kubernetes => \/ UNCHANGED published
                      \/ \E c \in Clusters : CollectConfigMap(c)
    BY DEF Kubernetes, CollectDeployment, RolloutComplete
  <2>6. Informers \/ PipelineCallFails \/ ClusterCallFails \/ Restart
          => UNCHANGED published
    BY DEF Informers, DeliverPipelines, DeliverConfigMaps, DeliverClusters,
           DeliverDeployments, PipelineCallFails, ClusterCallFails, Restart
  <2> QED
    BY <2>1, <2>2, <2>4, <2>5, <2>6 DEF Next, vars
<1> QED
  BY <1>1, <1>2, <1>3, <1>4, <1>5, <1>6

-----------------------------------------------------------------------------
(***************************************************************************)
(* The status.  The inductive invariant: while the worker is past the      *)
(* ConfigMap, and the object it has read is not superseded, the entry of   *)
(* that object has been published; and no status is ahead of its object.   *)
(***************************************************************************)
\* What the API server holds is the object in the worker's hands, or one that
\* differs in its status only.
WorkerCurrent ==
    LET o == Actual(plv)[pw.name] IN
    Guarded(o) /\ o.generation = pw.obj.generation

WorkerPublished ==
    pw.pc \in {"stamp", "Applied"} /\ ~pw.obj.deleting /\ WorkerCurrent
      => EntryOf(pw.obj) \in UNION published[pw.obj.cluster]

ObservedNotAhead ==
    \A s \in Versions(plv) : \A p \in Pipelines :
      s[p] # Absent => s[p].observed <= s[p].generation

\* A status is about the generation it was written for.
LEMMA ObservedStep ==
    TypeOK /\ ProtocolInv /\ ObservedNotAhead /\ [Next]_vars => ObservedNotAhead'
<1> SUFFICES ASSUME TypeOK, ProtocolInv, ObservedNotAhead, [Next]_vars
             PROVE  ObservedNotAhead'
  OBVIOUS
<1>1. CASE Versions(plv') \subseteq Versions(plv)
  BY <1>1 DEF ObservedNotAhead
<1>2. ASSUME NEW p \in Pipelines, NEW o \in PipelineObject \cup {Absent},
             SetPipeline(p, o), o # Absent => o.observed <= o.generation
      PROVE  ObservedNotAhead'
  <2>1. /\ Actual(plv')[p] = o
        /\ \A q \in Pipelines \ {p} : Actual(plv')[q] = Actual(plv)[q]
        /\ \A s \in Versions(plv') : s \in Versions(plv) \/ s = Actual(plv')
    BY <1>2, WriteOrder
  <2>2. Actual(plv) \in Versions(plv)
    BY OrderFacts
  <2>3. ASSUME NEW q \in Pipelines, Actual(plv')[q] # Absent
        PROVE  Actual(plv')[q].observed <= Actual(plv')[q].generation
    BY <1>2, <2>1, <2>2, <2>3 DEF ObservedNotAhead
  <2> QED
    BY <2>1, <2>3 DEF ObservedNotAhead
<1>3. CASE UserWrites
  <2>1. PICK p \in Pipelines, o \in PipelineObject \cup {Absent} :
          SetPipeline(p, o) /\ UserChange(Actual(plv)[p], o)
    BY <1>3 DEF UserWrites
  <2> DEFINE old == Actual(plv)[p]
  <2>2. /\ old \in PipelineObject \cup {Absent}
        /\ old # Absent => old.observed <= old.generation
    BY Reads, OrderFacts DEF PipelineStore, ObservedNotAhead
  <2>3. UserChange(old, o)
    BY <2>1
  <2> HIDE DEF old
  <2>4. old # Absent => old.generation \in Nat /\ old.observed \in Nat
    BY <2>2 DEF PipelineObject
  <2>5. o # Absent => o.observed <= o.generation
    <3>1. CASE old = Absent
      BY <2>3, <3>1 DEF UserChange
    <3>2. CASE old # Absent /\ o # Absent
      <4>1. o.observed = old.observed /\ o.generation = old.generation + 1
        BY <2>3, <3>2 DEF UserChange
      <4> QED
        BY <2>2, <2>4, <3>2, <4>1
    <3> QED
      BY <3>1, <3>2
  <2> QED
    BY <1>2, <2>1, <2>5
<1>4. CASE WorkerWrites
  <2>1. PICK o \in PipelineObject \cup {Absent} :
          /\ pw.name \in Pipelines /\ pw.obj \in PipelineObject
          /\ Actual(plv)[pw.name] = pw.obj
          /\ SetPipeline(pw.name, o) /\ WorkerChange(o)
    BY <1>4 DEF WorkerWrites
  <2>2. /\ pw.obj.observed <= pw.obj.generation
        /\ pw.obj.generation <= pw.obj.generation
    BY <2>1, OrderFacts, ObjectAssumption, GenerationNat DEF ObservedNotAhead
  <2>3. o # Absent => o.observed <= o.generation
    <3>1. CASE o = [pw.obj EXCEPT !.finalizer = TRUE]
      BY <2>1, <2>2, <3>1 DEF PipelineObject
    <3>2. CASE o = [pw.obj EXCEPT !.phase = pw.pc,
                                  !.observed = pw.obj.generation]
      BY <2>1, <2>2, <3>2 DEF PipelineObject
    <3> QED
      BY <2>1, <3>1, <3>2 DEF WorkerChange
  <2> QED
    BY <1>2, <2>1, <2>3
<1> QED
  BY <1>1, <1>3, <1>4, PipelineHistory, DeliverFacts, RelistFacts DEF TypeOK

\* The text that is about to be stamped holds the entry of the worker's object,
\* although it was rendered from what the cache holds by now.
LEMMA RenderedIsCurrent ==
    ASSUME TypeOK, ProtocolInv, OrderInv, RebuildClusterConfig,
           WorkerCurrent, ~pw.obj.deleting
    PROVE  EntryOf(pw.obj) \in Render(Cached(plv), pw.obj.cluster, Absent)
<1> DEFINE p   == pw.name
           old == Cached(plv)[p]
           now == Actual(plv)[p]
<1>1. /\ p \in Pipelines /\ pw.obj \in PipelineObject
      /\ pw.pc = "rebuild"
  BY DEF RebuildClusterConfig, TypeOK
<1>2. /\ OnlyLoses(plv, p)
      /\ \A s \in Versions(plv) : Guarded(s[p]) => Precedes(pw.obj, s[p])
  BY <1>1 DEF OrderInv, WorkerOrder
<1>3. Guarded(now) /\ now.generation = pw.obj.generation
  BY DEF WorkerCurrent
<1>4. /\ Cached(plv) \in Versions(plv)
      /\ Actual(plv) = Cached(plv) \/ Before(plv, Cached(plv), Actual(plv))
  BY OrderFacts
<1>5. Guarded(old) /\ Precedes(pw.obj, old)
  BY <1>2, <1>3, <1>4 DEF OnlyLoses
<1>6. old.generation <= pw.obj.generation
  <2>1. CASE Actual(plv) = Cached(plv)
    BY <1>1, <1>3, <2>1, GenerationNat
  <2>2. CASE Before(plv, Cached(plv), Actual(plv))
    <3>1. Precedes(old, now)
      BY <1>1, <1>3, <1>5, <2>2 DEF OrderInv, GenerationOrder
    <3> QED
      BY <1>3, <3>1 DEF Precedes
  <2> QED
    BY <1>4, <2>1, <2>2
<1>7. old \in PipelineObject
  BY <1>1, <1>5, Reads DEF Guarded, PipelineStore
<1> HIDE DEF p, old, now
<1>8. pw.obj.generation = old.generation
  <2>1. pw.obj.generation \in Nat /\ old.generation \in Nat
    BY <1>1, <1>7, GenerationNat
  <2> QED
    BY <1>5, <1>6, <2>1 DEF Precedes
<1>9. /\ old.cluster = pw.obj.cluster /\ ~old.deleting
      /\ EntryOf(old) = EntryOf(pw.obj)
  BY <1>5, <1>8 DEF Precedes, EntryOf
<1>10. p \in Targets(Cached(plv), pw.obj.cluster, Absent)
  BY <1>1, <1>5, <1>9, DefinitionAssumption DEF Targets, old, Guarded
<1> QED
  BY <1>9, <1>10 DEF Render, old

\* A user makes the worker's object outdated, never current again.
LEMMA CurrentBefore ==
    ASSUME TypeOK, ProtocolInv, OrderInv, [Next]_vars, UNCHANGED pw,
           pw.pc \notin {"idle", "addFinalizer"}, WorkerCurrent'
    PROVE  WorkerCurrent
<1>1. pw.name \in Pipelines /\ pw.obj \in PipelineObject
  BY DEF TypeOK
<1>2. Guarded(Actual(plv)[pw.name]) => Precedes(pw.obj, Actual(plv)[pw.name])
  BY OrderFacts DEF OrderInv, WorkerOrder
<1>3. ASSUME Actual(plv')[pw.name] = Actual(plv)[pw.name] PROVE WorkerCurrent
  <2>1. Actual(plv)[pw.name]' = Actual(plv)[pw.name]
    BY <1>3 DEF Actual
  <2> QED
    BY <2>1 DEF WorkerCurrent
<1>4. CASE UserWrites
  <2>1. PICK p \in Pipelines, o \in PipelineObject \cup {Absent} :
          SetPipeline(p, o) /\ UserChange(Actual(plv)[p], o)
    BY <1>4 DEF UserWrites
  <2>2. /\ Actual(plv')[p] = o
        /\ \A q \in Pipelines \ {p} : Actual(plv')[q] = Actual(plv)[q]
    BY <2>1, WriteOrder
  <2>3. CASE p # pw.name
    BY <1>1, <1>3, <2>2, <2>3
  <2>4. CASE p = pw.name
    <3> DEFINE old == Actual(plv)[p]
    <3>1. /\ old \in PipelineObject \cup {Absent} /\ UserChange(old, o)
          /\ Guarded(old) => Precedes(pw.obj, old)
      BY <1>2, <2>1, <2>4, Reads DEF PipelineStore
    <3> HIDE DEF old
    <3>2. Actual(plv)[pw.name]' = o
      BY <2>2, <2>4 DEF Actual
    <3>3. Guarded(o) /\ o.generation = pw.obj.generation
      BY <3>2 DEF WorkerCurrent
    <3>4. Guarded(old) /\ o.generation = old.generation + 1
      BY <3>1, <3>3 DEF UserChange, Guarded
    <3>5. pw.obj.generation \in Nat /\ old.generation \in Nat
      BY <1>1, <3>1, <3>4, GenerationNat DEF Guarded
    <3> QED
      BY <3>1, <3>3, <3>4, <3>5 DEF Precedes
  <2> QED
    BY <2>3, <2>4
<1>5. CASE ~Synced(plv) /\ plv' = Deliver(plv)
  BY <1>3, <1>5, DeliverFacts DEF TypeOK
<1>6. CASE plv' = Relist(plv)
  BY <1>3, <1>6, RelistFacts DEF TypeOK
<1>7. CASE UNCHANGED plv
  BY <1>3, <1>7
<1>8. ~WorkerWrites
  BY DEF WorkerWrites, PipelineIdle
<1> QED
  BY <1>4, <1>5, <1>6, <1>7, <1>8, PipelineHistory

\* The worker comes to the stamp with its entry published.
LEMMA WorkerPublishedStep ==
    TypeOK /\ ProtocolInv /\ RolloutInv /\ OrderInv /\ WorkerPublished
        /\ [Next]_vars
      => WorkerPublished'
<1> SUFFICES ASSUME TypeOK, ProtocolInv, RolloutInv, OrderInv, WorkerPublished,
                    [Next]_vars
             PROVE  WorkerPublished'
  OBVIOUS
<1> SUFFICES ASSUME pw'.pc \in {"stamp", "Applied"}, ~pw'.obj.deleting,
                    WorkerCurrent'
             PROVE  EntryOf(pw'.obj) \in UNION published'[pw'.obj.cluster]
  <2>1. EntryOf(pw.obj)' = EntryOf(pw'.obj)
    BY DEF EntryOf
  <2> QED
    BY <2>1 DEF WorkerPublished
<1>1. \A d \in Clusters : published[d] \subseteq published'[d]
  BY Publications
<1>2. TypeOK'
  BY TypeStep
<1>3. pw'.obj \in PipelineObject /\ pw'.obj.cluster \in Clusters
  BY <1>2 DEF TypeOK, PipelineObject
<1>4. CASE UNCHANGED pw
  <2>1. EntryOf(pw.obj) \in UNION published[pw.obj.cluster]
    BY <1>4, CurrentBefore DEF WorkerPublished
  <2> QED
    BY <1>1, <1>3, <1>4, <2>1
<1>5. CASE RebuildClusterConfig \/ StampDeployment
  <2>1. UNCHANGED plv /\ pw.pc \in {"rebuild", "stamp"}
    BY <1>5 DEF RebuildClusterConfig, StampDeployment
  <2>2. pw'.pc # "idle" => pw'.obj = pw.obj /\ pw'.name = pw.name
    BY <1>5, <2>1, WorkerMoves DEF PipelineIdle, PipelineReconcile
  <2>3. WorkerCurrent /\ ~pw.obj.deleting
    BY <2>1, <2>2 DEF WorkerCurrent
  <2>4. CASE StampDeployment
    <3>1. EntryOf(pw.obj) \in UNION published[pw.obj.cluster]
      BY <2>3, <2>4 DEF WorkerPublished, StampDeployment
    <3> QED
      BY <1>1, <1>3, <2>2, <3>1
  <2>5. CASE RebuildClusterConfig
    <3>1. /\ pw'.pc = "stamp"
          /\ pw'.content = Render(Cached(plv), pw.obj.cluster, Absent)
      BY <2>1, <2>3, <2>5, WorkerMoves
         DEF PipelineIdle, PipelineReconcile, RebuildClusterConfig
    <3>2. EntryOf(pw.obj) \in pw'.content
      BY <2>3, <2>5, <3>1, RenderedIsCurrent
    <3>3. pw'.content \in published'[pw'.obj.cluster]
      BY <3>1, RolloutStep DEF RolloutInv, StampIsPublished
    <3> QED
      BY <2>2, <3>2, <3>3
  <2> QED
    BY <1>5, <2>4, <2>5
<1>6. ASSUME NEW p \in Pipelines, PipelineReconcile(p) PROVE FALSE
  BY <1>6 DEF PipelineReconcile, PipelineIdle, PipelineBranch
<1> QED
  BY <1>4, <1>5, <1>6, WorkerMoves DEF PipelineIdle

\* A status that says Applied for the current generation is written by the
\* worker alone, and only while its object is current.
LEMMA AppliedStep ==
    TypeOK /\ ProtocolInv /\ OrderInv /\ ObservedNotAhead
        /\ WorkerPublished /\ AppliedWasPublished /\ [Next]_vars
      => AppliedWasPublished'
<1> SUFFICES ASSUME TypeOK, ProtocolInv, OrderInv, ObservedNotAhead,
                    WorkerPublished, AppliedWasPublished, [Next]_vars
             PROVE  AppliedWasPublished'
  OBVIOUS
<1> SUFFICES ASSUME NEW p \in Pipelines, NEW o, o = Actual(plv')[p],
                    o # Absent, o.phase = "Applied", o.observed = o.generation
             PROVE  EntryOf(o) \in UNION published'[o.cluster]
  <2>1. \A p \in Pipelines : /\ Actual(plv)[p]' = Actual(plv')[p]
                             /\ EntryOf(Actual(plv)[p])' = EntryOf(Actual(plv')[p])
    BY DEF Actual, EntryOf
  <2> QED
    BY <2>1 DEF AppliedWasPublished
<1>1. \A d \in Clusters : published[d] \subseteq published'[d]
  BY Publications
<1>2. o \in PipelineObject /\ o.cluster \in Clusters
  <2>1. plv' \in History(PipelineStore)
    BY TypeStep DEF TypeOK
  <2>2. o \in PipelineObject
    BY <2>1, HistoryFacts DEF PipelineStore
  <2> QED
    BY <2>2 DEF PipelineObject
<1>3. CASE o = Actual(plv)[p]
  BY <1>1, <1>2, <1>3 DEF AppliedWasPublished
<1>4. CASE UserWrites /\ o # Actual(plv)[p]
  <2>1. PICK q \in Pipelines, n \in PipelineObject \cup {Absent} :
          SetPipeline(q, n) /\ UserChange(Actual(plv)[q], n)
    BY <1>4 DEF UserWrites
  <2>2. q = p /\ n = o
    BY <1>4, <2>1, WriteOrder
  <2> DEFINE old == Actual(plv)[p]
  <2>3. /\ old \in PipelineObject \cup {Absent} /\ UserChange(old, o)
        /\ old # Absent => old.observed <= old.generation
    BY <2>1, <2>2, Reads, OrderFacts DEF PipelineStore, ObservedNotAhead
  <2> HIDE DEF old
  <2>4. old # Absent => old.generation \in Nat /\ old.observed \in Nat
    BY <2>3 DEF PipelineObject
  <2> QED
    BY <2>3, <2>4 DEF UserChange
<1>5. CASE WorkerWrites /\ o # Actual(plv)[p]
  <2>1. PICK n \in PipelineObject \cup {Absent} :
          /\ pw.name \in Pipelines /\ pw.obj \in PipelineObject
          /\ Actual(plv)[pw.name] = pw.obj
          /\ SetPipeline(pw.name, n) /\ WorkerChange(n)
    BY <1>5 DEF WorkerWrites
  <2>2. pw.name = p /\ n = o
    BY <1>5, <2>1, WriteOrder
  <2>3. pw.obj # Absent
    BY <2>1, ObjectAssumption
  <2>4. CASE pw.pc = "addFinalizer"
    <3>1. o.phase = pw.obj.phase /\ ~pw.obj.finalizer
      BY <2>1, <2>2, <2>4 DEF WorkerChange, PipelineObject
    <3> QED
      BY <2>4, <3>1 DEF ProtocolInv, WorkerInv
  <2>5. CASE pw.pc \in {"Pending", "Applied"}
    <3>1. /\ o.phase = pw.pc /\ EntryOf(o) = EntryOf(pw.obj)
          /\ o.cluster = pw.obj.cluster
          /\ pw.obj.finalizer /\ ~pw.obj.deleting
      BY <2>1, <2>2, <2>5 DEF WorkerChange, PipelineObject, EntryOf
    <3>2. WorkerCurrent
      BY <2>1, <2>3, <3>1 DEF WorkerCurrent, Guarded
    <3> QED
      BY <1>1, <1>2, <3>1, <3>2 DEF WorkerPublished
  <2> QED
    BY <2>1, <2>2, <2>4, <2>5 DEF WorkerChange
<1>6. CASE UNCHANGED plv \/ (~Synced(plv) /\ plv' = Deliver(plv)) \/ plv' = Relist(plv)
  BY <1>3, <1>6, DeliverFacts, RelistFacts DEF TypeOK
<1> QED
  BY <1>3, <1>4, <1>5, <1>6, PipelineHistory

\* Whatever happens between the Get of a reconcile, the list it renders from and
\* the status update, a pipeline that says Applied for its current generation
\* has been in the text of the ConfigMap, with this very definition.
THEOREM AppliedIsTrue == Spec => []AppliedWasPublished
<1>1. Spec => []TypeOK /\ []ProtocolInv /\ []RolloutInv
  BY TypeCorrect, ProtocolInit, ProtocolStep, RolloutInit, RolloutStep, PTL
     DEF Spec
<1>2. Spec => []OrderInv
  BY <1>1, OrderInit, OrderStep, PTL DEF Spec
<1>3. Init => ObservedNotAhead /\ WorkerPublished /\ AppliedWasPublished
  <2>1. Init => /\ Versions(plv) = {[p \in Pipelines |-> Absent]}
                /\ Actual(plv) = [p \in Pipelines |-> Absent]
    BY DEF Init, Versions, Actual
  <2> QED
    BY <2>1 DEF Init, PipelineIdle, ObservedNotAhead, WorkerPublished,
                AppliedWasPublished
<1>4. Spec => []ObservedNotAhead /\ []WorkerPublished
  BY <1>1, <1>2, <1>3, ObservedStep, WorkerPublishedStep, PTL DEF Spec
<1> QED
  BY <1>1, <1>2, <1>3, <1>4, AppliedStep, PTL DEF Spec

-----------------------------------------------------------------------------
(***************************************************************************)
(* The last good text.  A rebuild either fails, and leaves the text alone, *)
(* or merges every pipeline of the list that is not being deleted; the one *)
(* it leaves out is being deleted for good.                                *)
(***************************************************************************)
\* The worker of the pipeline controller, and a user who writes by hand, are the
\* only ones to change a text: the other controller creates ConfigMaps, with the
\* placeholder, and Kubernetes collects them.
LEMMA ContentKept ==
    ASSUME Drifts = {} \/ UNCHANGED edits, TypeOK, [Next]_vars,
           ~RebuildClusterConfig, NEW c \in Clusters, Actual(cmv')[c] # Absent
    PROVE  \/ /\ Actual(cmv)[c] = Absent
              /\ Actual(cmv')[c].content = PlaceholderContent
           \/ Actual(cmv')[c] = Actual(cmv)[c]
<1>1. ASSUME NEW d \in Clusters, NEW o \in ConfigMap \cup {Absent},
             SetConfigMap(d, o)
      PROVE  Actual(cmv')[c] = IF c = d THEN o ELSE Actual(cmv)[c]
  <2>1. Actual(cmv') = [Actual(cmv) EXCEPT ![d] = o]
    BY <1>1, ConfigMapWrite DEF TypeOK
  <2> QED
    BY <2>1, Reads DEF ConfigMapStore
<1>2. CASE Informers \/ Restart
  <2>1. \/ UNCHANGED cmv
        \/ ~Synced(cmv) /\ cmv' = Deliver(cmv)
        \/ cmv' = Relist(cmv)
    BY <1>2 DEF Informers, DeliverPipelines, DeliverConfigMaps,
                DeliverClusters, DeliverDeployments, Restart
  <2> QED
    BY <2>1, DeliverFacts, RelistFacts DEF TypeOK
<1>3. CASE ReconcileConfigMap
  <2> DEFINE new == [uid |-> cw.obj.uid, content |-> PlaceholderContent]
  <2>1. /\ cw.name \in Clusters /\ new \in ConfigMap
        /\ new.content = PlaceholderContent
    BY <1>3 DEF ReconcileConfigMap, TypeOK, ClusterObject, ConfigMap, Contents,
                PlaceholderContent
  <2>2. \/ UNCHANGED cmv
        \/ SetConfigMap(cw.name, new) /\ Actual(cmv)[cw.name] = Absent
    BY <1>3 DEF ReconcileConfigMap
  <2> HIDE DEF new
  <2> QED
    BY <1>1, <2>1, <2>2
<1>4. ASSUME NEW d \in Clusters, CollectConfigMap(d)
      PROVE  Actual(cmv')[c] = Actual(cmv)[c]
  BY <1>1, <1>4 DEF CollectConfigMap
<1>5. User => UNCHANGED cmv
  <2>1. \A p \in Pipelines, d \in Clusters, k \in Keys, e \in Defs :
          CreatePipeline(p, d, k, e) => UNCHANGED cmv
    BY DEF CreatePipeline
  <2>2. \A p \in Pipelines, d \in Clusters, k \in Keys, e \in Defs :
          EditPipeline(p, d, k, e) => UNCHANGED cmv
    BY DEF EditPipeline
  <2>3. /\ \A p \in Pipelines : DeletePipeline(p) => UNCHANGED cmv
        /\ \A d \in Clusters : DeleteCluster(d) => UNCHANGED cmv
        /\ \A d \in Clusters, j \in Images :
             CreateCluster(d, j) \/ EditCluster(d, j) => UNCHANGED cmv
    BY DEF DeletePipeline, CreateCluster, EditCluster, DeleteCluster
  <2>4. \A d \in Clusters, x \in Drifts : ~DriftConfigMap(d, x)
    BY DEF DriftConfigMap, Edits, TypeOK
  <2> QED
    BY <2>1, <2>2, <2>3, <2>4 DEF User
<1>6. PipelineController => UNCHANGED cmv
  BY DEF PipelineController, PipelineReconcile, AddFinalizer, StampDeployment,
         RemoveFinalizer, SetStatus, stores
<1>7. \/ UNCHANGED cmv
      \/ ReconcileConfigMap
      \/ \E d \in Clusters : CollectConfigMap(d)
      \/ Informers \/ Restart
  BY <1>5, <1>6
     DEF Next, ClusterController, ClusterReconcile, ReconcileDeployment,
         ReconcileStatus, PipelineCallFails, ClusterCallFails, Kubernetes,
         CollectDeployment, RolloutComplete, vars, stores
<1> QED
  BY <1>2, <1>3, <1>4, <1>7

\* What a rebuild writes.
LEMMA RebuildWrites ==
    ASSUME TypeOK, RebuildClusterConfig,
           NEW c \in Clusters, Actual(cmv')[c] # Actual(cmv)[c]
    PROVE  /\ c = pw.obj.cluster
           /\ Actual(cmv')[c].content =
                Render(Cached(plv), c, IF pw.obj.deleting THEN pw.name
                                       ELSE Absent)
<1> DEFINE d       == pw.obj.cluster
           content == Render(Cached(plv), d, IF pw.obj.deleting THEN pw.name
                                             ELSE Absent)
           cm      == Cached(cmv)[d]
           new     == [cm EXCEPT !.content = content]
<1>1. d \in Clusters
  BY DEF RebuildClusterConfig, TypeOK, PipelineObject
<1>2. cm # Absent /\ SetConfigMap(d, new)
  BY DEF RebuildClusterConfig
<1>3. cm \in ConfigMap /\ content \in Contents
  BY <1>1, <1>2, Reads, RenderType DEF ConfigMapStore
<1>4. new \in ConfigMap /\ new.content = content
  BY <1>3 DEF ConfigMap
<1> HIDE DEF new, content, d
<1>5. Actual(cmv') = [Actual(cmv) EXCEPT ![d] = new]
  BY <1>1, <1>2, <1>4, ConfigMapWrite DEF TypeOK
<1>6. c = d /\ Actual(cmv')[c] = new
  BY <1>1, <1>5, Reads DEF ConfigMapStore
<1> QED
  BY <1>4, <1>6 DEF d, content

\* No step but one of a user takes out an entry that is wanted.
LEMMA LastGoodStep ==
    ASSUME TypeOK, OrderInv, [Next]_vars, UNCHANGED edits,
           NEW c \in Clusters, NEW p \in Pipelines,
           Actual(cmv)[c] # Absent, Actual(cmv')[c] # Absent,
           NEW e \in Actual(cmv)[c].content,
           \A s \in Versions(plv) :
             /\ s[p] # Absent /\ s[p].finalizer /\ ~s[p].deleting
             /\ s[p].cluster = c /\ EntryOf(s[p]) = e
    PROVE  e \in Actual(cmv')[c].content
<1>1. CASE ~RebuildClusterConfig
  BY <1>1, ContentKept
<1>2. CASE RebuildClusterConfig /\ Actual(cmv')[c] # Actual(cmv)[c]
  <2> DEFINE exclude == IF pw.obj.deleting THEN pw.name ELSE Absent
             old     == Cached(plv)[p]
  <2>1. c = pw.obj.cluster /\ Actual(cmv')[c].content = Render(Cached(plv), c, exclude)
    BY <1>2, RebuildWrites
  <2>2. Cached(plv) \in Versions(plv)
    BY OrderFacts
  <2>3. Guarded(old) /\ ~old.deleting /\ old.cluster = c /\ EntryOf(old) = e
    BY <2>2 DEF Guarded
  <2>4. pw.name = p => ~pw.obj.deleting
    <3>1. pw.pc = "rebuild"
      BY <1>2 DEF RebuildClusterConfig
    <3>2. pw.name = p => Precedes(pw.obj, old)
      BY <2>2, <2>3, <3>1 DEF OrderInv, WorkerOrder
    <3> QED
      BY <2>3, <3>2 DEF Precedes
  <2>5. p # exclude
    BY <2>4, DefinitionAssumption
  <2>6. p \in Targets(Cached(plv), c, exclude)
    BY <2>3, <2>5 DEF Targets, Guarded
  <2> QED
    BY <2>1, <2>3, <2>6 DEF Render
<1> QED
  BY <1>1, <1>2

\* Whatever its siblings are like, with or without webhooks, with caches that
\* are behind, failed calls and restarts: the entry of a pipeline that has its
\* finalizer and that nobody touches stays in the text.
THEOREM LastGoodText == Spec => LastGoodTextStays
<1>1. Spec => []TypeOK /\ []ProtocolInv
  BY TypeCorrect, ProtocolInit, ProtocolStep, PTL DEF Spec
<1>2. Spec => []OrderInv
  BY <1>1, OrderInit, OrderStep, PTL DEF Spec
<1>3. TypeOK /\ OrderInv /\ [Next]_vars =>
        [\A c \in Clusters, p \in Pipelines :
           LET old == Actual(cmv)[c]
               new == Actual(cmv')[c]
               Untouched(e) ==
                 \A s \in Versions(plv) :
                   /\ s[p] # Absent /\ s[p].finalizer /\ ~s[p].deleting
                   /\ s[p].cluster = c /\ EntryOf(s[p]) = e
           IN  old # Absent /\ new # Absent /\ edits' = edits =>
                 \A e \in old.content : Untouched(e) => e \in new.content]_vars
  BY LastGoodStep
<1> QED
  BY <1>1, <1>2, <1>3, PTL DEF Spec, LastGoodTextStays

-----------------------------------------------------------------------------
(***************************************************************************)
(* What depends on the cache that the webhook and the worker decide from:  *)
(* it must be up to date.  With a cache that is behind, and with texts     *)
(* that somebody writes by hand, TLC finds counterexamples to both.        *)
(***************************************************************************)
\* No action but a delivery is taken with an informer further behind than its
\* bound: with the bound 0, what the cache holds is what the API server holds.
LEMMA CachesUpToDate ==
    ASSUME TypeOK, Fresh
    PROVE  /\ Lag["pipelines"] = 0 => Cached(plv) = Actual(plv)
           /\ Lag["configmaps"] = 0 => Cached(cmv) = Actual(cmv)
<1>1. ASSUME NEW S, NEW h \in History(S), Len(h) <= 1 + 0
      PROVE  Cached(h) = Actual(h)
  <2>1. Len(h) = 1
    BY <1>1, HistoryFacts
  <2> QED
    BY <2>1 DEF Cached, Actual
<1> QED
  BY <1>1 DEF TypeOK, Fresh

\* The pipelines of a cluster have keys of their own.
UniqueKeys ==
    \A p, q \in Pipelines :
      /\ p # q /\ Live(p) /\ Live(q)
      /\ Actual(plv)[p].cluster = Actual(plv)[q].cluster
      => Actual(plv)[p].key # Actual(plv)[q].key

\* No step of the worker changes a key, and what a user writes has been compared
\* with every other pipeline there is.
LEMMA UniqueKeysStep ==
    ASSUME Webhooks, Lag["pipelines"] = 0
    PROVE  TypeOK /\ ProtocolInv /\ UniqueKeys /\ [Next]_vars => UniqueKeys'
<1> SUFFICES ASSUME TypeOK, ProtocolInv, UniqueKeys, [Next]_vars
             PROVE  UniqueKeys'
  OBVIOUS
<1>1. \A p \in Pipelines : /\ Actual(plv)[p]' = Actual(plv')[p]
                           /\ Live(p)' <=> Actual(plv')[p] # Absent
  BY DEF Actual, Live
<1>2. ASSUME Actual(plv') = Actual(plv) PROVE UniqueKeys'
  BY <1>1, <1>2 DEF UniqueKeys, Live
<1>3. ASSUME NEW p \in Pipelines, NEW o \in PipelineObject \cup {Absent},
             SetPipeline(p, o),
             o # Absent =>
               \A q \in Pipelines \ {p} :
                 Live(q) => \/ Actual(plv)[q].cluster # o.cluster
                            \/ Actual(plv)[q].key # o.key
      PROVE  UniqueKeys'
  <2>1. /\ Actual(plv')[p] = o
        /\ \A q \in Pipelines \ {p} : Actual(plv')[q] = Actual(plv)[q]
    BY <1>3, WriteOrder
  <2> QED
    BY <1>1, <1>3, <2>1 DEF UniqueKeys, Live
<1>4. ASSUME NEW p \in Pipelines, NEW o, Live(p),
             o.cluster = Actual(plv)[p].cluster, o.key = Actual(plv)[p].key
      PROVE  \A q \in Pipelines \ {p} :
               Live(q) => \/ Actual(plv)[q].cluster # o.cluster
                          \/ Actual(plv)[q].key # o.key
  BY <1>4 DEF UniqueKeys
<1>5. CASE UserWrites
  <2>1. PICK p \in Pipelines, o \in PipelineObject \cup {Absent} :
          SetPipeline(p, o) /\ UserMay(p, Actual(plv)[p], o)
    BY <1>5 DEF UserWrites
  <2>2. CASE Admitted(p, o)
    <3>1. Cached(plv) = Actual(plv)
      BY <2>1, CachesUpToDate DEF UserMay
    <3>2. \A q \in Pipelines \ {p} :
            Live(q) => \/ Actual(plv)[q].cluster # o.cluster
                       \/ Actual(plv)[q].key # o.key
      BY <2>2, <3>1 DEF Admitted, Validate, Live
    <3> QED
      BY <1>3, <2>1, <3>2
  <2>3. CASE o = Absent
    BY <1>3, <2>1, <2>3
  <2>4. CASE /\ Live(p)
             /\ o.cluster = Actual(plv)[p].cluster
             /\ o.key = Actual(plv)[p].key
    BY <1>3, <1>4, <2>1, <2>4
  <2> QED
    BY <2>1, <2>2, <2>3, <2>4 DEF UserMay, Live
<1>6. CASE WorkerWrites
  <2>1. PICK o \in PipelineObject \cup {Absent} :
          /\ pw.name \in Pipelines /\ pw.obj \in PipelineObject
          /\ Actual(plv)[pw.name] = pw.obj
          /\ SetPipeline(pw.name, o) /\ WorkerChange(o)
    BY <1>6 DEF WorkerWrites
  <2>2. Live(pw.name)
    BY <2>1, ObjectAssumption DEF Live
  <2>3. o = Absent \/ (o.cluster = pw.obj.cluster /\ o.key = pw.obj.key)
    BY <2>1 DEF WorkerChange, PipelineObject
  <2> QED
    BY <1>3, <1>4, <2>1, <2>2, <2>3
<1> QED
  BY <1>2, <1>5, <1>6, PipelineHistory, DeliverFacts, RelistFacts DEF TypeOK

\* With webhooks, and a cache of pipelines that is up to date when the webhook
\* reads it, no two pipelines of a cluster ever have the same key.
LEMMA KeysAreUnique ==
    ASSUME Webhooks, Lag["pipelines"] = 0
    PROVE  Spec => []UniqueKeys
<1>1. Spec => []TypeOK /\ []ProtocolInv
  BY TypeCorrect, ProtocolInit, ProtocolStep, PTL DEF Spec
<1>2. Init => UniqueKeys
  BY DEF Init, UniqueKeys, Live, Actual
<1>3. TypeOK /\ ProtocolInv /\ UniqueKeys /\ [Next]_vars => UniqueKeys'
  BY UniqueKeysStep
<1> QED
  BY <1>1, <1>2, <1>3, PTL DEF Spec

(***************************************************************************)
(* The inductive invariant of a deletion: from the rebuild on, as long as  *)
(* the object is current, the ConfigMap has no entry under its key.        *)
(***************************************************************************)
EntryGone ==
    LET cm == Actual(cmv)[pw.obj.cluster] IN
    pw.pc \in {"stamp", "removeFinalizer"} /\ pw.obj.deleting /\ WorkerCurrent
      => (cm # Absent => \A e \in cm.content : e.key # pw.obj.key)

\* The rebuild of a deletion takes the entry out, and finds no other pipeline
\* with the key; if it finds no ConfigMap, there is none.
LEMMA RebuildEmpties ==
    ASSUME Lag["pipelines"] = 0, Lag["configmaps"] = 0,
           TypeOK, OrderInv, UniqueKeys, RebuildClusterConfig,
           pw.obj.deleting, WorkerCurrent, pw'.pc # "idle",
           LET cm == Actual(cmv')[pw.obj.cluster] IN
           cm # Absent,
           NEW e \in Actual(cmv')[pw.obj.cluster].content
    PROVE  e.key # pw.obj.key
<1> DEFINE p       == pw.name
           c       == pw.obj.cluster
           content == Render(Cached(plv), c, p)
           cm      == Cached(cmv)[c]
           new     == [cm EXCEPT !.content = content]
<1>1. /\ p \in Pipelines /\ pw.obj \in PipelineObject /\ c \in Clusters
      /\ pw.pc = "rebuild"
  BY DEF RebuildClusterConfig, TypeOK, PipelineObject
<1>2. Cached(plv) = Actual(plv) /\ Cached(cmv) = Actual(cmv)
  BY CachesUpToDate DEF RebuildClusterConfig
<1>3. Actual(cmv')[c].content = content
  <2>1. pw' # PipelineIdle
    BY DEF PipelineIdle
  <2>2. \/ /\ UNCHANGED cmv
           /\ \/ cm = Absent
              \/ cm # Absent /\ Actual(cmv)[c] = Absent
              \/ cm # Absent /\ cm.content = content
        \/ cm # Absent /\ SetConfigMap(c, new)
    BY <2>1 DEF RebuildClusterConfig, PipelineReturnErr
  <2>3. CASE ~(cm # Absent /\ SetConfigMap(c, new))
    <3>1. Actual(cmv')[c] = cm /\ cm # Absent
      <4>1. cmv' = cmv
        BY <2>2, <2>3
      <4>2. Actual(cmv')[c] = Actual(cmv)[c]
        BY <4>1
      <4> QED
        BY <1>2, <4>2
    <3> QED
      BY <1>2, <2>2, <2>3, <3>1
  <2>4. CASE cm # Absent /\ SetConfigMap(c, new)
    <3>1. cm \in ConfigMap
      BY <1>1, <2>4, Reads DEF ConfigMapStore
    <3>2. content \in Contents
      BY Reads, RenderType
    <3>3. new \in ConfigMap /\ new.content = content
      BY <3>1, <3>2 DEF ConfigMap
    <3> HIDE DEF new, content, c
    <3>4. Actual(cmv') = [Actual(cmv) EXCEPT ![c] = new]
      BY <1>1, <2>4, <3>3, ConfigMapWrite DEF TypeOK
    <3>5. Actual(cmv')[c] = new
      BY <1>1, <3>4, Reads DEF ConfigMapStore
    <3> QED
      BY <3>3, <3>5
  <2> QED
    BY <2>2, <2>3, <2>4
<1>4. PICK q \in Targets(Cached(plv), c, p) : e = EntryOf(Cached(plv)[q])
  BY <1>3 DEF Render
<1>5. /\ q \in Pipelines \ {p} /\ Live(q)
      /\ Actual(plv)[q].cluster = c /\ e.key = Actual(plv)[q].key
  BY <1>2, <1>4 DEF Targets, Live, EntryOf
<1>6. /\ Live(p) /\ Actual(plv)[p].cluster = c
      /\ Actual(plv)[p].key = pw.obj.key
  <2>1. /\ Guarded(Actual(plv)[p])
        /\ Actual(plv)[p].generation = pw.obj.generation
    BY DEF WorkerCurrent
  <2>2. Precedes(pw.obj, Actual(plv)[p])
    BY <1>1, <2>1, OrderFacts DEF OrderInv, WorkerOrder
  <2> QED
    BY <2>1, <2>2 DEF Precedes, Guarded, Live
<1> QED
  BY <1>1, <1>5, <1>6 DEF UniqueKeys

\* The entry stays away until the finalizer is removed.
LEMMA EntryGoneStep ==
    ASSUME Webhooks, Lag["pipelines"] = 0, Lag["configmaps"] = 0, Drifts = {}
    PROVE  TypeOK /\ ProtocolInv /\ OrderInv /\ UniqueKeys /\ EntryGone
               /\ [Next]_vars
             => EntryGone'
<1> SUFFICES ASSUME TypeOK, ProtocolInv, OrderInv, UniqueKeys, EntryGone,
                    [Next]_vars
             PROVE  EntryGone'
  OBVIOUS
<1> SUFFICES ASSUME pw'.pc \in {"stamp", "removeFinalizer"}, pw'.obj.deleting,
                    WorkerCurrent',
                    NEW cm, cm = Actual(cmv')[pw'.obj.cluster], cm # Absent,
                    NEW e \in cm.content
             PROVE  e.key # pw'.obj.key
  <2>1. Actual(cmv)[pw.obj.cluster]' = Actual(cmv')[pw'.obj.cluster]
    BY DEF Actual
  <2> QED
    BY <2>1 DEF EntryGone
<1>1. pw'.obj.cluster \in Clusters
  BY TypeStep DEF TypeOK, PipelineObject
<1>2. ASSUME ~RebuildClusterConfig, pw'.obj = pw.obj, WorkerCurrent,
             pw.pc \in {"stamp", "removeFinalizer"}
      PROVE  e.key # pw'.obj.key
  <2>1. cm.content = {} \/ cm = Actual(cmv)[pw.obj.cluster]
    BY <1>1, <1>2, ContentKept DEF PlaceholderContent
  <2> QED
    BY <1>2, <2>1 DEF EntryGone
<1>3. CASE UNCHANGED pw
  <2>1. WorkerCurrent
    BY <1>3, CurrentBefore
  <2>2. ~RebuildClusterConfig
    BY <1>3 DEF RebuildClusterConfig
  <2> QED
    BY <1>2, <1>3, <2>1, <2>2
<1>4. CASE RebuildClusterConfig \/ StampDeployment
  <2>1. UNCHANGED plv /\ pw.pc \in {"rebuild", "stamp"}
    BY <1>4 DEF RebuildClusterConfig, StampDeployment
  <2>2. pw'.obj = pw.obj /\ pw'.name = pw.name
    BY <1>4, <2>1, WorkerMoves DEF PipelineIdle, PipelineReconcile
  <2>3. WorkerCurrent
    BY <2>1, <2>2 DEF WorkerCurrent
  <2>4. CASE RebuildClusterConfig
    BY <2>2, <2>3, <2>4, RebuildEmpties
  <2>5. CASE StampDeployment
    BY <1>2, <2>2, <2>3, <2>5 DEF StampDeployment, RebuildClusterConfig
  <2> QED
    BY <1>4, <2>4, <2>5
<1>5. ASSUME NEW p \in Pipelines, PipelineReconcile(p) PROVE FALSE
  BY <1>5 DEF PipelineReconcile, PipelineIdle, PipelineBranch
<1> QED
  BY <1>3, <1>4, <1>5, WorkerMoves DEF PipelineIdle

\* Only the worker takes away a pipeline that has the finalizer.
LEMMA NoOrphanStep ==
    ASSUME TypeOK, ProtocolInv, EntryGone, [Next]_vars, NEW p \in Pipelines,
           Live(p), Actual(plv)[p].finalizer, Actual(plv')[p] = Absent,
           NEW cm, cm = Actual(cmv)[Actual(plv)[p].cluster], cm # Absent
    PROVE  \A e \in cm.content : e.key # Actual(plv)[p].key
<1>1. CASE UserWrites
  <2>1. PICK q \in Pipelines, o \in PipelineObject \cup {Absent} :
          SetPipeline(q, o) /\ UserChange(Actual(plv)[q], o)
    BY <1>1 DEF UserWrites
  <2>2. q = p /\ o = Absent
    BY <2>1, WriteOrder DEF Live
  <2> QED
    BY <2>1, <2>2 DEF UserChange, Live
<1>2. CASE WorkerWrites
  <2>1. PICK o \in PipelineObject \cup {Absent} :
          /\ pw.name \in Pipelines /\ pw.obj \in PipelineObject
          /\ Actual(plv)[pw.name] = pw.obj
          /\ SetPipeline(pw.name, o) /\ WorkerChange(o)
    BY <1>2 DEF WorkerWrites
  <2>2. pw.name = p /\ o = Absent
    BY <2>1, WriteOrder DEF Live
  <2>3. pw.pc = "removeFinalizer"
    <3>1. CASE o = [pw.obj EXCEPT !.finalizer = TRUE]
      <4>1. o \in PipelineObject
        BY <2>1, <3>1 DEF PipelineObject
      <4> QED
        BY <2>2, <4>1, ObjectAssumption
    <3>2. CASE /\ o = [pw.obj EXCEPT !.phase = pw.pc,
                                     !.observed = pw.obj.generation]
               /\ pw.pc \in {"Pending", "Applied"}
      <4>1. o \in PipelineObject
        BY <2>1, <3>2 DEF PipelineObject
      <4> QED
        BY <2>2, <4>1, ObjectAssumption
    <3> QED
      BY <2>1, <3>1, <3>2 DEF WorkerChange
  <2>4. pw.obj.deleting
    BY <2>3 DEF ProtocolInv, WorkerInv
  <2>5. WorkerCurrent
    BY <2>1, <2>2 DEF WorkerCurrent, Guarded, Live
  <2> QED
    BY <2>1, <2>2, <2>3, <2>4, <2>5 DEF EntryGone
<1>3. CASE UNCHANGED plv \/ (~Synced(plv) /\ plv' = Deliver(plv)) \/ plv' = Relist(plv)
  <2>1. Actual(plv') = Actual(plv)
    BY <1>3, DeliverFacts, RelistFacts DEF TypeOK
  <2> QED
    BY <2>1 DEF Live
<1> QED
  BY <1>1, <1>2, <1>3, PipelineHistory

\* With webhooks, with caches of pipelines and ConfigMaps that are up to date
\* when the operator acts on them, and if nobody edits a ConfigMap by hand, a
\* pipeline with the finalizer leaves the API server only after its entry has
\* left the ConfigMap.
THEOREM NothingIsOrphaned ==
    ASSUME Webhooks, Lag["pipelines"] = 0, Lag["configmaps"] = 0, Drifts = {}
    PROVE  Spec => NoOrphanOnDelete
<1>1. Spec => []TypeOK /\ []ProtocolInv
  BY TypeCorrect, ProtocolInit, ProtocolStep, PTL DEF Spec
<1>2. Spec => []OrderInv
  BY <1>1, OrderInit, OrderStep, PTL DEF Spec
<1>3. Init => EntryGone
  BY DEF Init, PipelineIdle, EntryGone
<1>4. TypeOK /\ ProtocolInv /\ OrderInv /\ UniqueKeys /\ EntryGone /\ [Next]_vars
        => EntryGone'
  BY EntryGoneStep
<1>5. Spec => []UniqueKeys
  BY KeysAreUnique
<1>6. Spec => []EntryGone
  BY <1>1, <1>2, <1>3, <1>4, <1>5, PTL DEF Spec
<1>7. TypeOK /\ ProtocolInv /\ EntryGone /\ [Next]_vars =>
        [\A p \in Pipelines :
           LET o  == Actual(plv)[p]
               cm == Actual(cmv)[o.cluster]
           IN  Live(p) /\ o.finalizer /\ Actual(plv')[p] = Absent /\ cm # Absent
                 => \A e \in cm.content : e.key = o.key =>
                      \E q \in Pipelines \ {p} :
                        /\ Live(q)
                        /\ Actual(plv)[q].cluster = o.cluster
                        /\ Actual(plv)[q].key = o.key]_vars
  BY NoOrphanStep
<1> QED
  BY <1>1, <1>6, <1>7, PTL DEF Spec, NoOrphanOnDelete

=============================================================================
