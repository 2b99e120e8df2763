----------------------- MODULE ClusterReconcilerProofs -----------------------
(***************************************************************************)
(* The cluster controller, for all values of the constants: types, that    *)
(* the children and the status follow the generations of the spec as       *)
(* ClusterConvergence says, and that no update of a child or of the status *)
(* is lost, whatever the informers are behind.                             *)
(***************************************************************************)
EXTENDS ClusterReconciler, InformerProofs

ClusterObject == [uid : Nat, spec : Specs, generation : Nat,
                  status : SUBSET Status]

LEMMA KindFacts ==
    /\ Objects["cluster"] = ClusterObject /\ Objects["class"] = Images
    /\ Objects["pipelines"] = {"owned"} /\ Objects["peer"] = PeerConfigs
    /\ Objects["deployment"] = Deployment /\ Objects["service"] = Ports
    /\ Objects["headless"] = {"owned"} /\ Objects["monitor"] = {"owned"}
    /\ Objects["hpa"] = Autoscaling
    /\ Children \subseteq Kinds /\ Kinds = Children \cup {"cluster", "class"}
    /\ Kinds \ Watched = {"class", "monitor"} /\ Watched \subseteq Kinds
  BY DEF Objects, Children, Kinds, Watched, ClusterObject

\* Nothing that is there is Absent.
LEMMA Presence ==
    ASSUME NEW k \in Kinds, NEW o \in Objects[k]
    PROVE  o # Absent
  BY ObjectAssumption

-----------------------------------------------------------------------------
(***************************************************************************)
(* The histories.                                                          *)
(***************************************************************************)
HistoriesOK ==
    /\ DOMAIN hist = Kinds
    /\ \A k \in Kinds : hist[k] \in History(Objects[k] \cup {Absent})

\* What is read and what there is.
LEMMA ReadFacts ==
    ASSUME HistoriesOK, NEW k \in Kinds
    PROVE  /\ Read(k) \in Objects[k] \cup {Absent}
           /\ Now(k) \in Objects[k] \cup {Absent}
           /\ Synced(hist[k]) => Now(k) = Read(k)
           /\ Read(k) \in Versions(hist[k]) /\ Now(k) \in Versions(hist[k])
           /\ Versions(hist[k]) \subseteq Objects[k] \cup {Absent}
<1>1. hist[k] \in History(Objects[k] \cup {Absent})
  BY DEF HistoriesOK
<1> QED
  BY <1>1, HistoryFacts, QuietFacts DEF Read, Now

\* A history of one version.
LEMMA Single ==
    ASSUME NEW S, NEW o \in S
    PROVE  /\ <<o>> \in History(S) /\ Actual(<<o>>) = o /\ Cached(<<o>>) = o
           /\ Synced(<<o>>) /\ Versions(<<o>>) = {o}
<1>1. /\ <<o>> \in Seq(S) /\ <<o>> # <<>> /\ Len(<<o>>) = 1
      /\ DOMAIN <<o>> = {1} /\ <<o>>[1] = o
  OBVIOUS
<1> QED
  BY <1>1 DEF History, Actual, Cached, Synced, Versions

\* A write: after it the object is as written; either it was so before, or the
\* informer has something to receive.
LEMMA WriteFacts ==
    ASSUME HistoriesOK, NEW k \in Kinds, NEW o \in Objects[k] \cup {Absent},
           Write(k, o)
    PROVE  /\ HistoriesOK'
           /\ Actual(hist'[k]) = o
           /\ Versions(hist'[k]) \subseteq Versions(hist[k]) \cup {o}
           /\ \A j \in Kinds \ {k} : hist'[j] = hist[j]
           /\ k # "monitor" => /\ hist'[k] = Commit(hist[k], o)
                               /\ Cached(hist'[k]) = Cached(hist[k])
                               /\ \/ o = Now(k) /\ hist'[k] = hist[k]
                                  \/ ~Synced(hist'[k])
           /\ k = "monitor" => hist'[k] = <<o>>
<1> DEFINE S == Objects[k] \cup {Absent}
<1>1. hist[k] \in History(S)
  BY DEF HistoriesOK
<1>2. /\ \A j \in Kinds \ {k} : hist'[j] = hist[j]
      /\ hist'[k] = IF k = "monitor" THEN <<o>> ELSE Commit(hist[k], o)
      /\ DOMAIN hist' = Kinds
  BY DEF Write, HistoriesOK
<1>3. CASE k = "monitor"
  <2>1. hist'[k] \in History(S) /\ Actual(hist'[k]) = o
          /\ Versions(hist'[k]) = {o}
    BY <1>2, <1>3, Single
  <2> QED
    BY <1>2, <1>3, <2>1 DEF HistoriesOK
<1>4. CASE k # "monitor"
  <2>1. hist'[k] = Commit(hist[k], o)
    BY <1>2, <1>4
  <2>2. /\ hist'[k] \in History(S) /\ Actual(hist'[k]) = o
        /\ Versions(hist'[k]) \subseteq Versions(hist[k]) \cup {o}
    BY <1>1, <2>1, CommitFacts
  <2>3. /\ Cached(hist'[k]) = Cached(hist[k])
        /\ \/ o = Now(k) /\ hist'[k] = hist[k]
           \/ ~Synced(hist'[k])
    <3>1. CASE o = Now(k)
      BY <2>1, <3>1 DEF Commit, Now
    <3>2. CASE o # Now(k)
      <4>1. hist[k] \in Seq(S) /\ Len(hist[k]) \in Nat \ {0}
        BY <1>1, HistoryFacts DEF History
      <4>2. hist'[k] = Append(hist[k], o)
        BY <2>1, <3>2 DEF Commit, Now
      <4>3. Len(hist'[k]) = Len(hist[k]) + 1 /\ hist'[k][1] = hist[k][1]
        BY <4>1, <4>2
      <4> QED
        BY <4>1, <4>3 DEF Synced, Cached
    <3> QED
      BY <3>1, <3>2
  <2> QED
    BY <1>2, <1>4, <2>1, <2>2, <2>3 DEF HistoriesOK
<1> QED
  BY <1>3, <1>4

\* An event arrives.
LEMMA ReceiveFacts ==
    ASSUME HistoriesOK, NEW k \in Kinds, Receive(k)
    PROVE  /\ HistoriesOK'
           /\ Actual(hist'[k]) = Now(k)
           /\ Versions(hist'[k]) \subseteq Versions(hist[k])
           /\ hist'[k] = Deliver(hist[k]) /\ ~Synced(hist[k])
           /\ \A j \in Kinds \ {k} : hist'[j] = hist[j]
<1>1. hist[k] \in History(Objects[k] \cup {Absent})
  BY DEF HistoriesOK
<1>2. /\ \A j \in Kinds \ {k} : hist'[j] = hist[j]
      /\ hist'[k] = Deliver(hist[k]) /\ ~Synced(hist[k])
      /\ DOMAIN hist' = Kinds
  BY DEF Receive, HistoriesOK
<1>3. /\ Deliver(hist[k]) \in History(Objects[k] \cup {Absent})
      /\ Actual(Deliver(hist[k])) = Actual(hist[k])
      /\ Versions(Deliver(hist[k])) \subseteq Versions(hist[k])
  BY <1>1, <1>2, DeliverFacts
<1> QED
  BY <1>2, <1>3 DEF HistoriesOK, Now

\* The new process lists every kind.
LEMMA RestartFacts ==
    ASSUME HistoriesOK, Restart
    PROVE  /\ HistoriesOK'
           /\ \A k \in Kinds : /\ Actual(hist'[k]) = Now(k)
                               /\ Versions(hist'[k]) = {Now(k)}
                               /\ Cached(hist'[k]) = Now(k)
                               /\ Synced(hist'[k])
                               /\ hist'[k] = Relist(hist[k])
<1>1. hist' = [k \in Kinds |-> Relist(hist[k])]
  BY DEF Restart
<1>2. ASSUME NEW k \in Kinds
      PROVE  /\ hist'[k] \in History(Objects[k] \cup {Absent})
             /\ Actual(hist'[k]) = Now(k) /\ Versions(hist'[k]) = {Now(k)}
             /\ Cached(hist'[k]) = Now(k) /\ Synced(hist'[k])
             /\ hist'[k] = Relist(hist[k])
  <2>1. hist'[k] = <<Now(k)>> /\ hist'[k] = Relist(hist[k])
    BY <1>1 DEF Relist, Now
  <2>2. Now(k) \in Objects[k] \cup {Absent}
    BY ReadFacts
  <2> QED
    BY <2>1, <2>2, Single
<1> QED
  BY <1>1, <1>2 DEF HistoriesOK

-----------------------------------------------------------------------------
(***************************************************************************)
(* What the controller computes has the right type.                        *)
(***************************************************************************)
\* What TypeOK says of the rest.
RestOK ==
    /\ queued \in BOOLEAN
    /\ cw \in [pc    : {"idle", "status"} \cup Children,
               obj   : ClusterObject \cup {Absent},
               image : Images \cup {NoImage}]
    /\ cw.pc # "idle" => cw.obj \in ClusterObject /\ cw.image \in Images
    /\ pods \in PodSet
    /\ owner \in [Children -> Nat] /\ revision \in Nat
    /\ applied \in [Children -> Nat] /\ unseen \subseteq {"class", "monitor"}
    /\ edits \in Nat /\ faults \in Nat

LEMMA TypeParts ==
    /\ TypeOK <=> HistoriesOK /\ RestOK
    /\ HistoriesOK' /\ RestOK' => TypeOK'
  BY KindFacts DEF TypeOK, HistoriesOK, RestOK

\* The specs are what users may write.
LEMMA SpecFacts ==
    ASSUME NEW o \in ClusterObject
    PROVE  /\ o.spec \in Specs /\ o.spec \in ClusterSpec
           /\ o.uid \in Nat /\ o.generation \in Nat
           /\ o.status \in SUBSET Status
           /\ o.spec.image \in Images \cup {NoImage} /\ o.spec.ports \in Ports
           /\ o.spec.server \in BOOLEAN /\ o.spec.monitor \in BOOLEAN
           /\ o.spec.class \in BOOLEAN /\ o.spec.replicas \in Nat \ {0}
           /\ o.spec.autoscaling \subseteq Autoscaling
           /\ \A a, b \in o.spec.autoscaling : a = b
<1>1. o.spec \in Specs /\ o.spec \in ClusterSpec
  BY ClusterAssumption DEF ClusterObject
<1>2. /\ o.uid \in Nat /\ o.generation \in Nat
      /\ o.status \in SUBSET Status
  BY DEF ClusterObject
<1> QED
  BY <1>1, <1>2, ClusterAssumption DEF ClusterSpec

\* An image that has been resolved is one: never the empty string.
LEMMA ResolveType ==
    ASSUME HistoriesOK, NEW o \in ClusterObject, NEW i \in ResolveConfig(o.spec)
    PROVE  i \in Images
<1>1. Read("class") \in Images \cup {Absent}
  BY ReadFacts, KindFacts
<1> QED
  BY <1>1, SpecFacts DEF ResolveConfig

\* Fields of a Deployment.
LEMMA DeploymentFacts ==
    ASSUME NEW d \in Deployment
    PROVE  /\ d.template \in Template /\ d.replicas \in Nat /\ d.ready \in Nat
           /\ d.created \in BOOLEAN /\ d.seen \in BOOLEAN
           /\ d.template.server \in BOOLEAN /\ d.template.image \in Images
  BY DEF Deployment, Template

LEMMA TemplateType ==
    ASSUME NEW o \in ClusterObject, NEW i \in Images
    PROVE  /\ TemplateOf(o.spec, i) \in Template
           /\ TemplateOf(o.spec, i).image = i
           /\ RenderPeerConfig(o.spec) \in PeerConfigs
  BY SpecFacts DEF TemplateOf, Template, RenderPeerConfig, PeerConfigs

\* The Deployment that the controller writes: its fields are those that the
\* spec asks for.
LEMMA NewDeploymentFacts ==
    ASSUME NEW o \in ClusterObject, NEW i \in Images
    PROVE  LET new == NewDeployment(o.spec, i) IN
           /\ new \in Deployment
           /\ new.template = TemplateOf(o.spec, i)
           /\ new.replicas = o.spec.replicas
           /\ new.ready = 0
  BY TemplateType, SpecFacts DEF NewDeployment, Deployment

LEMMA RespecifiedFacts ==
    ASSUME NEW d \in Deployment, NEW e \in Deployment
    PROVE  /\ Respecified(d, e) \in Deployment
           /\ Respecified(d, e).template = e.template
           /\ Respecified(d, e).replicas = e.replicas
           /\ Respecified(d, e).ready = e.ready
  BY DEF Respecified, Deployment

LEMMA UpdatedDeploymentFacts ==
    ASSUME NEW d \in Deployment, NEW o \in ClusterObject, NEW i \in Images
    PROVE  LET new == UpdatedDeployment(d, o.spec, i) IN
           /\ new \in Deployment
           /\ new.template = TemplateOf(o.spec, i)
           /\ o.spec.autoscaling = {} => new.replicas = o.spec.replicas
           /\ new.ready = d.ready
<1> DEFINE t == TemplateOf(o.spec, i)
           n == ReplicasFor(d, o.spec)
           e == [d EXCEPT !.template = t, !.replicas = n]
<1>1. t \in Template /\ n \in Nat
  BY TemplateType, SpecFacts, DeploymentFacts DEF ReplicasFor
<1> HIDE DEF t, n
<1>2. e \in Deployment /\ e.template = t /\ e.replicas = n /\ e.ready = d.ready
  BY <1>1 DEF Deployment
<1>3. UpdatedDeployment(d, o.spec, i) = Respecified(d, e)
  BY DEF UpdatedDeployment, t, n
<1>4. o.spec.autoscaling = {} => n = o.spec.replicas
  BY DEF n, ReplicasFor
<1> HIDE DEF e
<1> QED
  BY <1>2, <1>3, <1>4, RespecifiedFacts DEF t

LEMMA StatusFacts ==
    ASSUME NEW d \in Deployment, NEW o \in ClusterObject
    PROVE  /\ StatusOf(d, o) \in Status
           /\ StatusOf(d, o).observed = o.generation
           /\ [o EXCEPT !.status = {StatusOf(d, o)}] \in ClusterObject
<1>1. StatusOf(d, o) \in Status /\ StatusOf(d, o).observed = o.generation
  BY SpecFacts, DeploymentFacts DEF StatusOf, Status
<1> QED
  BY <1>1 DEF ClusterObject

-----------------------------------------------------------------------------
(***************************************************************************)
(* One child after the other.                                              *)
(***************************************************************************)
\* The ServiceMonitor is read from the API server, and there is none without
\* its CRD.
MonitorInv ==
    /\ Synced(hist["monitor"])
    /\ ~MonitorCRD => Now("monitor") = Absent

Typed == TypeOK /\ MonitorInv

\* Child o of kind k is what spec and image ask for.
Fits(k, o, spec, image) ==
    /\ k \in {"pipelines", "headless"} => o # Absent
    /\ k = "service" => o = spec.ports
    /\ k = "peer" => o = IF spec.server THEN Absent ELSE RenderPeerConfig(spec)
    /\ k = "monitor" => ((o # Absent) <=> (spec.monitor /\ MonitorCRD))
    /\ k = "hpa" => {o} \ {Absent} = spec.autoscaling
    /\ k = "deployment" =>
         /\ o # Absent
         /\ o.template = TemplateOf(spec, image)
         /\ spec.autoscaling = {} => o.replicas = spec.replicas

\* The write of a Deployment does not change how many pods are ready.
KeepsReady(k, o) ==
    k = "deployment" =>
      o.ready = IF Now(k) = Absent THEN 0 ELSE Now(k).ready

\* The children that are compared before they are written, and those that are
\* never left alone on account of a stale read.
Compared == Children \ {"deployment", "service"}
Exact    == {k \in Children : k \notin Compared \/ k = "monitor" \/ Lag[k] = 0}

\* A child has been found in line, or brought into line, or the call has
\* failed.
Found(k)   == /\ k \in Compared
              /\ Keep /\ Fits(k, Read(k), cw.obj.spec, cw.image)
Written(k) ==
    /\ Proceed /\ MarkApplied
    /\ owner' \in [Children -> Nat]
    /\ \/ UNCHANGED owner
       \/ Now(k) = Absent /\ owner' = [owner EXCEPT ![k] = cw.obj.uid]
    /\ \E o \in Objects[k] \cup {Absent} :
         /\ Write(k, o)
         /\ Fits(k, o, cw.obj.spec, cw.image)
         /\ KeepsReady(k, o)
Outcome(k) ==
    /\ Fresh /\ cw.pc = k
    /\ UNCHANGED <<pods, revision, bounds>>
    /\ Fail \/ Found(k) \/ Written(k)

\* What the worker has passed counts as in line, but for a stale read.
Marked == MarkApplied \/ UNCHANGED applied
Passes == Proceed /\ Marked /\ (cw.pc \in Exact => MarkApplied)

LEMMA FreshRead ==
    ASSUME Typed, Fresh, NEW k \in Children, Lag[k] = 0
    PROVE  Now(k) = Read(k)
<1>1. /\ HistoriesOK /\ k \in Kinds
      /\ hist[k] \in History(Objects[k] \cup {Absent})
  BY TypeParts, KindFacts DEF Typed, HistoriesOK
<1>2. Len(hist[k]) \in Nat \ {0} /\ Len(hist[k]) <= 1 + 0
  BY <1>1, HistoryFacts DEF Fresh
<1>3. \A n \in Nat \ {0} : n <= 1 + 0 => n = 1
  OBVIOUS
<1>4. Len(hist[k]) = 1
  BY <1>2, <1>3
<1> QED
  BY <1>1, <1>4, ReadFacts DEF Synced

LEMMA PassesChild ==
    ASSUME Typed, Fresh, NEW k \in Children, cw.pc = k, Found(k) \/ Written(k)
    PROVE  Passes
<1>1. CASE Written(k)
  BY <1>1 DEF Written, Passes, Marked
<1>2. CASE Found(k)
  <2>1. Proceed /\ Marked
    BY <1>2 DEF Found, Keep, Marked
  <2>2. CASE k = "monitor"
    <3>1. HistoriesOK /\ k \in Kinds
      BY TypeParts, KindFacts DEF Typed
    <3>2. Now(k) = Read(k)
      BY <2>2, <3>1, ReadFacts DEF Typed, MonitorInv
    <3> QED
      BY <1>2, <2>1, <3>2 DEF Found, Keep, Passes
  <2>3. CASE Lag[k] = 0
    BY <1>2, <2>1, <2>3, FreshRead DEF Found, Keep, Passes
  <2> QED
    BY <1>2, <2>1, <2>2, <2>3 DEF Exact, Found, Passes
<1> QED
  BY <1>1, <1>2

\* Put and its relatives.
LEMMA PutOutcome ==
    ASSUME TypeOK, NEW k \in Children, cw.pc = k,
           NEW o \in Objects[k] \cup {Absent}, Put(k, o),
           Fits(k, o, cw.obj.spec, cw.image), KeepsReady(k, o)
    PROVE  Fail \/ Found(k) \/ Written(k)
<1>1. cw.obj.uid \in Nat /\ owner \in [Children -> Nat]
  BY TypeParts, SpecFacts DEF RestOK, Children
<1> QED
  BY <1>1 DEF Put, Written

LEMMA PutIfChangedOutcome ==
    ASSUME TypeOK, NEW k \in Compared, cw.pc = k,
           NEW o \in Objects[k] \cup {Absent}, PutIfChanged(k, o),
           Fits(k, o, cw.obj.spec, cw.image)
    PROVE  Fail \/ Found(k) \/ Written(k)
<1>1. KeepsReady(k, o)
  BY DEF KeepsReady, Compared
<1> QED
  BY <1>1, PutOutcome DEF PutIfChanged, Found, Compared

LEMMA RemoveOutcome ==
    ASSUME TypeOK, NEW k \in Compared, cw.pc = k, Remove(k),
           Fits(k, Absent, cw.obj.spec, cw.image)
    PROVE  Fail \/ Found(k) \/ Written(k)
<1>1. owner \in [Children -> Nat] /\ KeepsReady(k, Absent)
  BY TypeParts DEF RestOK, KeepsReady, Compared
<1>2. CASE Read(k) = Absent /\ Keep
  BY <1>2 DEF Found
<1>3. CASE Fail
  BY <1>3
<1>4. CASE /\ Read(k) # Absent /\ Now(k) # Absent
           /\ Write(k, Absent) /\ Proceed /\ MarkApplied /\ UNCHANGED owner
  BY <1>1, <1>4 DEF Written
<1> QED
  BY <1>2, <1>3, <1>4 DEF Remove

\* Every step of the worker but the last has such an outcome.
LEMMA StepOutcome ==
    Typed /\ Step => ReconcileStatus \/ \E k \in Children : Outcome(k)
<1> SUFFICES ASSUME Typed, Step, ~ReconcileStatus
             PROVE  \E k \in Children : Outcome(k)
  OBVIOUS
<1>0. HistoriesOK /\ RestOK /\ TypeOK
  BY TypeParts DEF Typed
<1>1. cw.pc \in Children => cw.obj \in ClusterObject /\ cw.image \in Images
  BY <1>0 DEF RestOK, Children
<1> DEFINE spec == cw.obj.spec
<1>2. CASE ReconcileConfigMap
  <2>1. /\ Fresh /\ cw.pc = "pipelines" /\ UNCHANGED <<pods, revision, bounds>>
        /\ "owned" # Absent /\ "owned" \in Objects["pipelines"]
    BY <1>2, Presence, KindFacts DEF ReconcileConfigMap, At, Children, Compared
  <2>2. /\ "pipelines" \in Compared /\ "pipelines" \in Children
        /\ KeepsReady("pipelines", "owned")
    BY DEF Children, KeepsReady, Compared
  <2>3. Fits("pipelines", "owned", spec, cw.image)
    BY <2>1 DEF Fits
  <2>4. CASE Put("pipelines", "owned")
    BY <1>0, <2>1, <2>2, <2>3, <2>4, PutOutcome DEF Outcome
  <2>5. CASE Read("pipelines") # Absent /\ Keep
    BY <2>1, <2>2, <2>5 DEF Outcome, Found, Fits
  <2> QED
    BY <1>2, <2>4, <2>5 DEF ReconcileConfigMap
<1>3. CASE ReconcilePeerConfig
  <2>1. /\ Fresh /\ cw.pc = "peer" /\ UNCHANGED <<pods, revision, bounds>>
        /\ "peer" \in Compared /\ "peer" \in Children
    BY <1>3 DEF ReconcilePeerConfig, At, Children, Compared
  <2>2. CASE spec.server /\ Remove("peer")
    <3>1. Fits("peer", Absent, spec, cw.image)
      BY <2>2 DEF Fits
    <3> QED
      BY <1>0, <2>1, <2>2, <3>1, RemoveOutcome DEF Outcome
  <2>3. CASE ~spec.server /\ PutIfChanged("peer", RenderPeerConfig(spec))
    <3>1. Fits("peer", RenderPeerConfig(spec), spec, cw.image)
      BY <2>3 DEF Fits
    <3>2. RenderPeerConfig(spec) \in Objects["peer"]
      BY <1>1, <2>1, TemplateType, KindFacts
    <3> QED
      BY <1>0, <2>1, <2>3, <3>1, <3>2, PutIfChangedOutcome DEF Outcome
  <2> QED
    BY <1>3, <2>2, <2>3 DEF ReconcilePeerConfig
<1>4. CASE ReconcileDeployment
  <2> DEFINE dep == Read("deployment")
             new == IF dep = Absent THEN NewDeployment(spec, cw.image)
                    ELSE UpdatedDeployment(dep, spec, cw.image)
  <2>1. /\ Fresh /\ cw.pc = "deployment" /\ UNCHANGED <<pods, revision, bounds>>
        /\ Put("deployment", new) /\ "deployment" \in Children
    BY <1>4 DEF ReconcileDeployment, At, Children, Compared
  <2>2. dep \in Deployment \cup {Absent}
    BY <1>0, ReadFacts, KindFacts, <2>1
  <2>3. /\ new \in Deployment /\ new.template = TemplateOf(spec, cw.image)
        /\ spec.autoscaling = {} => new.replicas = spec.replicas
        /\ new.ready = IF dep = Absent THEN 0 ELSE dep.ready
    BY <1>1, <2>1, <2>2, NewDeploymentFacts, UpdatedDeploymentFacts
  <2> HIDE DEF new
  <2>4. new \in Objects["deployment"] /\ new # Absent
    BY <2>1, <2>3, KindFacts, Presence
  <2>5. Fits("deployment", new, spec, cw.image)
    BY <2>3, <2>4 DEF Fits
  <2>6. CASE Now("deployment") = dep
    <3>1. KeepsReady("deployment", new)
      BY <2>3, <2>6 DEF KeepsReady
    <3> QED
      BY <1>0, <2>1, <2>4, <2>5, <3>1, PutOutcome DEF Outcome
  <2>7. CASE Now("deployment") # dep
    BY <2>1, <2>7 DEF Put, Outcome
  <2> QED
    BY <2>6, <2>7
<1>5. CASE ReconcileService
  <2>1. /\ Fresh /\ cw.pc = "service" /\ UNCHANGED <<pods, revision, bounds>>
        /\ Put("service", spec.ports)
        /\ "service" \in Children /\ KeepsReady("service", spec.ports)
    BY <1>5 DEF ReconcileService, At, Children, KeepsReady
  <2>2. spec.ports \in Objects["service"]
    BY <1>1, <2>1, SpecFacts, KindFacts
  <2>3. Fits("service", spec.ports, spec, cw.image)
    BY DEF Fits
  <2> QED
    BY <1>0, <2>1, <2>2, <2>3, PutOutcome DEF Outcome
<1>6. CASE ReconcileHeadlessService
  <2>1. /\ Fresh /\ cw.pc = "headless" /\ UNCHANGED <<pods, revision, bounds>>
        /\ PutIfChanged("headless", "owned")
        /\ "headless" \in Compared /\ "headless" \in Children
        /\ "owned" # Absent /\ "owned" \in Objects["headless"]
    BY <1>6, Presence, KindFacts
       DEF ReconcileHeadlessService, At, Children, Compared
  <2>2. Fits("headless", "owned", spec, cw.image)
    BY <2>1 DEF Fits
  <2> QED
    BY <1>0, <2>1, <2>2, PutIfChangedOutcome DEF Outcome
<1>7. CASE ReconcileServiceMonitor
  <2>1. /\ Fresh /\ cw.pc = "monitor" /\ UNCHANGED <<pods, revision, bounds>>
        /\ "monitor" \in Compared /\ "monitor" \in Children
        /\ "owned" # Absent /\ "owned" \in Objects["monitor"]
    BY <1>7, Presence, KindFacts
       DEF ReconcileServiceMonitor, At, Children, Compared
  <2>2. CASE ~MonitorCRD /\ Keep
    <3>1. Read("monitor") = Absent
      BY <1>0, <2>1, <2>2, ReadFacts, KindFacts DEF Typed, MonitorInv
    <3> QED
      BY <2>1, <2>2, <3>1 DEF Outcome, Found, Fits
  <2>3. CASE MonitorCRD /\ ~spec.monitor /\ Remove("monitor")
    <3>1. Fits("monitor", Absent, spec, cw.image)
      BY <2>3 DEF Fits
    <3> QED
      BY <1>0, <2>1, <2>3, <3>1, RemoveOutcome DEF Outcome
  <2>4. CASE MonitorCRD /\ spec.monitor /\ PutIfChanged("monitor", "owned")
    <3>1. Fits("monitor", "owned", spec, cw.image)
      BY <2>1, <2>4 DEF Fits
    <3> QED
      BY <1>0, <2>1, <2>4, <3>1, PutIfChangedOutcome DEF Outcome
  <2> QED
    BY <1>7, <2>2, <2>3, <2>4 DEF ReconcileServiceMonitor
<1>8. CASE ReconcileHPA
  <2>1. /\ Fresh /\ cw.pc = "hpa" /\ UNCHANGED <<pods, revision, bounds>>
        /\ "hpa" \in Compared /\ "hpa" \in Children
    BY <1>8 DEF ReconcileHPA, At, Children, Compared
  <2>2. CASE spec.autoscaling = {} /\ Remove("hpa")
    <3>1. Fits("hpa", Absent, spec, cw.image)
      BY <2>2 DEF Fits
    <3> QED
      BY <1>0, <2>1, <2>2, <3>1, RemoveOutcome DEF Outcome
  <2>3. ASSUME NEW a \in spec.autoscaling, PutIfChanged("hpa", a)
        PROVE  Outcome("hpa")
    <3>1. a \in Objects["hpa"] /\ a # Absent /\ spec.autoscaling = {a}
      BY <1>1, <2>1, SpecFacts, KindFacts, Presence
    <3>2. Fits("hpa", a, spec, cw.image)
      BY <3>1 DEF Fits
    <3> QED
      BY <1>0, <2>1, <2>3, <3>1, <3>2, PutIfChangedOutcome DEF Outcome
  <2> QED
    BY <1>8, <2>1, <2>2, <2>3 DEF ReconcileHPA
<1> QED
  BY <1>2, <1>3, <1>4, <1>5, <1>6, <1>7, <1>8 DEF Step, Children

-----------------------------------------------------------------------------
(***************************************************************************)
(* Everybody else writes one object at a time, and never touches the       *)
(* controller.                                                             *)
(***************************************************************************)
\* A write of the cluster by a user: a new spec with a new generation, which
\* leaves the status of a cluster that is there alone, or a deletion.
UserSpec(o) ==
    \/ o = Absent /\ UNCHANGED revision
    \/ /\ o # Absent
       /\ revision' = revision + 1 /\ o.generation = revision'
       /\ o.status = IF Now("cluster") = Absent THEN {}
                     ELSE Now("cluster").status
       /\ o.uid = IF Now("cluster") = Absent THEN revision'
                  ELSE Now("cluster").uid

\* What a Deployment says of its pods, if there is one: as many are ready as
\* there are, when they are up.
Agree(d, p) == IF d = Absent THEN ~p.up ELSE p.up => d.ready = p.number

OtherWrite(k, o) ==
    /\ Write(k, o)
    /\ unseen' = unseen \cup ({k} \ Watched)
    /\ IF k = "cluster" THEN UserSpec(o) ELSE UNCHANGED revision
    /\ k = "monitor" => o = Absent
    /\ IF k = "deployment" THEN Agree(Now(k), pods) => Agree(o, pods')
       ELSE UNCHANGED pods

LEMMA VanishFacts ==
    ASSUME Typed, NEW k \in Children, Vanish(k)
    PROVE  OtherWrite(k, Absent) /\ pods' \in PodSet /\ revision' \in Nat
<1>1. NoPods \in PodSet /\ pods \in PodSet /\ revision \in Nat
  BY TypeParts DEF Typed, RestOK, NoPods, PodSet
<1>2. k # "cluster" /\ Agree(Absent, NoPods)
  BY DEF Children, Agree, NoPods
<1> QED
  BY <1>1, <1>2 DEF Vanish, OtherWrite

\* Users.
LEMMA UserWrites ==
    ASSUME Typed, User
    PROVE  /\ UNCHANGED <<queued, cw, owner, applied>>
           /\ \E k \in Kinds : \E o \in Objects[k] \cup {Absent} :
                OtherWrite(k, o)
           /\ pods' \in PodSet /\ revision' \in Nat
           /\ edits' \in Nat /\ faults' \in Nat
<1>0. /\ HistoriesOK /\ RestOK /\ revision \in Nat /\ revision + 1 \in Nat
      /\ pods \in PodSet
      /\ "cluster" \in Kinds /\ "cluster" \in Watched
      /\ "class" \in Kinds /\ "class" \notin Watched
  BY TypeParts, KindFacts DEF Typed, RestOK, Watched
<1>1. /\ UNCHANGED <<queued, cw, owner, applied>>
      /\ edits' \in Nat /\ faults' \in Nat
  <2>1. Edit
    BY DEF User, CreateCluster, EditCluster, DeleteCluster, SetClass,
           DeleteChild
  <2>2. edits \in Nat /\ faults \in Nat
    BY <1>0 DEF RestOK
  <2> QED
    BY <2>1, <2>2 DEF Edit
<1>2. ASSUME NEW spec \in Specs, CreateCluster(spec)
      PROVE  /\ \E o \in Objects["cluster"] : OtherWrite("cluster", o)
             /\ pods' \in PodSet /\ revision' \in Nat
  <2> DEFINE new == [uid |-> revision', spec |-> spec,
                     generation |-> revision', status |-> {}]
  <2>1. /\ new \in ClusterObject /\ new.generation = revision'
        /\ new.status = {} /\ new.uid = revision'
    BY <1>0, <1>2 DEF CreateCluster, ClusterObject
  <2> HIDE DEF new
  <2>2. new \in Objects["cluster"] /\ new # Absent
    BY <1>0, <2>1, KindFacts, Presence
  <2>3. /\ Write("cluster", new) /\ UNCHANGED <<pods, unseen>>
        /\ revision' = revision + 1 /\ Now("cluster") = Absent
    BY <1>2 DEF CreateCluster, new
  <2>4. OtherWrite("cluster", new)
    BY <1>0, <2>1, <2>2, <2>3 DEF OtherWrite, UserSpec
  <2> QED
    BY <1>0, <2>2, <2>3, <2>4
<1>3. ASSUME NEW spec \in Specs, EditCluster(spec)
      PROVE  /\ \E o \in Objects["cluster"] : OtherWrite("cluster", o)
             /\ pods' \in PodSet /\ revision' \in Nat
  <2> DEFINE o   == Now("cluster")
             new == [o EXCEPT !.spec = spec, !.generation = revision']
  <2>1. o \in ClusterObject /\ o # Absent
    BY <1>0, <1>3, ReadFacts, KindFacts DEF EditCluster
  <2>2. revision' = revision + 1
    BY <1>3 DEF EditCluster
  <2>3. /\ new \in ClusterObject /\ new.generation = revision'
        /\ new.status = o.status /\ new.uid = o.uid
    BY <1>0, <2>1, <2>2 DEF ClusterObject
  <2>4. Write("cluster", new) /\ UNCHANGED <<pods, unseen>>
    BY <1>3 DEF EditCluster
  <2> HIDE DEF new
  <2>5. new \in Objects["cluster"] /\ new # Absent
    BY <1>0, <2>3, KindFacts, Presence
  <2>6. OtherWrite("cluster", new)
    BY <1>0, <2>1, <2>2, <2>3, <2>4, <2>5 DEF OtherWrite, UserSpec
  <2> QED
    BY <1>0, <2>2, <2>4, <2>5, <2>6
<1>4. CASE DeleteCluster
  <2>1. OtherWrite("cluster", Absent) /\ UNCHANGED <<pods, revision>>
    BY <1>0, <1>4 DEF DeleteCluster, OtherWrite, UserSpec
  <2> QED
    BY <1>0, <1>1, <2>1
<1>5. ASSUME NEW i \in Images \cup {Absent}, SetClass(i)
      PROVE  /\ \E o \in Objects["class"] \cup {Absent} :
                  OtherWrite("class", o)
             /\ pods' \in PodSet /\ revision' \in Nat
  <2>1. OtherWrite("class", i) /\ UNCHANGED <<pods, revision>>
    BY <1>0, <1>5 DEF SetClass, OtherWrite
  <2> QED
    BY <1>0, <2>1, KindFacts
<1>6. ASSUME NEW k \in Children, DeleteChild(k)
      PROVE  /\ k \in Kinds /\ OtherWrite(k, Absent)
             /\ pods' \in PodSet /\ revision' \in Nat
  BY <1>6, VanishFacts, KindFacts DEF DeleteChild
<1> QED
  BY <1>0, <1>1, <1>2, <1>3, <1>4, <1>5, <1>6 DEF User

\* What the pods do to their Deployment, which is there.
LEMMA ScaleFacts ==
    ASSUME Typed, Now("deployment") # Absent, NEW n \in Nat, ScaleTo(n)
    PROVE  /\ \E o \in Objects["deployment"] :
                /\ OtherWrite("deployment", o)
                /\ o.ready = Now("deployment").ready
           /\ UNCHANGED <<pods, revision>>
<1> DEFINE d == Now("deployment")
           e == [d EXCEPT !.replicas = n]
<1>1. d \in Deployment /\ "deployment" \in Watched
  BY TypeParts, ReadFacts, KindFacts DEF Typed, Watched
<1>2. e \in Deployment /\ e.ready = d.ready
  BY <1>1 DEF Deployment
<1>3. Write("deployment", Respecified(d, e)) /\ UNCHANGED <<pods, revision, unseen>>
  BY DEF ScaleTo
<1> HIDE DEF e
<1>4. /\ Respecified(d, e) \in Objects["deployment"]
      /\ Respecified(d, e).ready = d.ready
  BY <1>1, <1>2, RespecifiedFacts, KindFacts
<1>5. Agree(d, pods) => Agree(Respecified(d, e), pods)
  <2>1. Respecified(d, e) # Absent
    BY <1>1, <1>4, Presence, KindFacts
  <2> QED
    BY <1>4, <2>1 DEF Agree
<1>6. OtherWrite("deployment", Respecified(d, e))
  BY <1>1, <1>3, <1>5 DEF OtherWrite
<1> QED
  BY <1>3, <1>4, <1>6

LEMMA KubernetesWrites ==
    ASSUME Typed, Kubernetes
    PROVE  /\ UNCHANGED <<queued, cw, owner, applied>>
           /\ \E k \in Kinds : \E o \in Objects[k] \cup {Absent} :
                OtherWrite(k, o)
           /\ pods' \in PodSet /\ revision' \in Nat
           /\ edits' \in Nat /\ faults' \in Nat
<1> DEFINE d == Now("deployment")
<1>0. /\ HistoriesOK /\ RestOK /\ revision \in Nat /\ pods \in PodSet
      /\ edits \in Nat /\ faults \in Nat
      /\ "deployment" \in Kinds /\ "deployment" \in Watched
      /\ d # Absent => d \in Deployment
      /\ Objects["deployment"] = Deployment
  BY TypeParts, KindFacts, ReadFacts DEF Typed, RestOK, Watched
<1>1. UNCHANGED <<queued, cw, owner, applied, edits>>
  BY DEF Kubernetes, Collect, PodsCreated, PodsUp, PodsDown, ScaleIntoRange,
         ScaleWithLoad, Elsewhere
<1>2. faults' \in Nat
  BY <1>0 DEF Kubernetes, Collect, PodsCreated, PodsUp, PodsDown,
              ScaleIntoRange, ScaleWithLoad
<1>3. ASSUME NEW k \in Children, Collect(k)
      PROVE  /\ k \in Kinds /\ OtherWrite(k, Absent)
             /\ pods' \in PodSet /\ revision' \in Nat
  BY <1>3, VanishFacts, KindFacts DEF Collect
<1>4. ASSUME NEW o \in Deployment, Write("deployment", o),
             UNCHANGED <<revision, unseen>>,
             Agree(d, pods) => Agree(o, pods')
      PROVE  OtherWrite("deployment", o)
  BY <1>0, <1>4 DEF OtherWrite
<1>5. CASE PodsCreated
  <2> DEFINE o == [d EXCEPT !.created = TRUE, !.seen = TRUE]
  <2>1. o \in Deployment
    BY <1>0, <1>5 DEF PodsCreated, Deployment
  <2>2. o.ready = d.ready /\ o # Absent /\ d # Absent /\ UNCHANGED pods
    BY <1>0, <1>5, <2>1, Presence DEF PodsCreated, Deployment
  <2>3. Agree(d, pods) => Agree(o, pods')
    BY <2>2 DEF Agree
  <2> QED
    BY <1>0, <1>1, <1>2, <1>4, <1>5, <2>1, <2>3 DEF PodsCreated
<1>6. CASE PodsUp
  <2>1. d \in Deployment
    BY <1>0, <1>6 DEF PodsUp
  <2>2. [d EXCEPT !.ready = d.replicas] \in Deployment
    BY <2>1 DEF Deployment
  <2>3. pods' \in PodSet
    <3>1. Now("peer") \in PeerConfigs \cup {Absent}
      BY <1>0, ReadFacts, KindFacts DEF Children
    <3>2. ServerConfig \subseteq PeerConfigs \cup {"user"}
      BY <3>1 DEF ServerConfig
    <3>3. pods.booted \subseteq PeerConfigs \cup {"user"}
      BY <1>0 DEF PodSet
    <3>4. PICK b \in SUBSET (PeerConfigs \cup {"user"}) :
            pods' = [runs |-> {d.template}, number |-> d.replicas, up |-> TRUE,
                     booted |-> b]
      BY <1>6, <3>2, <3>3 DEF PodsUp
    <3> QED
      BY <2>1, <3>4, DeploymentFacts DEF PodSet
  <2>4. Agree([d EXCEPT !.ready = d.replicas], pods')
    <3>1. pods'.number = d.replicas
      BY <1>6 DEF PodsUp
    <3>2. [d EXCEPT !.ready = d.replicas].ready = d.replicas
      BY <2>1 DEF Deployment
    <3>3. [d EXCEPT !.ready = d.replicas] # Absent
      BY <1>0, <2>2, Presence
    <3> QED
      BY <3>1, <3>2, <3>3 DEF Agree
  <2> QED
    BY <1>0, <1>1, <1>2, <1>4, <1>6, <2>2, <2>3, <2>4 DEF PodsUp
<1>7. CASE PodsDown
  <2>1. [d EXCEPT !.ready = 0] \in Deployment
    BY <1>0, <1>7 DEF PodsDown, Deployment
  <2>2. pods' \in PodSet
    BY <1>0, <1>7 DEF PodsDown, PodSet
  <2>3. Agree([d EXCEPT !.ready = 0], pods')
    <3>1. ~pods'.up
      BY <1>0, <1>7 DEF PodsDown, PodSet
    <3> QED
      BY <3>1 DEF Agree
  <2> QED
    BY <1>0, <1>1, <1>2, <1>4, <1>7, <2>1, <2>2, <2>3 DEF PodsDown
<1>8. CASE ScaleIntoRange \/ ScaleWithLoad
  <2>1. d # Absent /\ Now("hpa") # Absent /\ \E n \in Nat : ScaleTo(n)
    <3>1. d # Absent /\ Now("hpa") # Absent
      BY <1>8 DEF ScaleIntoRange, ScaleWithLoad, OutOfRange
    <3>2. Now("hpa").min \in Nat /\ Now("hpa").max \in Nat
      <4>1. "hpa" \in Kinds /\ Objects["hpa"] = Autoscaling
        BY KindFacts DEF Children
      <4>2. Now("hpa") \in Autoscaling
        BY <1>0, <3>1, <4>1, ReadFacts
      <4> QED
        BY <4>2 DEF Autoscaling
    <3> QED
      BY <1>8, <3>1, <3>2 DEF ScaleIntoRange, ScaleWithLoad
  <2>2. PICK n \in Nat : ScaleTo(n)
    BY <2>1
  <2> QED
    BY <1>0, <1>1, <1>2, <2>1, <2>2, ScaleFacts
<1> QED
  BY <1>0, <1>1, <1>2, <1>3, <1>5, <1>6, <1>7, <1>8 DEF Kubernetes

-----------------------------------------------------------------------------
(***************************************************************************)
(* Types.                                                                  *)
(***************************************************************************)
LEMMA MonitorKept ==
    ASSUME HistoriesOK, MonitorInv, hist'["monitor"] = hist["monitor"]
    PROVE  MonitorInv'
<1>1. Now("monitor")' = Now("monitor")
  BY DEF Now
<1> QED
  BY <1>1 DEF MonitorInv

\* A write keeps the histories typed, and that of the ServiceMonitor single.
LEMMA TypedWrite ==
    ASSUME HistoriesOK, MonitorInv, NEW k \in Kinds,
           NEW o \in Objects[k] \cup {Absent}, Write(k, o),
           k = "monitor" /\ ~MonitorCRD => o = Absent
    PROVE  HistoriesOK' /\ MonitorInv'
<1>1. /\ HistoriesOK' /\ Actual(hist'[k]) = o
      /\ \A j \in Kinds \ {k} : hist'[j] = hist[j]
      /\ k = "monitor" => hist'[k] = <<o>>
  BY WriteFacts
<1>2. CASE k # "monitor"
  <2>1. hist'["monitor"] = hist["monitor"]
    BY <1>1, <1>2, KindFacts
  <2> QED
    BY <1>1, <2>1, MonitorKept
<1>3. CASE k = "monitor"
  <2>1. Synced(hist'["monitor"])
    BY <1>1, <1>3, Single
  <2>2. Now("monitor")' = o
    BY <1>1, <1>3 DEF Now
  <2> QED
    BY <1>1, <1>3, <2>1, <2>2 DEF MonitorInv
<1> QED
  BY <1>2, <1>3

\* The invariant holds initially.
LEMMA TypedInit == Init => Typed
<1> SUFFICES ASSUME Init PROVE HistoriesOK /\ RestOK /\ MonitorInv
  BY TypeParts DEF Typed
<1>1. PICK i \in Images \cup {Absent} :
        hist = [k \in Kinds |-> IF k = "class" THEN <<i>> ELSE <<Absent>>]
  BY DEF Init
<1>2. /\ DOMAIN hist = Kinds
      /\ \A k \in Kinds : \E o \in Objects[k] \cup {Absent} : hist[k] = <<o>>
      /\ hist["monitor"] = <<Absent>>
  BY <1>1, KindFacts DEF Children
<1>3. HistoriesOK
  <2>1. ASSUME NEW k \in Kinds
        PROVE  hist[k] \in History(Objects[k] \cup {Absent})
    <3>1. PICK o \in Objects[k] \cup {Absent} : hist[k] = <<o>>
      BY <1>2
    <3> QED
      BY <3>1, Single
  <2> QED
    BY <1>2, <2>1 DEF HistoriesOK
<1>4. MonitorInv
  <2>1. Synced(hist["monitor"]) /\ Now("monitor") = Absent
    BY <1>2, Single DEF Now
  <2> QED
    BY <2>1 DEF MonitorInv
<1>5. RestOK
  <2>1. cw.pc = "idle" /\ pods \in PodSet
    BY DEF Init, Idle, NoPods, PodSet
  <2>2. cw \in [pc    : {"idle", "status"} \cup Children,
                obj   : ClusterObject \cup {Absent},
                image : Images \cup {NoImage}]
    BY DEF Init, Idle
  <2> QED
    BY <2>1, <2>2, ClusterAssumption DEF Init, RestOK
<1> QED
  BY <1>3, <1>4, <1>5

\* The place after each child.
LEMMA NextStepFacts ==
    ASSUME NEW k \in Children
    PROVE  NextStep[k] \in Children \cup {"status"}
  BY DEF NextStep, Children

\* What a worker that goes on leaves behind.
LEMMA ProceedTyped ==
    ASSUME RestOK, cw.pc \in Children, Proceed, Marked
    PROVE  /\ queued' \in BOOLEAN
           /\ cw' = [cw EXCEPT !.pc = NextStep[cw.pc]]
           /\ cw'.pc \in Children \cup {"status"}
           /\ cw'.obj = cw.obj /\ cw'.image = cw.image
           /\ cw.obj \in ClusterObject /\ cw.image \in Images
           /\ applied' \in [Children -> Nat]
           /\ unseen' \subseteq {"class", "monitor"}
<1>1. cw.obj \in ClusterObject /\ cw.image \in Images
  BY DEF RestOK, Children
<1>2. cw.obj.generation \in Nat
  BY <1>1, SpecFacts
<1>3. cw'.pc \in Children \cup {"status"}
  BY NextStepFacts DEF Proceed
<1> QED
  BY <1>1, <1>2, <1>3 DEF Proceed, Marked, MarkApplied, RestOK

LEMMA TypedController ==
    Typed /\ (Reconcile \/ Step \/ CallFails) => Typed'
<1> SUFFICES ASSUME Typed, Reconcile \/ Step \/ CallFails
             PROVE  HistoriesOK' /\ RestOK' /\ MonitorInv'
  BY TypeParts DEF Typed
<1>0. HistoriesOK /\ RestOK /\ MonitorInv
  BY TypeParts DEF Typed
<1>1. CASE Reconcile
  <2> DEFINE o == Read("cluster")
  <2>1. /\ queued' \in BOOLEAN
        /\ \/ UNCHANGED cw
           \/ /\ o # Absent
              /\ \E image \in ResolveConfig(o.spec) :
                   cw' = [pc |-> "pipelines", obj |-> o, image |-> image]
    BY <1>0, <1>1 DEF Reconcile, RestOK
  <2>2. o # Absent => o \in ClusterObject
    BY <1>0, ReadFacts, KindFacts
  <2>3. /\ cw'.pc \in {"idle", "status"} \cup Children
        /\ cw'.pc # "idle" => cw'.obj \in ClusterObject /\ cw'.image \in Images
    <3>1. CASE UNCHANGED cw
      BY <1>0, <3>1 DEF RestOK
    <3>2. ASSUME o # Absent, NEW image \in ResolveConfig(o.spec),
                 cw' = [pc |-> "pipelines", obj |-> o, image |-> image]
          PROVE  /\ cw'.pc \in {"idle", "status"} \cup Children
                 /\ cw'.obj \in ClusterObject /\ cw'.image \in Images
      <4>1. image \in Images
        BY <1>0, <2>2, <3>2, ResolveType
      <4> HIDE DEF o
      <4> QED
        BY <2>2, <3>2, <4>1 DEF Children
    <3> QED
      BY <2>1, <3>1, <3>2
  <2>4. UNCHANGED <<hist, owner, applied, pods, revision, bounds>>
        /\ unseen' \subseteq unseen
    BY <1>1 DEF Reconcile, At
  <2> QED
    BY <1>0, <2>1, <2>3, <2>4, MonitorKept DEF HistoriesOK, RestOK, bounds
<1>2. ASSUME NEW k \in Children, Outcome(k)
      PROVE  HistoriesOK' /\ RestOK' /\ MonitorInv'
  <2>1. cw.pc = k /\ UNCHANGED <<pods, revision, bounds>> /\ k \in Kinds
    BY <1>2, KindFacts DEF Outcome
  <2>2. CASE Fail
    <3>1. UNCHANGED <<hist, owner, history>> /\ cw' = Idle /\ queued' = TRUE
      BY <2>2 DEF Fail, ReturnErr
    <3> QED
      BY <1>0, <2>1, <3>1, MonitorKept
         DEF HistoriesOK, RestOK, Idle, bounds, history
  <2>3. CASE Found(k)
    <3>1. UNCHANGED <<hist, owner>> /\ Proceed /\ Marked
      BY <2>3 DEF Found, Keep, Marked
    <3> QED
      BY <1>0, <2>1, <3>1, ProceedTyped, MonitorKept
         DEF HistoriesOK, RestOK, bounds
  <2>4. CASE Written(k)
    <3>1. PICK o \in Objects[k] \cup {Absent} :
            /\ Write(k, o)
            /\ Fits(k, o, cw.obj.spec, cw.image)
      BY <2>4 DEF Written
    <3>2. Proceed /\ Marked /\ owner' \in [Children -> Nat]
      BY <2>4 DEF Written, Marked
    <3>3. k = "monitor" /\ ~MonitorCRD => o = Absent
      BY <3>1 DEF Fits
    <3>4. HistoriesOK' /\ MonitorInv'
      BY <1>0, <2>1, <3>1, <3>3, TypedWrite
    <3> QED
      BY <1>0, <2>1, <3>2, <3>4, ProceedTyped DEF RestOK, bounds
  <2> QED
    BY <1>2, <2>2, <2>3, <2>4 DEF Outcome
<1>3. CASE ReconcileStatus
  <2> DEFINE dep == Read("deployment")
             o   == [cw.obj EXCEPT !.status = {StatusOf(dep, cw.obj)}]
  <2>1. /\ cw.pc = "status" /\ UNCHANGED <<pods, revision, bounds, owner>>
        /\ cw' = Idle /\ queued' \in BOOLEAN /\ UNCHANGED history
        /\ UNCHANGED hist \/ (dep # Absent /\ Write("cluster", o))
    BY <1>0, <1>3 DEF ReconcileStatus, At, Return, ReturnErr, RestOK
  <2>2. dep # Absent => o \in ClusterObject
    <3>1. cw.obj \in ClusterObject
      BY <1>0, <2>1 DEF RestOK
    <3>2. "deployment" \in Kinds
      BY KindFacts DEF Children
    <3>3. dep # Absent => dep \in Deployment
      BY <1>0, <3>2, ReadFacts, KindFacts
    <3> QED
      BY <3>1, <3>3, StatusFacts
  <2>3. HistoriesOK' /\ MonitorInv'
    <3>1. CASE UNCHANGED hist
      BY <1>0, <3>1, MonitorKept DEF HistoriesOK
    <3>2. CASE dep # Absent /\ Write("cluster", o)
      BY <1>0, <2>2, <3>2, TypedWrite, KindFacts
    <3> QED
      BY <2>1, <3>1, <3>2
  <2> QED
    BY <1>0, <2>1, <2>3 DEF RestOK, Idle, bounds, history
<1>4. CASE CallFails
  <2>1. /\ UNCHANGED <<hist, pods, owner, revision, edits, history>>
        /\ cw' = Idle /\ queued' = TRUE
        /\ faults > 0 /\ faults' = faults - 1
    BY <1>4 DEF CallFails, Faulty, ReturnErr
  <2>2. faults' \in Nat
    BY <1>0, <2>1 DEF RestOK
  <2> QED
    BY <1>0, <2>1, <2>2, MonitorKept DEF HistoriesOK, RestOK, Idle, history
<1> QED
  BY <1>1, <1>2, <1>3, <1>4, StepOutcome

LEMMA TypedRead ==
    Typed /\ (Restart \/ \E k \in Kinds : Receive(k)) => Typed'
<1> SUFFICES ASSUME Typed, Restart \/ \E k \in Kinds : Receive(k)
             PROVE  HistoriesOK' /\ RestOK' /\ MonitorInv'
  BY TypeParts DEF Typed
<1>0. HistoriesOK /\ RestOK /\ MonitorInv /\ "monitor" \in Kinds
  BY TypeParts, KindFacts DEF Typed, Children
<1>1. ASSUME NEW k \in Kinds, Receive(k)
      PROVE  HistoriesOK' /\ RestOK' /\ MonitorInv'
  <2>1. /\ HistoriesOK' /\ k # "monitor"
        /\ hist'["monitor"] = hist["monitor"]
    BY <1>0, <1>1, ReceiveFacts DEF MonitorInv
  <2>2. RestOK'
    BY <1>0, <1>1 DEF Receive, RestOK, history, bounds
  <2> QED
    BY <1>0, <2>1, <2>2, MonitorKept
<1>2. CASE Restart
  <2>1. /\ HistoriesOK' /\ Synced(hist'["monitor"])
        /\ Actual(hist'["monitor"]) = Now("monitor")
    BY <1>0, <1>2, RestartFacts
  <2>2. Now("monitor")' = Now("monitor")
    BY <2>1 DEF Now
  <2>3. MonitorInv'
    BY <1>0, <2>1, <2>2 DEF MonitorInv
  <2>4. faults' \in Nat
    <3>1. faults > 0 /\ faults' = faults - 1 /\ faults \in Nat
      BY <1>0, <1>2 DEF Restart, Faulty, RestOK
    <3> QED
      BY <3>1
  <2>5. RestOK'
    BY <1>0, <1>2, <2>4 DEF Restart, Faulty, RestOK, history, Idle
  <2> QED
    BY <2>1, <2>3, <2>5
<1> QED
  BY <1>1, <1>2

LEMMA TypedOthers == Typed /\ (User \/ Kubernetes) => Typed'
<1> SUFFICES ASSUME Typed, User \/ Kubernetes
             PROVE  HistoriesOK' /\ RestOK' /\ MonitorInv'
  BY TypeParts DEF Typed
<1>0. HistoriesOK /\ RestOK /\ MonitorInv
  BY TypeParts DEF Typed
<1>1. /\ UNCHANGED <<queued, cw, owner, applied>>
      /\ \E k \in Kinds : \E o \in Objects[k] \cup {Absent} : OtherWrite(k, o)
      /\ pods' \in PodSet /\ revision' \in Nat
      /\ edits' \in Nat /\ faults' \in Nat
  BY UserWrites, KubernetesWrites
<1>2. PICK k \in Kinds : \E o \in Objects[k] \cup {Absent} : OtherWrite(k, o)
  BY <1>1
<1>3. PICK o \in Objects[k] \cup {Absent} : OtherWrite(k, o)
  BY <1>2
<1>4. HistoriesOK' /\ MonitorInv'
  BY <1>0, <1>3, TypedWrite DEF OtherWrite
<1>5. RestOK'
  <2>1. unseen' \subseteq {"class", "monitor"}
    BY <1>0, <1>3, KindFacts DEF OtherWrite, RestOK
  <2> QED
    BY <1>0, <1>1, <2>1 DEF RestOK
<1> QED
  BY <1>4, <1>5

LEMMA TypedStep == Typed /\ [Next]_vars => Typed'
<1>1. Typed /\ UNCHANGED vars => Typed'
  BY DEF vars, history, bounds, Typed, TypeOK, MonitorInv, Now
<1> QED
  BY <1>1, TypedController, TypedRead, TypedOthers DEF Next

LEMMA TypedAlways == Spec => []Typed
  BY TypedInit, TypedStep, PTL DEF Spec

\* In every reachable state of every instance each variable holds a value of
\* its kind.  In particular every Deployment that the controller creates has an
\* image, with or without the webhook: resolveConfig ends a reconcile for which
\* there is none.
THEOREM TypeCorrect == Spec => []TypeOK
<1>1. Typed => TypeOK
  BY DEF Typed
<1> QED
  BY <1>1, TypedAlways, PTL

-----------------------------------------------------------------------------
(***************************************************************************)
(* Generations.  That no child goes back is not inductive: the worker      *)
(* brings children into line with the object it has read, so what it holds *)
(* must lie between what the children follow and every version that it may *)
(* read next, and the place it has reached must say which children have    *)
(* come as far as the object that it will report on.                       *)
(***************************************************************************)
\* The children that are behind the worker.
Done ==
    [idle       |-> {},
     pipelines  |-> {},
     peer       |-> {"pipelines"},
     deployment |-> {"pipelines", "peer"},
     service    |-> {"pipelines", "peer", "deployment"},
     headless   |-> {"pipelines", "peer", "deployment", "service"},
     monitor    |-> {"pipelines", "peer", "deployment", "service", "headless"},
     hpa        |-> {"pipelines", "peer", "deployment", "service", "headless",
                     "monitor"},
     status     |-> Children]

LEMMA DoneFacts ==
    /\ Done["idle"] = {} /\ Done["pipelines"] = {} /\ Done["status"] = Children
    /\ \A k \in Children : Done[NextStep[k]] = Done[k] \cup {k}
    /\ \A k \in Children : k \notin Done[k] /\ Done[k] \subseteq Children
<1>1. /\ Done["idle"] = {} /\ Done["pipelines"] = {}
      /\ Done["status"] = Children
  BY DEF Done
<1>2. \A k \in Children : Done[NextStep[k]] = Done[k] \cup {k}
  BY DEF Done, NextStep, Children
<1>3. \A k \in Children : k \notin Done[k] /\ Done[k] \subseteq Children
  BY DEF Done, Children
<1> QED
  BY <1>1, <1>2, <1>3

\* Later versions have later generations, and a status is about this
\* generation or an earlier one.
Generations ==
    /\ \A s, t : Before(hist["cluster"], s, t) /\ s # Absent /\ t # Absent
                   => s.generation <= t.generation
    /\ \A s \in Versions(hist["cluster"]) : s # Absent =>
         /\ s.generation <= revision
         /\ \A k \in Children : applied[k] <= s.generation
         /\ \A r \in s.status : r.observed <= s.generation
    /\ \A k \in Children : applied[k] <= revision

WorkerGeneration ==
    cw.pc # "idle" =>
      /\ cw.obj.generation <= revision
      /\ \A s \in Versions(hist["cluster"]) :
           s # Absent => cw.obj.generation <= s.generation
      /\ \A k \in Children : applied[k] <= cw.obj.generation
      /\ \A k \in Done[cw.pc] \cap Exact : applied[k] = cw.obj.generation
      /\ \A r \in cw.obj.status : r.observed <= cw.obj.generation

ConvergenceInv == Generations /\ WorkerGeneration

\* The numbers are numbers.
LEMMA GenerationTypes ==
    ASSUME Typed
    PROVE  /\ revision \in Nat /\ \A k \in Children : applied[k] \in Nat
           /\ hist["cluster"] \in History(ClusterObject \cup {Absent})
           /\ Versions(hist["cluster"]) \subseteq ClusterObject \cup {Absent}
           /\ Read("cluster") \in Versions(hist["cluster"])
           /\ Now("cluster") \in Versions(hist["cluster"])
           /\ \A o \in ClusterObject :
                /\ o # Absent /\ o.generation \in Nat
                /\ \A r \in o.status : r.observed \in Nat
           /\ cw.pc # "idle" => cw.obj \in ClusterObject
<1>1. HistoriesOK /\ RestOK
  BY TypeParts DEF Typed
<1>2. "cluster" \in Kinds
  BY KindFacts
<1>3. \A o \in ClusterObject :
        /\ o # Absent /\ o.generation \in Nat
        /\ \A r \in o.status : r.observed \in Nat
  BY <1>2, Presence, KindFacts, SpecFacts DEF Status
<1> QED
  BY <1>1, <1>2, <1>3, ReadFacts, KindFacts DEF HistoriesOK, RestOK

\* The invariant holds initially.
LEMMA ConvergenceInit == Init => ConvergenceInv
<1> SUFFICES ASSUME Init PROVE ConvergenceInv
  OBVIOUS
<1>1. hist["cluster"] = <<Absent>> /\ cw.pc = "idle"
  BY KindFacts DEF Init, Idle
<1>2. Versions(hist["cluster"]) = {Absent}
  BY <1>1, Single
<1>3. \A s, t : ~Before(hist["cluster"], s, t)
  BY <1>1 DEF Before
<1>4. revision = 0 /\ \A k \in Children : applied[k] = 0
  BY DEF Init
<1> QED
  BY <1>1, <1>2, <1>3, <1>4 DEF ConvergenceInv, Generations, WorkerGeneration

\* What has been read is as old as any version, what there is as new.
LEMMA ReadIsOldest ==
    ASSUME Typed, Generations
    PROVE  /\ Read("cluster") # Absent =>
                \A s \in Versions(hist["cluster"]) : s # Absent =>
                  Read("cluster").generation <= s.generation
           /\ Now("cluster") # Absent =>
                \A s \in Versions(hist["cluster"]) : s # Absent =>
                  s.generation <= Now("cluster").generation
<1> DEFINE h == hist["cluster"]
<1>1. /\ h \in History(ClusterObject \cup {Absent})
      /\ Versions(h) \subseteq ClusterObject \cup {Absent}
      /\ \A o \in ClusterObject : o.generation \in Nat
  BY GenerationTypes
<1>2. /\ \A s \in Versions(h) : s = Cached(h) \/ Before(h, Cached(h), s)
      /\ \A s \in Versions(h) : s = Actual(h) \/ Before(h, s, Actual(h))
  BY <1>1, BeforeFacts
<1>3. \A s \in Versions(h) : s # Absent => s.generation \in Nat
  BY <1>1
<1>4. \A s, t : Before(h, s, t) /\ s # Absent /\ t # Absent
                  => s.generation <= t.generation
  BY DEF Generations
<1>5. \A s \in Versions(h) : s # Absent => s.generation <= s.generation
  BY <1>3
<1>6. Cached(h) # Absent =>
        \A s \in Versions(h) : s # Absent => Cached(h).generation <= s.generation
  BY <1>2, <1>4, <1>5
<1>7. Actual(h) # Absent =>
        \A s \in Versions(h) : s # Absent => s.generation <= Actual(h).generation
  BY <1>2, <1>4, <1>5
<1> QED
  BY <1>6, <1>7 DEF Read, Now

\* Steps that add no version of the cluster.
LEMMA ConvergenceKept ==
    ASSUME ConvergenceInv,
           Versions(hist'["cluster"]) \subseteq Versions(hist["cluster"]),
           \A s, t : Before(hist'["cluster"], s, t)
                       => Before(hist["cluster"], s, t),
           UNCHANGED <<revision, applied>>,
           UNCHANGED cw \/ cw'.pc = "idle"
    PROVE  ConvergenceInv'
<1>1. Generations'
  BY DEF ConvergenceInv, Generations
<1>2. WorkerGeneration'
  BY DEF ConvergenceInv, WorkerGeneration
<1> QED
  BY <1>1, <1>2 DEF ConvergenceInv

\* The controller takes a request.
LEMMA ConvergenceReconcile ==
    ASSUME Typed, ConvergenceInv, Reconcile
    PROVE  ConvergenceInv'
<1> DEFINE o == Read("cluster")
<1>1. UNCHANGED <<hist, applied, revision>>
  BY DEF Reconcile, At
<1>2. Generations'
  BY <1>1 DEF ConvergenceInv, Generations
<1>3. CASE UNCHANGED cw
  BY <1>1, <1>3, ConvergenceKept
<1>4. ASSUME o # Absent, NEW i, cw' = [pc |-> "pipelines", obj |-> o, image |-> i]
      PROVE  WorkerGeneration'
  <2>1. /\ o \in Versions(hist["cluster"])
        /\ \A s \in Versions(hist["cluster"]) : s # Absent =>
             o.generation <= s.generation
    BY <1>4, GenerationTypes, ReadIsOldest DEF ConvergenceInv
  <2>2. /\ o.generation <= revision
        /\ \A k \in Children : applied[k] <= o.generation
        /\ \A r \in o.status : r.observed <= o.generation
    BY <1>4, <2>1 DEF ConvergenceInv, Generations
  <2> HIDE DEF o
  <2>3. cw'.pc = "pipelines" /\ cw'.obj = o /\ Done["pipelines"] = {}
    BY <1>4, DoneFacts
  <2> QED
    BY <1>1, <2>1, <2>2, <2>3 DEF WorkerGeneration
<1> QED
  BY <1>2, <1>3, <1>4 DEF Reconcile, ConvergenceInv

\* The controller brings a child into line.
LEMMA ConvergenceProceed ==
    ASSUME Typed, ConvergenceInv, cw.pc \in Children, Passes,
           UNCHANGED revision, hist'["cluster"] = hist["cluster"]
    PROVE  ConvergenceInv'
<1> DEFINE g == cw.obj.generation
<1>1. /\ cw.obj \in ClusterObject /\ g \in Nat
      /\ \A k \in Children : applied[k] \in Nat
      /\ applied \in [Children -> Nat]
  BY GenerationTypes, TypeParts DEF Typed, RestOK, Children
<1>2. WorkerGeneration /\ Generations /\ cw.pc # "idle"
  BY DEF ConvergenceInv, Children
<1>3. /\ g <= revision /\ g <= g
      /\ \A s \in Versions(hist["cluster"]) : s # Absent => g <= s.generation
      /\ \A k \in Children : applied[k] <= g
      /\ \A k \in Done[cw.pc] \cap Exact : applied[k] = g
  BY <1>1, <1>2 DEF WorkerGeneration
<1>4. /\ applied' = [applied EXCEPT ![cw.pc] = g] \/ UNCHANGED applied
      /\ cw.pc \in Exact => applied' = [applied EXCEPT ![cw.pc] = g]
      /\ cw'.pc = NextStep[cw.pc] /\ cw'.obj = cw.obj
  BY TypeParts, ProceedTyped DEF Proceed, Passes, Marked, MarkApplied, Typed
<1>5. /\ \A k \in Children :
           applied'[k] = applied[k] \/ (k = cw.pc /\ applied'[k] = g)
      /\ cw.pc \in Exact => applied'[cw.pc] = g
  BY <1>1, <1>4
<1>6. Generations'
  BY <1>2, <1>3, <1>5 DEF Generations
<1>7. WorkerGeneration'
  <2>1. \A k \in Done[cw'.pc] \cap Exact : applied'[k] = g
    BY <1>3, <1>4, <1>5, DoneFacts
  <2>2. \A k \in Children : applied'[k] <= g
    BY <1>3, <1>5
  <2> QED
    BY <1>2, <1>3, <1>4, <2>1, <2>2 DEF WorkerGeneration
<1> QED
  BY <1>6, <1>7 DEF ConvergenceInv

\* A new version of the cluster.
LEMMA ConvergenceWrite ==
    ASSUME Typed, ConvergenceInv,
           NEW o \in ClusterObject \cup {Absent}, Write("cluster", o),
           revision' \in Nat, revision <= revision', UNCHANGED applied,
           UNCHANGED cw \/ cw'.pc = "idle",
           o # Absent =>
             /\ o.generation <= revision'
             /\ \A s \in Versions(hist["cluster"]) : s # Absent =>
                  s.generation <= o.generation
             /\ \A k \in Children : applied[k] <= o.generation
             /\ \A r \in o.status : r.observed <= o.generation
             /\ cw'.pc # "idle" => cw.obj.generation <= o.generation
    PROVE  ConvergenceInv'
<1> DEFINE h == hist["cluster"]
<1>1. /\ revision \in Nat /\ \A k \in Children : applied[k] \in Nat
      /\ h \in History(ClusterObject \cup {Absent})
      /\ Versions(h) \subseteq ClusterObject \cup {Absent}
      /\ \A s \in ClusterObject : s.generation \in Nat
      /\ cw.pc # "idle" => cw.obj \in ClusterObject
  BY GenerationTypes
<1>2. hist'["cluster"] = Commit(h, o)
  BY WriteFacts, KindFacts, TypeParts DEF Typed, Children
<1>3. /\ Versions(hist'["cluster"]) \subseteq Versions(h) \cup {o}
      /\ \A s, t : Before(hist'["cluster"], s, t)
                     => Before(h, s, t) \/ (s \in Versions(h) /\ t = o)
  BY <1>1, <1>2, CommitFacts, CommitBefore
<1>4. Generations
  BY DEF ConvergenceInv
<1> HIDE DEF h
<1>5. \A s, t : Before(hist'["cluster"], s, t) /\ s # Absent /\ t # Absent
                  => s.generation <= t.generation
  BY <1>3, <1>4 DEF Generations, h
<1>6. \A n \in Nat : n <= revision => n <= revision'
  BY <1>1
<1>7. \A s \in Versions(hist'["cluster"]) : s # Absent =>
        /\ s.generation <= revision'
        /\ \A k \in Children : applied[k] <= s.generation
        /\ \A r \in s.status : r.observed <= s.generation
  <2>1. \A s \in Versions(h) : s # Absent =>
          /\ s.generation <= revision /\ s.generation \in Nat
          /\ \A k \in Children : applied[k] <= s.generation
          /\ \A r \in s.status : r.observed <= s.generation
    BY <1>1, <1>4 DEF Generations, h
  <2> QED
    BY <1>3, <1>6, <2>1
<1>8. Generations'
  BY <1>1, <1>4, <1>5, <1>6, <1>7 DEF Generations
<1>9. WorkerGeneration'
  <2>1. CASE cw'.pc = "idle"
    BY <2>1 DEF WorkerGeneration
  <2>2. CASE UNCHANGED cw /\ cw.pc # "idle"
    <3>1. WorkerGeneration /\ cw.obj.generation \in Nat
      BY <1>1, <2>2 DEF ConvergenceInv
    <3>2. \A s \in Versions(hist'["cluster"]) :
            s # Absent => cw.obj.generation <= s.generation
      BY <1>3, <2>2, <3>1 DEF WorkerGeneration, h
    <3>3. cw.obj.generation <= revision'
      BY <1>6, <2>2, <3>1 DEF WorkerGeneration
    <3> QED
      BY <2>2, <3>1, <3>2, <3>3 DEF WorkerGeneration
  <2> QED
    BY <2>1, <2>2
<1> QED
  BY <1>8, <1>9 DEF ConvergenceInv

(***************************************************************************)
(* The five kinds of steps, as far as generations are concerned.           *)
(***************************************************************************)
\* Nothing new: no version of the cluster, no spec, no child.
Nothing ==
    /\ Versions(hist'["cluster"]) \subseteq Versions(hist["cluster"])
    /\ \A s, t : Before(hist'["cluster"], s, t)
                   => Before(hist["cluster"], s, t)
    /\ Actual(hist'["cluster"]) = Now("cluster")
    /\ UNCHANGED <<revision, applied>>
    /\ UNCHANGED cw \/ cw'.pc = "idle"

\* The worker has gone past a child.
Progress ==
    /\ cw.pc \in Children /\ Passes
    /\ UNCHANGED revision /\ hist'["cluster"] = hist["cluster"]

\* A user has written a spec, or deleted the cluster.
Respecify ==
    /\ UNCHANGED <<cw, applied, owner>>
    /\ \E o \in ClusterObject \cup {Absent} : OtherWrite("cluster", o)

\* The status has been written.
Reporting ==
    LET dep == Read("deployment") IN
    /\ cw.pc = "status" /\ cw' = Idle /\ UNCHANGED <<revision, applied>>
    /\ dep # Absent /\ Now("cluster") = cw.obj
    /\ Write("cluster", [cw.obj EXCEPT !.status = {StatusOf(dep, cw.obj)}])

LEMMA NothingNew ==
    ASSUME hist'["cluster"] = hist["cluster"], UNCHANGED <<revision, applied>>,
           UNCHANGED cw \/ cw'.pc = "idle"
    PROVE  Nothing
  BY DEF Nothing, Now

LEMMA Moves ==
    ASSUME Typed, [Next]_vars
    PROVE  Nothing \/ Reconcile \/ Progress \/ Respecify \/ Reporting
<1>0. /\ HistoriesOK /\ RestOK /\ "cluster" \in Kinds
      /\ "cluster" \notin Children /\ Objects["cluster"] = ClusterObject
      /\ hist["cluster"] \in History(ClusterObject \cup {Absent})
  BY TypeParts, KindFacts DEF Typed, Children, HistoriesOK
<1>1. ASSUME NEW k \in Children, Outcome(k) PROVE Nothing \/ Progress
  <2>1. /\ cw.pc = k /\ UNCHANGED revision /\ k \in Kinds
        /\ k # "cluster"
    BY <1>0, <1>1, KindFacts DEF Outcome
  <2>2. CASE Fail
    BY <2>1, <2>2, NothingNew DEF Fail, ReturnErr, Idle, history
  <2>3. CASE Found(k)
    BY <1>1, <2>1, <2>3, PassesChild DEF Outcome, Found, Keep, Progress
  <2>4. CASE Written(k)
    <3>1. hist'["cluster"] = hist["cluster"]
      <4>1. PICK o \in Objects[k] \cup {Absent} : Write(k, o)
        BY <2>4 DEF Written
      <4> QED
        BY <1>0, <2>1, <4>1, WriteFacts
    <3> QED
      BY <1>1, <2>1, <2>4, <3>1, PassesChild DEF Outcome, Progress
  <2> QED
    BY <1>1, <2>2, <2>3, <2>4 DEF Outcome
<1>2. CASE ReconcileStatus
  <2>1. /\ cw.pc = "status" /\ cw' = Idle /\ UNCHANGED <<revision, applied>>
    BY <1>2 DEF ReconcileStatus, At, Return, ReturnErr, history
  <2>2. CASE UNCHANGED hist
    BY <2>1, <2>2, NothingNew DEF Idle
  <2> QED
    BY <1>2, <2>1, <2>2, NothingNew DEF ReconcileStatus, Reporting
<1>3. CASE User \/ Kubernetes
  <2>1. /\ UNCHANGED <<cw, applied, owner>>
        /\ \E k \in Kinds : \E o \in Objects[k] \cup {Absent} :
             OtherWrite(k, o)
    BY <1>3, UserWrites, KubernetesWrites
  <2>2. PICK k \in Kinds : \E o \in Objects[k] \cup {Absent} : OtherWrite(k, o)
    BY <2>1
  <2>3. PICK o \in Objects[k] \cup {Absent} : OtherWrite(k, o)
    BY <2>2
  <2>4. CASE k = "cluster"
    BY <1>0, <2>1, <2>3, <2>4 DEF Respecify
  <2>5. CASE k # "cluster"
    <3>1. UNCHANGED revision /\ Write(k, o)
      BY <2>3, <2>5 DEF OtherWrite
    <3>2. hist'["cluster"] = hist["cluster"]
      BY <1>0, <2>5, <3>1, WriteFacts
    <3> QED
      BY <2>1, <3>1, <3>2, NothingNew
  <2> QED
    BY <2>4, <2>5
<1>4. CASE CallFails
  BY <1>4, NothingNew DEF CallFails, Faulty, ReturnErr, Idle, history
<1>5. CASE Restart
  <2>1. /\ hist'["cluster"] = Relist(hist["cluster"])
        /\ Actual(hist'["cluster"]) = Now("cluster")
    BY <1>0, <1>5, RestartFacts
  <2>2. /\ Versions(hist'["cluster"]) \subseteq Versions(hist["cluster"])
        /\ \A s, t : ~Before(hist'["cluster"], s, t)
    BY <1>0, <2>1, RelistFacts, ReadBefore
  <2> QED
    BY <1>5, <2>1, <2>2 DEF Restart, Faulty, Idle, history, Nothing
<1>6. ASSUME NEW k \in Kinds, Receive(k) PROVE Nothing
  <2>1. UNCHANGED <<cw, revision, applied>>
    BY <1>6 DEF Receive, history
  <2>2. CASE k = "cluster"
    <3>1. /\ hist'["cluster"] = Deliver(hist["cluster"])
          /\ ~Synced(hist["cluster"])
          /\ Versions(hist'["cluster"]) \subseteq Versions(hist["cluster"])
          /\ Actual(hist'["cluster"]) = Now("cluster")
      BY <1>0, <1>6, <2>2, ReceiveFacts
    <3>2. \A s, t : Before(hist'["cluster"], s, t)
                      => Before(hist["cluster"], s, t)
      BY <1>0, <3>1, ReadBefore
    <3> QED
      BY <2>1, <3>1, <3>2 DEF Nothing
  <2>3. CASE k # "cluster"
    BY <1>0, <1>6, <2>1, <2>3, ReceiveFacts, NothingNew
  <2> QED
    BY <2>2, <2>3
<1>7. CASE UNCHANGED vars
  BY <1>7, NothingNew DEF vars, history
<1> QED
  BY <1>1, <1>2, <1>3, <1>4, <1>5, <1>6, <1>7, StepOutcome DEF Next

\* The new version that is written with a status.
LEMMA ReportFacts ==
    ASSUME Typed, ConvergenceInv, Reporting
    PROVE  \E o \in ClusterObject :
             /\ Write("cluster", o)
             /\ o.generation = cw.obj.generation
             /\ \E r \in Status : o.status = {r} /\ r.observed = o.generation
             /\ \A k \in Children : applied[k] <= o.generation
             /\ \A k \in Exact : applied[k] = o.generation
<1> DEFINE dep == Read("deployment")
           o   == [cw.obj EXCEPT !.status = {StatusOf(dep, cw.obj)}]
<1>1. cw.obj \in ClusterObject
  BY GenerationTypes DEF Reporting
<1>2. dep \in Deployment
  <2>1. "deployment" \in Kinds
    BY KindFacts DEF Children
  <2> QED
    BY <2>1, ReadFacts, KindFacts, TypeParts DEF Reporting, Typed
<1>3. /\ o \in ClusterObject /\ o.generation = cw.obj.generation
      /\ o.status = {StatusOf(dep, cw.obj)}
      /\ StatusOf(dep, cw.obj) \in Status
      /\ StatusOf(dep, cw.obj).observed = cw.obj.generation
  BY <1>1, <1>2, StatusFacts DEF ClusterObject
<1>4. /\ \A k \in Children : applied[k] <= cw.obj.generation
      /\ \A k \in Exact : applied[k] = cw.obj.generation
  BY DoneFacts DEF Exact, Reporting, ConvergenceInv, WorkerGeneration
<1>5. Write("cluster", o)
  BY DEF Reporting
<1> HIDE DEF o
<1> QED
  BY <1>3, <1>4, <1>5

LEMMA ConvergenceStep == Typed /\ ConvergenceInv /\ [Next]_vars => ConvergenceInv'
<1> SUFFICES ASSUME Typed, ConvergenceInv, [Next]_vars PROVE ConvergenceInv'
  OBVIOUS
<1>0. /\ revision \in Nat /\ \A k \in Children : applied[k] \in Nat
      /\ \A s \in ClusterObject :
           /\ s # Absent /\ s.generation \in Nat
           /\ \A r \in s.status : r.observed \in Nat
      /\ Versions(hist["cluster"]) \subseteq ClusterObject \cup {Absent}
      /\ Now("cluster") \in Versions(hist["cluster"])
      /\ cw.pc # "idle" => cw.obj \in ClusterObject
      /\ Generations /\ WorkerGeneration
  BY GenerationTypes DEF ConvergenceInv
<1>1. CASE Nothing
  BY <1>1, ConvergenceKept DEF Nothing
<1>2. CASE Reconcile
  BY <1>2, ConvergenceReconcile
<1>3. CASE Progress
  BY <1>3, ConvergenceProceed DEF Progress
<1>4. CASE Respecify
  <2>1. PICK o \in ClusterObject \cup {Absent} : OtherWrite("cluster", o)
    BY <1>4 DEF Respecify
  <2>2. Write("cluster", o) /\ UserSpec(o) /\ UNCHANGED <<cw, applied>>
    BY <1>4, <2>1 DEF OtherWrite, Respecify
  <2>3. CASE o = Absent
    <3>1. revision' = revision /\ revision <= revision'
      BY <1>0, <2>2, <2>3 DEF UserSpec
    <3> QED
      BY <1>0, <2>2, <2>3, <3>1, ConvergenceWrite
  <2>4. CASE o # Absent
    <3>1. /\ revision' = revision + 1 /\ o.generation = revision'
          /\ o.status = IF Now("cluster") = Absent THEN {}
                        ELSE Now("cluster").status
      BY <2>2, <2>4 DEF UserSpec
    <3>2. \A n \in Nat : n <= revision => n <= revision'
      BY <1>0, <3>1
    <3>3. /\ revision' \in Nat /\ revision <= revision'
          /\ o.generation <= revision'
      BY <1>0, <3>1
    <3>4. /\ \A s \in Versions(hist["cluster"]) : s # Absent =>
               s.generation <= o.generation
          /\ \A k \in Children : applied[k] <= o.generation
          /\ cw.pc # "idle" => cw.obj.generation <= o.generation
      BY <1>0, <3>1, <3>2 DEF Generations, WorkerGeneration
    <3>5. \A r \in o.status : r.observed <= o.generation
      <4>1. CASE Now("cluster") = Absent
        BY <3>1, <4>1
      <4>2. CASE Now("cluster") # Absent
        <5>1. \A r \in o.status :
                /\ r.observed \in Nat
                /\ r.observed <= Now("cluster").generation
                /\ Now("cluster").generation <= revision
                /\ Now("cluster").generation \in Nat
          BY <1>0, <3>1, <4>2 DEF Generations
        <5> QED
          BY <1>0, <3>1, <5>1
      <4> QED
        BY <4>1, <4>2
    <3> QED
      BY <2>2, <3>3, <3>4, <3>5, ConvergenceWrite
  <2> QED
    BY <2>3, <2>4
<1>5. CASE Reporting
  <2>1. PICK o \in ClusterObject :
          /\ Write("cluster", o)
          /\ o.generation = cw.obj.generation
          /\ \E r \in Status : o.status = {r} /\ r.observed = o.generation
          /\ \A k \in Children : applied[k] <= o.generation
          /\ \A k \in Exact : applied[k] = o.generation
    BY <1>5, ReportFacts
  <2>2. /\ Now("cluster") = cw.obj /\ cw'.pc = "idle" /\ cw.pc # "idle"
        /\ UNCHANGED <<revision, applied>>
    BY <1>5 DEF Reporting, Idle
  <2>3. /\ o.generation \in Nat /\ o.generation <= o.generation
        /\ revision <= revision /\ o.generation <= revision
    BY <1>0, <2>1, <2>2 DEF WorkerGeneration
  <2>4. \A s \in Versions(hist["cluster"]) : s # Absent =>
          s.generation <= o.generation
    BY <1>0, <2>1, <2>2, ReadIsOldest
  <2>5. /\ \A k \in Children : applied[k] <= o.generation
        /\ \A r \in o.status : r.observed <= o.generation
    BY <2>1, <2>3
  <2> QED
    BY <1>0, <2>1, <2>2, <2>3, <2>4, <2>5, ConvergenceWrite
<1> QED
  BY <1>1, <1>2, <1>3, <1>4, <1>5, Moves

LEMMA ConvergenceAlways == Spec => []ConvergenceInv
  BY ConvergenceInit, ConvergenceStep, TypedAlways, PTL DEF Spec

-----------------------------------------------------------------------------
(***************************************************************************)
(* The refinement.                                                         *)
(***************************************************************************)
\* What the status reports, as a function of the cluster.
ReportOf(o) == IF o # Absent /\ o.status # {}
               THEN (CHOOSE r \in o.status : TRUE).observed ELSE 0

LEMMA ReportFollowsCluster ==
    /\ ObservedGeneration = ReportOf(Now("cluster"))
    /\ ObservedGeneration' = ReportOf(Actual(hist'["cluster"]))
  BY DEF ObservedGeneration, ReportOf, Now

\* It is never ahead of the generation of the cluster.
LEMMA ReportBound ==
    ASSUME Typed, Generations, Now("cluster") # Absent
    PROVE  /\ ObservedGeneration \in Nat
           /\ ObservedGeneration <= Now("cluster").generation
<1> DEFINE o == Now("cluster")
<1>1. /\ o \in ClusterObject /\ o.generation \in Nat
      /\ \A r \in o.status : r.observed \in Nat /\ r.observed <= o.generation
  BY GenerationTypes DEF Generations
<1>2. CASE o.status = {}
  BY <1>1, <1>2, ReportFollowsCluster DEF ReportOf
<1>3. CASE o.status # {}
  <2>1. (CHOOSE r \in o.status : TRUE) \in o.status
    BY <1>3
  <2>2. ObservedGeneration = (CHOOSE r \in o.status : TRUE).observed
    BY <1>3, ReportFollowsCluster DEF ReportOf
  <2> QED
    BY <1>1, <2>1, <2>2
<1> QED
  BY <1>2, <1>3

LEMMA RefinementInit == Init => Convergence!Init
<1> SUFFICES ASSUME Init PROVE Convergence!Init
  OBVIOUS
<1>1. hist["cluster"] = <<Absent>>
  BY KindFacts DEF Init
<1>2. Now("cluster") = Absent
  BY <1>1, Single DEF Now
<1>3. ObservedGeneration = 0
  BY <1>2 DEF ObservedGeneration
<1> QED
  BY <1>3 DEF Init, Convergence!Init

LEMMA RefinementStep ==
    ASSUME Children \subseteq Exact, Typed, ConvergenceInv, [Next]_vars
    PROVE  \/ Convergence!Next
           \/ UNCHANGED <<revision, applied, ObservedGeneration>>
<1>0. /\ revision \in Nat /\ \A k \in Children : applied[k] \in Nat
      /\ applied \in [Children -> Nat]
      /\ Generations /\ WorkerGeneration /\ HistoriesOK
      /\ "cluster" \in Kinds /\ Objects["cluster"] = ClusterObject
      /\ cw.pc # "idle" => cw.obj \in ClusterObject
  BY GenerationTypes, TypeParts, KindFacts
     DEF ConvergenceInv, Typed, RestOK
<1>1. CASE Nothing
  BY <1>1, ReportFollowsCluster DEF Nothing
<1>2. CASE Reconcile
  <2>1. UNCHANGED <<hist, revision, applied>>
    BY <1>2 DEF Reconcile, At
  <2> QED
    BY <2>1, ReportFollowsCluster DEF Now
<1>3. CASE Progress
  <2> DEFINE g == cw.obj.generation
  <2>1. /\ cw.pc \in Children /\ UNCHANGED <<revision, ObservedGeneration>>
        /\ applied' = [applied EXCEPT ![cw.pc] = g]
    BY <1>3, ReportFollowsCluster
       DEF Progress, Passes, Proceed, MarkApplied, Now
  <2>2. cw.pc # "idle"
    BY <2>1 DEF Children
  <2>3. g \in Nat /\ g <= revision /\ applied[cw.pc] <= g
    BY <1>0, <2>1, <2>2, GenerationTypes DEF WorkerGeneration
  <2>4. g \in applied[cw.pc] .. revision
    BY <1>0, <2>1, <2>3
  <2>5. Convergence!Apply(cw.pc)
    BY <2>1, <2>4 DEF Convergence!Apply
  <2> QED
    BY <2>1, <2>5 DEF Convergence!Next
<1>4. CASE Respecify
  <2>1. PICK o \in ClusterObject \cup {Absent} :
          /\ OtherWrite("cluster", o) /\ Write("cluster", o) /\ UserSpec(o)
    BY <1>4 DEF Respecify, OtherWrite
  <2>2. UNCHANGED applied /\ ObservedGeneration' = ReportOf(o)
    <3>1. Actual(hist'["cluster"]) = o
      BY <1>0, <2>1, WriteFacts
    <3> QED
      BY <1>4, <3>1, ReportFollowsCluster DEF Respecify
  <2>3. CASE o = Absent
    <3>1. Convergence!Forget
      BY <2>1, <2>2, <2>3 DEF Convergence!Forget, UserSpec, ReportOf
    <3> QED
      BY <3>1 DEF Convergence!Next
  <2>4. CASE o # Absent
    <3>1. /\ revision' = revision + 1
          /\ o.status = IF Now("cluster") = Absent THEN {}
                        ELSE Now("cluster").status
      BY <2>1, <2>4 DEF UserSpec
    <3>2. ReportOf(o) = ObservedGeneration
      <4>1. ObservedGeneration = ReportOf(Now("cluster"))
        BY ReportFollowsCluster
      <4>2. CASE Now("cluster") = Absent
        BY <2>4, <3>1, <4>1, <4>2 DEF ReportOf
      <4>3. CASE Now("cluster") # Absent
        <5>1. o.status = Now("cluster").status
          BY <3>1, <4>3
        <5> QED
          BY <2>4, <4>1, <4>3, <5>1 DEF ReportOf
      <4> QED
        BY <4>2, <4>3
    <3>3. Convergence!Write
      BY <2>2, <3>1, <3>2 DEF Convergence!Write
    <3> QED
      BY <3>3 DEF Convergence!Next
  <2> QED
    BY <2>3, <2>4
<1>5. CASE Reporting
  <2>1. PICK o \in ClusterObject :
          /\ Write("cluster", o)
          /\ o.generation = cw.obj.generation
          /\ \E r \in Status : o.status = {r} /\ r.observed = o.generation
          /\ \A k \in Children : applied[k] <= o.generation
          /\ \A k \in Exact : applied[k] = o.generation
    BY <1>5, ReportFacts
  <2>2. /\ Now("cluster") = cw.obj /\ cw.pc # "idle"
        /\ UNCHANGED <<revision, applied>>
    BY <1>5 DEF Reporting
  <2>3. o # Absent /\ o.generation \in Nat
    BY GenerationTypes
  <2>4. ObservedGeneration' = o.generation
    <3>1. ObservedGeneration' = ReportOf(o)
      <4>1. Actual(hist'["cluster"]) = o
        BY <1>0, <2>1, WriteFacts
      <4> QED
        BY <4>1, ReportFollowsCluster
    <3>2. ReportOf(o) = o.generation
      BY <2>1, <2>3 DEF ReportOf
    <3> QED
      BY <3>1, <3>2
  <2>5. /\ ObservedGeneration \in Nat
        /\ ObservedGeneration <= o.generation
    <3>1. Now("cluster") # Absent
      BY <1>0, <2>2, GenerationTypes
    <3> QED
      BY <1>0, <2>1, <2>2, <3>1, ReportBound
  <2>6. o.generation <= revision
    BY <1>0, <2>1, <2>2 DEF WorkerGeneration
  <2>7. o.generation \in ObservedGeneration .. revision
    BY <1>0, <2>3, <2>5, <2>6
  <2>8. \A k \in Children : o.generation <= applied[k]
    BY <2>1, <2>3
  <2>9. Convergence!Report
    BY <2>2, <2>4, <2>7, <2>8 DEF Convergence!Report
  <2> QED
    BY <2>9 DEF Convergence!Next
<1> QED
  BY <1>1, <1>2, <1>3, <1>4, <1>5, Moves

\* However far the informers of cluster, class, Deployment and Service are
\* behind, whichever calls fail and however often the operator is restarted: no
\* child ever goes back to an older generation of the spec, also across a
\* deletion of the cluster, and observedGeneration is never ahead of any of
\* them.  The other children are left alone when the cache says that they are
\* in line, so their informers have to be up to date: with a late peer config
\* TLC finds a status that is ahead of it.
THEOREM ConvergenceIsImplemented ==
    ASSUME \A k \in Compared \ {"monitor"} : Lag[k] = 0
    PROVE  Spec => ImplementsConvergence
<1>1. Children \subseteq Exact
  BY DEF Exact
<1>2. Typed /\ ConvergenceInv /\ [Next]_vars
        => [Convergence!Next]_<<revision, applied, ObservedGeneration>>
  BY <1>1, RefinementStep
<1> QED
  BY <1>2, RefinementInit, TypedAlways, ConvergenceAlways, PTL
     DEF Spec, ImplementsConvergence, Convergence!Spec

-----------------------------------------------------------------------------
(***************************************************************************)
(* No update of a child or of the status is lost.  That everything is in   *)
(* line at rest is not inductive.  What carries over is: as long as no     *)
(* request is queued, the cache still has the cluster that the worker      *)
(* works for or has worked for last, and each child that the worker has    *)
(* gone past is either as this cluster wants it or about to cause an       *)
(* event.                                                                  *)
(***************************************************************************)
\* Child o is as spec wants it, for a class with this image; what has happened
\* since to what is not watched does not count.
Wanted(k, o, spec, later, class) ==
    \/ k = "monitor" /\ k \in later
    \/ \E image \in Images :
         /\ Fits(k, o, spec, image)
         /\ "class" \notin later
              => image = IF spec.image # NoImage THEN spec.image ELSE class

LEMMA WantedStays ==
    ASSUME NEW k, NEW o, NEW spec, NEW u, NEW v, NEW c, NEW d,
           Wanted(k, o, spec, u, c),
           k = "monitor" /\ k \in u => k \in v,
           "class" \notin v => "class" \notin u /\ c = d
    PROVE  Wanted(k, o, spec, v, d)
  BY DEF Wanted

\* The children that the worker has gone past.
Past(pc) == IF pc = "idle" THEN Children ELSE Done[pc]

\* The worker deploys the image of the class as it is.
ClassInv ==
    "class" \notin unseen =>
      /\ Synced(hist["class"])
      /\ cw.pc # "idle" =>
           cw.image = IF cw.obj.spec.image # NoImage THEN cw.obj.spec.image
                      ELSE Now("class")

LineInv ==
    ~queued =>
      /\ cw.pc # "idle" => cw.obj = Read("cluster")
      /\ Read("cluster") # Absent =>
           /\ \A k \in Past(cw.pc) : Synced(hist[k]) =>
                Wanted(k, Now(k), Read("cluster").spec, unseen, Now("class"))
           /\ /\ cw.pc = "idle"
              /\ Synced(hist["deployment"]) /\ Synced(hist["cluster"])
              => /\ Now("deployment") # Absent
                 /\ Read("cluster").status =
                      {StatusOf(Now("deployment"), Read("cluster"))}

PodsInv == Agree(Now("deployment"), pods)

SettlingInv == ClassInv /\ LineInv /\ PodsInv

LEMMA SettlingInit == Init => SettlingInv
<1> SUFFICES ASSUME Init PROVE SettlingInv
  OBVIOUS
<1>1. PICK i \in Images \cup {Absent} :
        hist = [k \in Kinds |-> IF k = "class" THEN <<i>> ELSE <<Absent>>]
  BY DEF Init
<1>2. /\ hist["cluster"] = <<Absent>> /\ hist["deployment"] = <<Absent>>
      /\ hist["class"] = <<i>>
  BY <1>1, KindFacts DEF Children
<1>3. /\ Synced(hist["class"]) /\ Read("cluster") = Absent
      /\ Now("deployment") = Absent
  BY <1>2, Single DEF Read, Now
<1>4. cw.pc = "idle" /\ ~pods.up
  BY DEF Init, Idle, NoPods
<1> QED
  BY <1>3, <1>4 DEF SettlingInv, ClassInv, LineInv, PodsInv, Agree

(***************************************************************************)
(* The pods.                                                               *)
(***************************************************************************)
LEMMA PodsKept ==
    ASSUME PodsInv, UNCHANGED pods,
           Actual(hist'["deployment"]) = Now("deployment")
    PROVE  PodsInv'
<1>1. Now("deployment")' = Now("deployment")
  BY DEF Now
<1> QED
  BY <1>1 DEF PodsInv, Agree

LEMMA PodsWrite ==
    ASSUME Typed, PodsInv, NEW k \in Kinds, NEW o \in Objects[k] \cup {Absent},
           Write(k, o),
           IF k = "deployment" THEN Agree(Now(k), pods) => Agree(o, pods')
           ELSE UNCHANGED pods
    PROVE  PodsInv'
<1>1. /\ Actual(hist'[k]) = o
      /\ \A j \in Kinds \ {k} : hist'[j] = hist[j]
  BY WriteFacts, TypeParts DEF Typed
<1>2. CASE k = "deployment"
  <2>1. Now("deployment")' = o
    BY <1>1, <1>2 DEF Now
  <2> QED
    BY <1>2, <2>1 DEF PodsInv, Agree
<1>3. CASE k # "deployment"
  <2>1. "deployment" \in Kinds
    BY KindFacts DEF Children
  <2> QED
    BY <1>1, <1>3, <2>1, PodsKept DEF Now
<1> QED
  BY <1>2, <1>3

LEMMA PodsStep == Typed /\ PodsInv /\ [Next]_vars => PodsInv'
<1> SUFFICES ASSUME Typed, PodsInv, [Next]_vars PROVE PodsInv'
  OBVIOUS
<1>0. /\ HistoriesOK /\ "deployment" \in Kinds
      /\ "cluster" \in Kinds /\ Children \subseteq Kinds
      /\ Objects["cluster"] = ClusterObject
  BY TypeParts, KindFacts DEF Typed, Children
<1>1. CASE UNCHANGED <<hist, pods>>
  BY <1>1, PodsKept DEF Now
<1>2. ASSUME NEW k \in Kinds, Receive(k) PROVE PodsInv'
  <2>1. Actual(hist'["deployment"]) = Now("deployment")
    BY <1>0, <1>2, ReceiveFacts DEF Now
  <2> QED
    BY <1>2, <2>1, PodsKept DEF Receive
<1>3. CASE Reconcile
  BY <1>1, <1>3 DEF Reconcile, At
<1>4. CASE ReconcileStatus
  <2> DEFINE o == [cw.obj EXCEPT !.status =
                     {StatusOf(Read("deployment"), cw.obj)}]
  <2>1. UNCHANGED pods /\ cw.pc = "status"
    BY <1>4 DEF ReconcileStatus, At
  <2>2. CASE UNCHANGED hist
    BY <1>1, <2>1, <2>2
  <2>3. CASE Read("deployment") # Absent /\ Write("cluster", o)
    <3>1. cw.obj \in ClusterObject /\ Read("deployment") \in Deployment
      BY <1>0, <2>1, <2>3, TypeParts, ReadFacts, KindFacts DEF Typed, RestOK
    <3>2. o \in ClusterObject
      BY <3>1, StatusFacts
    <3> QED
      BY <1>0, <2>1, <2>3, <3>2, PodsWrite
  <2> QED
    BY <1>4, <2>2, <2>3 DEF ReconcileStatus
<1>5. ASSUME NEW k \in Children, Outcome(k) PROVE PodsInv'
  <2>1. UNCHANGED pods
    BY <1>5 DEF Outcome
  <2>2. CASE Fail \/ Found(k)
    BY <1>1, <2>1, <2>2 DEF Fail, Found, Keep
  <2>3. CASE Written(k)
    <3>1. PICK o \in Objects[k] \cup {Absent} :
            /\ Write(k, o) /\ Fits(k, o, cw.obj.spec, cw.image)
            /\ KeepsReady(k, o)
      BY <2>3 DEF Written
    <3>2. k = "deployment" => (Agree(Now(k), pods) => Agree(o, pods))
      BY <3>1 DEF Fits, KeepsReady, Agree
    <3> QED
      BY <1>0, <2>1, <3>1, <3>2, PodsWrite
  <2> QED
    BY <1>5, <2>2, <2>3 DEF Outcome
<1>6. CASE CallFails
  BY <1>1, <1>6 DEF CallFails, Faulty
<1>7. CASE Restart
  BY <1>0, <1>7, RestartFacts, PodsKept DEF Restart, Faulty
<1>8. CASE User \/ Kubernetes
  <2>1. \E k \in Kinds : \E o \in Objects[k] \cup {Absent} : OtherWrite(k, o)
    BY <1>8, UserWrites, KubernetesWrites
  <2>2. PICK k \in Kinds : \E o \in Objects[k] \cup {Absent} : OtherWrite(k, o)
    BY <2>1
  <2>3. PICK o \in Objects[k] \cup {Absent} : OtherWrite(k, o)
    BY <2>2
  <2> QED
    BY <2>3, PodsWrite DEF OtherWrite
<1>9. CASE UNCHANGED vars
  BY <1>1, <1>9 DEF vars
<1> QED
  BY <1>2, <1>3, <1>4, <1>5, <1>6, <1>7, <1>8, <1>9, StepOutcome DEF Next

(***************************************************************************)
(* The class.                                                              *)
(***************************************************************************)
LEMMA ClassKept ==
    ASSUME ClassInv, hist'["class"] = hist["class"],
           "class" \notin unseen' => "class" \notin unseen,
           \/ cw'.pc = "idle"
           \/ cw.pc # "idle" /\ cw'.obj = cw.obj /\ cw'.image = cw.image
    PROVE  ClassInv'
<1>1. Now("class")' = Now("class")
  BY DEF Now
<1> QED
  BY <1>1 DEF ClassInv

\* A worker that starts has resolved the image of the class, if it looked at
\* the latest version of it.
LEMMA ClassReconcile ==
    ASSUME Typed, ClassInv, Reconcile
    PROVE  ClassInv'
<1> DEFINE o == Read("cluster")
<1>1. cw.pc = "idle" /\ UNCHANGED hist
  BY DEF Reconcile, At
<1>2. Now("class")' = Now("class")
  BY <1>1 DEF Now
<1>3. "class" \notin unseen' => Synced(hist["class"])
  BY DEF Reconcile, ClassInv
<1>4. Synced(hist["class"]) => Now("class") = Read("class")
  BY ReadFacts, TypeParts, KindFacts DEF Typed
<1>5. CASE UNCHANGED cw
  BY <1>1, <1>3, <1>5 DEF ClassInv
<1>6. ASSUME NEW i \in ResolveConfig(o.spec),
             cw' = [pc |-> "pipelines", obj |-> o, image |-> i]
      PROVE  ClassInv'
  <2>1. i = IF o.spec.image # NoImage THEN o.spec.image ELSE Read("class")
    BY <1>6 DEF ResolveConfig
  <2> HIDE DEF o
  <2>2. cw'.obj = o /\ cw'.image = i
    BY <1>6
  <2> QED
    BY <1>1, <1>2, <1>3, <1>4, <2>1, <2>2 DEF ClassInv
<1> QED
  BY <1>5, <1>6 DEF Reconcile

\* The status of the cluster is written, or that fails.
LEMMA ReportingFacts ==
    ASSUME Typed, ReconcileStatus
    PROVE  /\ cw.pc = "status" /\ cw' = Idle /\ UNCHANGED <<pods, history>>
           /\ \/ queued' = TRUE /\ UNCHANGED hist
              \/ /\ UNCHANGED <<queued, hist>> /\ Read("deployment") # Absent
                 /\ cw.obj.status = {StatusOf(Read("deployment"), cw.obj)}
              \/ \E o \in ClusterObject :
                   /\ Write("cluster", o) /\ o # Now("cluster")
                   /\ UNCHANGED queued
<1> DEFINE dep == Read("deployment")
           o   == [cw.obj EXCEPT !.status = {StatusOf(dep, cw.obj)}]
<1>1. /\ cw.pc = "status" /\ cw' = Idle /\ UNCHANGED <<pods, history>>
  BY DEF ReconcileStatus, At, Return, ReturnErr
<1>2. cw.obj \in ClusterObject /\ (dep # Absent => dep \in Deployment)
  BY <1>1, TypeParts, ReadFacts, KindFacts DEF Typed, RestOK, Children
<1>3. dep # Absent => /\ o \in ClusterObject
                      /\ o.status = {StatusOf(dep, cw.obj)}
  BY <1>2, StatusFacts DEF ClusterObject
<1>4. \/ queued' = TRUE /\ UNCHANGED hist
      \/ dep # Absent /\ o = cw.obj /\ UNCHANGED <<queued, hist>>
      \/ /\ dep # Absent /\ o # cw.obj /\ Now("cluster") = cw.obj
         /\ Write("cluster", o) /\ UNCHANGED queued
  BY DEF ReconcileStatus, Return, ReturnErr
<1> HIDE DEF o
<1> QED
  BY <1>1, <1>3, <1>4

LEMMA ClassStep == Typed /\ ClassInv /\ [Next]_vars => ClassInv'
<1> SUFFICES ASSUME Typed, ClassInv, [Next]_vars PROVE ClassInv'
  OBVIOUS
<1>0. /\ HistoriesOK /\ "class" \in Kinds \ Children
      /\ "class" \notin Watched /\ Children \subseteq Kinds
      /\ "cluster" \in Kinds /\ "cluster" # "class"
      /\ Objects["cluster"] = ClusterObject
  BY TypeParts, KindFacts DEF Typed, Children, Watched
<1>1. ASSUME NEW k \in Kinds, Receive(k) PROVE ClassInv'
  <2>1. UNCHANGED <<cw, unseen>> /\ ~Synced(hist[k])
    BY <1>1 DEF Receive, history
  <2>2. CASE k = "class"
    BY <2>1, <2>2 DEF ClassInv
  <2>3. CASE k # "class"
    BY <1>0, <1>1, <2>1, <2>3, ReceiveFacts, ClassKept
  <2> QED
    BY <2>2, <2>3
<1>2. ASSUME NEW k \in Children, Outcome(k) PROVE ClassInv'
  <2>1. cw.pc = k /\ k \in Kinds /\ k # "class" /\ k # "idle"
    BY <1>0, <1>2 DEF Outcome, Children
  <2>2. CASE Fail
    BY <2>2, ClassKept DEF Fail, ReturnErr, Idle, history
  <2>3. CASE Proceed /\ Marked /\ hist'["class"] = hist["class"]
    <3>1. cw'.obj = cw.obj /\ cw'.image = cw.image
      BY <2>1, <2>3, ProceedTyped, TypeParts DEF Typed
    <3>2. unseen' = unseen \ {k}
      BY <2>1, <2>3 DEF Proceed
    <3> QED
      BY <2>1, <2>3, <3>1, <3>2, ClassKept
  <2>4. CASE Found(k)
    BY <2>3, <2>4 DEF Found, Keep, Marked
  <2>5. CASE Written(k)
    <3>1. PICK o \in Objects[k] \cup {Absent} : Write(k, o)
      BY <2>5 DEF Written
    <3>2. hist'["class"] = hist["class"]
      BY <1>0, <2>1, <3>1, WriteFacts
    <3> QED
      BY <2>3, <2>5, <3>2 DEF Written, Marked
  <2> QED
    BY <1>2, <2>2, <2>4, <2>5 DEF Outcome
<1>3. CASE ReconcileStatus
  <2>1. cw'.pc = "idle" /\ UNCHANGED unseen
    BY <1>3, ReportingFacts DEF Idle, history
  <2>2. hist'["class"] = hist["class"]
    BY <1>0, <1>3, ReportingFacts, WriteFacts
  <2> QED
    BY <2>1, <2>2, ClassKept
<1>4. CASE CallFails
  BY <1>4, ClassKept DEF CallFails, Faulty, ReturnErr, Idle, history
<1>5. CASE Restart
  <2>1. Synced(hist'["class"]) /\ cw'.pc = "idle"
    BY <1>0, <1>5, RestartFacts DEF Restart, Idle
  <2> QED
    BY <2>1 DEF ClassInv
<1>6. CASE User \/ Kubernetes
  <2>1. /\ UNCHANGED cw
        /\ \E k \in Kinds : \E o \in Objects[k] \cup {Absent} :
             OtherWrite(k, o)
    BY <1>6, UserWrites, KubernetesWrites
  <2>2. PICK k \in Kinds : \E o \in Objects[k] \cup {Absent} : OtherWrite(k, o)
    BY <2>1
  <2>3. PICK o \in Objects[k] \cup {Absent} : OtherWrite(k, o)
    BY <2>2
  <2>4. Write(k, o) /\ unseen' = unseen \cup ({k} \ Watched)
    BY <2>3 DEF OtherWrite
  <2>5. CASE k = "class"
    BY <1>0, <2>4, <2>5 DEF ClassInv
  <2>6. CASE k # "class"
    <3>1. hist'["class"] = hist["class"]
      BY <1>0, <2>4, <2>6, WriteFacts
    <3> QED
      BY <2>1, <2>4, <3>1, ClassKept
  <2> QED
    BY <2>5, <2>6
<1>7. CASE UNCHANGED vars
  BY <1>7, ClassKept DEF vars, history
<1>8. CASE Reconcile
  BY <1>8, ClassReconcile
<1> QED
  BY <1>1, <1>2, <1>3, <1>4, <1>5, <1>6, <1>7, <1>8, StepOutcome DEF Next

(***************************************************************************)
(* The children and the status.                                            *)
(***************************************************************************)
\* Steps of others: they leave alone what the worker goes by, or make an event
\* that makes a request, or it is not watched.
LEMMA LineKept ==
    ASSUME Typed, LineInv, UNCHANGED <<cw, queued>>,
           Cached(hist'["cluster"]) = Read("cluster"),
           Synced(hist'["cluster"]) => Synced(hist["cluster"]),
           \A k \in Children :
             \/ hist'[k] = hist[k] \/ ~Synced(hist'[k])
             \/ k = "monitor" /\ k \in unseen',
           "monitor" \in unseen => "monitor" \in unseen',
           "class" \notin unseen' => /\ "class" \notin unseen
                                     /\ Actual(hist'["class"]) = Now("class")
    PROVE  LineInv'
<1> DEFINE o == Read("cluster")
<1> SUFFICES ASSUME ~queued PROVE LineInv'
  BY DEF LineInv
<1>1. Read("cluster")' = o /\ Now("class")' = Actual(hist'["class"])
  BY DEF Read, Now
<1>2. cw.pc # "idle" => cw.obj = o
  BY DEF LineInv
<1>3. ASSUME o # Absent, NEW k \in Past(cw.pc), Synced(hist'[k])
      PROVE  Wanted(k, Actual(hist'[k]), o.spec, unseen',
                    Actual(hist'["class"]))
  <2>1. k \in Children
    <3>1. cw.pc \in {"idle", "status"} \cup Children
      BY TypeParts DEF Typed, RestOK
    <3>2. Past(cw.pc) \subseteq Children
      BY <3>1, DoneFacts DEF Past
    <3> QED
      BY <1>3, <3>2
  <2>2. CASE hist'[k] = hist[k]
    <3>1. Wanted(k, Now(k), o.spec, unseen, Now("class"))
      BY <1>3, <2>2 DEF LineInv
    <3>2. Actual(hist'[k]) = Now(k)
      BY <2>2 DEF Now
    <3> HIDE DEF o
    <3> QED
      BY <3>1, <3>2, WantedStays
  <2>3. CASE k = "monitor" /\ k \in unseen'
    BY <2>3 DEF Wanted
  <2> QED
    BY <1>3, <2>1, <2>2, <2>3
<1>4. ASSUME o # Absent, cw.pc = "idle", Synced(hist'["deployment"]),
             Synced(hist'["cluster"])
      PROVE  /\ Actual(hist'["deployment"]) # Absent
             /\ o.status = {StatusOf(Actual(hist'["deployment"]), o)}
  <2>1. hist'["deployment"] = hist["deployment"]
    BY <1>4 DEF Children
  <2> QED
    BY <1>4, <2>1 DEF LineInv, Now
<1> HIDE DEF o
<1>5. \A k : Now(k)' = Actual(hist'[k])
  BY DEF Now
<1> QED
  BY <1>1, <1>2, <1>3, <1>4, <1>5 DEF LineInv, Now

\* A child of the worker's is in line.
LEMMA LineProceed ==
    ASSUME Typed, ClassInv, LineInv, NEW k \in Children, cw.pc = k,
           Proceed, Marked,
           \A j \in Kinds \ {k} : hist'[j] = hist[j],
           Cached(hist'["cluster"]) = Read("cluster"),
           Synced(hist'[k]) =>
             Fits(k, Actual(hist'[k]), cw.obj.spec, cw.image)
    PROVE  LineInv'
<1> DEFINE o == Read("cluster")
<1> SUFFICES ASSUME ~queued PROVE LineInv'
  BY DEF LineInv, Proceed
<1>0. /\ k # "idle" /\ k # "class" /\ k # "cluster" /\ Children \subseteq Kinds
      /\ "class" \in Kinds /\ "idle" \notin Children /\ "status" # "idle"
  BY KindFacts DEF Children
<1>1. /\ cw'.pc = NextStep[k] /\ cw'.pc \in Children \cup {"status"}
      /\ cw'.obj = cw.obj /\ cw.image \in Images
  <2>1. RestOK
    BY TypeParts DEF Typed
  <2>2. cw'.pc = NextStep[k]
    BY <2>1, ProceedTyped DEF Proceed
  <2> QED
    BY <2>1, <2>2, ProceedTyped
<1>2. cw.obj = o /\ unseen' = unseen \ {k} /\ cw'.pc # "idle"
  BY <1>0, <1>1 DEF LineInv, Proceed
<1>3. Read("cluster")' = o /\ Actual(hist'["class"]) = Now("class")
  BY <1>0 DEF Read, Now
<1>4. Past(cw'.pc) = Past(k) \cup {k} /\ Past(k) \subseteq Children
      /\ k \notin Past(k)
  BY <1>0, <1>1, <1>2, DoneFacts DEF Past
<1>5. ASSUME o # Absent, NEW j \in Past(cw'.pc), Synced(hist'[j])
      PROVE  Wanted(j, Actual(hist'[j]), o.spec, unseen',
                    Actual(hist'["class"]))
  <2>1. CASE j = k
    <3>1. Fits(k, Actual(hist'[k]), o.spec, cw.image)
      BY <1>2, <1>5, <2>1
    <3>2. "class" \notin unseen' =>
            cw.image = IF o.spec.image # NoImage THEN o.spec.image
                       ELSE Now("class")
      BY <1>0, <1>2 DEF ClassInv
    <3> HIDE DEF o
    <3> QED
      BY <1>1, <1>3, <2>1, <3>1, <3>2 DEF Wanted
  <2>2. CASE j # k
    <3>1. j \in Past(k) /\ j \in Kinds
      BY <1>0, <1>4, <1>5, <2>2
    <3>2. hist'[j] = hist[j] /\ Actual(hist'[j]) = Now(j)
      BY <2>2, <3>1 DEF Now
    <3>3. Wanted(j, Now(j), o.spec, unseen, Now("class"))
      BY <1>5, <3>1, <3>2 DEF LineInv
    <3>4. /\ j = "monitor" /\ j \in unseen => j \in unseen'
          /\ "class" \notin unseen' => "class" \notin unseen
      BY <1>0, <1>2, <2>2
    <3> HIDE DEF o
    <3> QED
      BY <1>3, <3>2, <3>3, <3>4, WantedStays
  <2> QED
    BY <2>1, <2>2
<1> HIDE DEF o
<1>6. \A j : Now(j)' = Actual(hist'[j])
  BY DEF Now
<1> QED
  BY <1>1, <1>2, <1>3, <1>5, <1>6 DEF LineInv

\* The request is done.
LEMMA LineReport ==
    ASSUME Typed, LineInv, ReconcileStatus
    PROVE  LineInv'
<1> DEFINE o == Read("cluster")
<1>0. /\ HistoriesOK /\ "cluster" \in Kinds /\ "deployment" \in Kinds
      /\ "class" \in Kinds /\ Children \subseteq Kinds \ {"cluster"}
      /\ "cluster" # "monitor" /\ "class" # "cluster"
      /\ Objects["cluster"] = ClusterObject
  BY TypeParts, KindFacts DEF Typed, Children
<1>1. /\ cw.pc = "status" /\ cw' = Idle /\ UNCHANGED unseen
      /\ cw'.pc = "idle" /\ Past(cw'.pc) = Past(cw.pc)
  BY ReportingFacts, DoneFacts DEF Idle, Past, history
<1>2. CASE queued' = TRUE
  BY <1>2 DEF LineInv
<1>3. CASE /\ UNCHANGED <<queued, hist>> /\ Read("deployment") # Absent
           /\ cw.obj.status = {StatusOf(Read("deployment"), cw.obj)}
  <2> SUFFICES ASSUME ~queued PROVE LineInv'
    BY <1>3 DEF LineInv
  <2>1. cw.obj = o
    BY <1>1 DEF LineInv
  <2>2. Synced(hist["deployment"]) => Now("deployment") = Read("deployment")
    BY <1>0, ReadFacts
  <2>3. Read("cluster")' = o /\ \A k : Now(k)' = Now(k)
    BY <1>3 DEF Read, Now
  <2>4. Synced(hist["deployment"]) =>
          /\ Now("deployment") # Absent
          /\ o.status = {StatusOf(Now("deployment"), o)}
    BY <1>3, <2>1, <2>2
  <2>5. o # Absent =>
          \A k \in Past(cw.pc) : Synced(hist[k]) =>
            Wanted(k, Now(k), o.spec, unseen, Now("class"))
    BY DEF LineInv
  <2> HIDE DEF o
  <2> QED
    BY <1>1, <1>3, <2>3, <2>4, <2>5 DEF LineInv
<1>4. ASSUME NEW n \in ClusterObject, Write("cluster", n),
             n # Now("cluster"), UNCHANGED queued
      PROVE  LineInv'
  <2> SUFFICES ASSUME ~queued PROVE LineInv'
    BY <1>4 DEF LineInv
  <2>1. /\ Cached(hist'["cluster"]) = Read("cluster")
        /\ ~Synced(hist'["cluster"])
        /\ \A k \in Kinds \ {"cluster"} : hist'[k] = hist[k]
    BY <1>0, <1>4, WriteFacts DEF Read
  <2>2. /\ Read("cluster")' = o
        /\ \A k \in Children \cup {"class"} : Now(k)' = Now(k)
    BY <1>0, <2>1 DEF Read, Now
  <2>3. o # Absent =>
          \A k \in Past(cw.pc) : Synced(hist[k]) =>
            Wanted(k, Now(k), o.spec, unseen, Now("class"))
    BY DEF LineInv
  <2>4. Past(cw.pc) \subseteq Children
    BY <1>1, DoneFacts DEF Past
  <2>5. \A k \in Past(cw.pc) : hist'[k] = hist[k] /\ Now(k)' = Now(k)
    BY <1>0, <2>1, <2>2, <2>4
  <2> HIDE DEF o
  <2> QED
    BY <1>1, <2>1, <2>2, <2>3, <2>5 DEF LineInv
<1> QED
  BY <1>2, <1>3, <1>4, ReportingFacts

LEMMA LineStep == Typed /\ ClassInv /\ LineInv /\ [Next]_vars => LineInv'
<1> SUFFICES ASSUME Typed, ClassInv, LineInv, [Next]_vars PROVE LineInv'
  OBVIOUS
<1>0. /\ HistoriesOK /\ MonitorInv /\ Children \subseteq Kinds
      /\ "cluster" \in Kinds \ Children /\ "class" \in Kinds \ Children
      /\ "class" # "cluster" /\ "monitor" \in Children
      /\ "cluster" \in Watched /\ Kinds \ Watched = {"class", "monitor"}
  BY TypeParts, KindFacts DEF Typed, Children, Watched
<1>1. CASE queued'
  BY <1>1 DEF LineInv
<1>2. ASSUME NEW k \in Kinds, Receive(k) PROVE LineInv'
  <2>1. /\ queued' = (queued \/ k \in Watched) /\ UNCHANGED <<cw, unseen>>
        /\ ~Synced(hist[k])
    BY <1>2 DEF Receive, history
  <2>2. CASE k \in Watched
    BY <1>1, <2>1, <2>2
  <2>3. CASE k \notin Watched
    <3>1. k = "class" /\ queued' = queued
      BY <1>0, <2>1, <2>3, TypeParts DEF MonitorInv, Typed, RestOK
    <3>2. /\ Actual(hist'["class"]) = Now("class")
          /\ \A j \in Kinds \ {"class"} : hist'[j] = hist[j]
      BY <1>0, <1>2, <3>1, ReceiveFacts
    <3> QED
      BY <1>0, <2>1, <3>1, <3>2, LineKept DEF Read
  <2> QED
    BY <2>2, <2>3
<1>3. CASE Reconcile
  <2> DEFINE o == Read("cluster")
  <2>1. cw.pc = "idle" /\ UNCHANGED hist
    BY <1>3 DEF Reconcile, At
  <2>2. Read("cluster")' = o
    BY <2>1 DEF Read
  <2>3. CASE UNCHANGED queued
    BY <1>1, <1>3, <2>3 DEF Reconcile
  <2>4. CASE o = Absent /\ UNCHANGED cw
    BY <2>1, <2>2, <2>4 DEF LineInv
  <2>5. ASSUME NEW i, cw' = [pc |-> "pipelines", obj |-> o, image |-> i]
        PROVE  LineInv'
    <3>1. cw'.pc = "pipelines" /\ cw'.obj = o
      BY <2>5
    <3>2. Past("pipelines") = {}
      BY DoneFacts DEF Past
    <3> HIDE DEF o
    <3> QED
      BY <2>2, <3>1, <3>2 DEF LineInv
  <2> QED
    BY <1>3, <2>3, <2>4, <2>5 DEF Reconcile
<1>4. ASSUME NEW k \in Children, Outcome(k) PROVE LineInv'
  <2>1. cw.pc = k /\ k \in Kinds /\ k # "cluster"
    BY <1>0, <1>4 DEF Outcome
  <2>2. CASE Fail
    BY <1>1, <2>2 DEF Fail, ReturnErr
  <2>3. CASE Found(k)
    <3>1. Proceed /\ Marked /\ UNCHANGED hist
      BY <2>3 DEF Found, Keep, Marked
    <3>2. Synced(hist[k]) => Now(k) = Read(k)
      BY <1>0, <2>1, ReadFacts
    <3> QED
      BY <2>1, <2>3, <3>1, <3>2, LineProceed DEF Found, Now, Read
  <2>4. CASE Written(k)
    <3>1. PICK o \in Objects[k] \cup {Absent} :
            Write(k, o) /\ Fits(k, o, cw.obj.spec, cw.image)
      BY <2>4 DEF Written
    <3>2. /\ Actual(hist'[k]) = o
          /\ \A j \in Kinds \ {k} : hist'[j] = hist[j]
      BY <1>0, <2>1, <3>1, WriteFacts
    <3>3. Cached(hist'["cluster"]) = Read("cluster")
      BY <1>0, <2>1, <3>2 DEF Read
    <3> QED
      BY <2>1, <2>4, <3>1, <3>2, <3>3, LineProceed DEF Written, Marked
  <2> QED
    BY <1>4, <2>2, <2>3, <2>4 DEF Outcome
<1>5. CASE ReconcileStatus
  BY <1>5, LineReport
<1>6. CASE CallFails
  BY <1>1, <1>6 DEF CallFails, ReturnErr
<1>7. CASE Restart
  <2> SUFFICES ASSUME ~queued' PROVE LineInv'
    BY <1>1
  <2>1. Now("cluster") = Absent /\ cw'.pc = "idle"
    BY <1>0, <1>7 DEF Restart, Idle
  <2>2. Read("cluster")' = Absent
    BY <1>0, <1>7, <2>1, RestartFacts DEF Read
  <2> QED
    BY <2>1, <2>2 DEF LineInv
<1>8. CASE User \/ Kubernetes
  <2>1. /\ UNCHANGED <<cw, queued>>
        /\ \E k \in Kinds : \E o \in Objects[k] \cup {Absent} :
             OtherWrite(k, o)
    BY <1>8, UserWrites, KubernetesWrites
  <2>2. PICK k \in Kinds : \E o \in Objects[k] \cup {Absent} : OtherWrite(k, o)
    BY <2>1
  <2>3. PICK o \in Objects[k] \cup {Absent} : OtherWrite(k, o)
    BY <2>2
  <2>4. Write(k, o) /\ unseen' = unseen \cup ({k} \ Watched)
    BY <2>3 DEF OtherWrite
  <2>5. /\ \A j \in Kinds \ {k} : hist'[j] = hist[j]
        /\ k # "monitor" => /\ Cached(hist'[k]) = Cached(hist[k])
                            /\ hist'[k] = hist[k] \/ ~Synced(hist'[k])
    BY <1>0, <2>4, WriteFacts
  <2>6. /\ Cached(hist'["cluster"]) = Read("cluster")
        /\ Synced(hist'["cluster"]) => Synced(hist["cluster"])
    BY <1>0, <2>5 DEF Read
  <2>7. \A j \in Children : \/ hist'[j] = hist[j] \/ ~Synced(hist'[j])
                            \/ j = "monitor" /\ j \in unseen'
    BY <1>0, <2>4, <2>5
  <2>8. "class" \notin unseen' => /\ "class" \notin unseen
                                  /\ Actual(hist'["class"]) = Now("class")
    BY <1>0, <2>4, <2>5 DEF Now
  <2> QED
    BY <2>1, <2>4, <2>6, <2>7, <2>8, LineKept
<1>9. CASE UNCHANGED vars
  BY <1>9, LineKept DEF vars, history, Read, Now
<1> QED
  BY <1>2, <1>3, <1>4, <1>5, <1>6, <1>7, <1>8, <1>9, StepOutcome DEF Next

LEMMA SettlingAlways == Spec => []SettlingInv
<1>1. Typed /\ SettlingInv /\ [Next]_vars => SettlingInv'
  BY ClassStep, LineStep, PodsStep DEF SettlingInv
<1> QED
  BY <1>1, SettlingInit, TypedAlways, PTL DEF Spec

\* At rest all caches hold what there is and the worker has gone past every
\* child.
LEMMA AtRest ==
    ASSUME Typed, SettlingInv, Settled, Now("cluster") # Absent
    PROVE  LET o == Now("cluster") IN
           /\ o \in ClusterObject
           /\ \A k \in Children :
                Wanted(k, Now(k), o.spec, unseen, Now("class"))
           /\ Now("deployment") \in Deployment
           /\ o.status = {StatusOf(Now("deployment"), o)}
<1>1. /\ HistoriesOK /\ "cluster" \in Kinds /\ "deployment" \in Kinds
      /\ Children \subseteq Kinds /\ Objects["cluster"] = ClusterObject
      /\ Objects["deployment"] = Deployment
  BY TypeParts, KindFacts DEF Typed, Children
<1>2. /\ ~queued /\ cw.pc = "idle" /\ \A k \in Kinds : Synced(hist[k])
      /\ Past("idle") = Children
  BY DEF Settled, Past
<1>3. Read("cluster") = Now("cluster") /\ Now("cluster") \in ClusterObject
  BY <1>1, <1>2, ReadFacts
<1>4. Now("deployment") # Absent => Now("deployment") \in Deployment
  BY <1>1, ReadFacts
<1> QED
  BY <1>1, <1>2, <1>3, <1>4 DEF SettlingInv, LineInv

\* Every instance: whatever was edited or deleted by hand and whichever calls
\* failed, when nothing is left to do every child is as spec and class want it
\* and the optional ones that are not wanted are gone.  Reconcile brings the
\* children into line one after the other with the cluster that it has read;
\* its watches are enough for it to come back whenever one of them changes
\* behind it.
THEOREM ChildrenAreInLine == Spec => []SettledChildren
<1>1. ASSUME Typed, SettlingInv PROVE SettledChildren
  <2> SUFFICES ASSUME Settled, Now("cluster") # Absent
               PROVE  SettledChildren
    BY DEF SettledChildren, Settles
  <2> DEFINE o    == Now("cluster")
             dep  == Now("deployment")
             spec == o.spec
  <2>1. /\ o \in ClusterObject /\ dep \in Deployment
        /\ \A k \in Children : Wanted(k, Now(k), spec, unseen, Now("class"))
    BY <1>1, AtRest
  <2>2. \A k \in Children \ {"monitor"} :
          \E image \in Images : Fits(k, Now(k), spec, image)
    BY <2>1 DEF Wanted
  <2>3. /\ Now("pipelines") # Absent /\ Now("headless") # Absent
        /\ Now("service") = spec.ports
        /\ Now("peer") = IF spec.server THEN Absent ELSE RenderPeerConfig(spec)
        /\ {Now("hpa")} \ {Absent} = spec.autoscaling
    BY <2>2 DEF Fits, Children
  <2>4. "monitor" \notin unseen
          => (Now("monitor") # Absent) = (spec.monitor /\ MonitorCRD)
    BY <2>1 DEF Wanted, Fits, Children
  <2>5. PICK image \in Images :
          /\ Fits("deployment", dep, spec, image)
          /\ "class" \notin unseen
               => image = IF spec.image # NoImage THEN spec.image
                          ELSE Now("class")
    BY <2>1 DEF Wanted, Children
  <2>6. /\ dep # Absent /\ dep.template = TemplateOf(spec, image)
        /\ spec.autoscaling = {} => dep.replicas = spec.replicas
        /\ dep.template.image = image
    BY <2>1, <2>5, TemplateType DEF Fits
  <2> HIDE DEF o, dep
  <2> QED
    BY <2>3, <2>4, <2>5, <2>6 DEF SettledChildren, Settles, o, dep
<1> QED
  BY <1>1, TypedAlways, SettlingAlways, PTL

\* Every instance: when nothing is left to do, the status is about the current
\* generation and the pods as they are, and the cluster is Ready unless an
\* autoscaler has scaled it below spec.replicas, however the informers of
\* cluster and Deployment were behind when it was written.
THEOREM StatusIsTrue == Spec => []SettledStatus
<1>1. ASSUME Typed, SettlingInv PROVE SettledStatus
  <2> SUFFICES ASSUME Settled, Now("cluster") # Absent
               PROVE  SettledStatus
    BY DEF SettledStatus, Settles
  <2> DEFINE o   == Now("cluster")
             dep == Now("deployment")
  <2>1. /\ o \in ClusterObject /\ dep \in Deployment
        /\ o.status = {StatusOf(dep, o)} /\ dep # Absent
        /\ o.spec.autoscaling = {} => dep.replicas = o.spec.replicas
    <3>1. /\ o \in ClusterObject /\ dep \in Deployment
          /\ o.status = {StatusOf(dep, o)}
          /\ \A k \in Children : Wanted(k, Now(k), o.spec, unseen, Now("class"))
      BY <1>1, AtRest
    <3>2. "deployment" \in Kinds /\ Objects["deployment"] = Deployment
      BY KindFacts DEF Children
    <3>3. \E image \in Images : Fits("deployment", dep, o.spec, image)
      BY <3>1 DEF Wanted, Children
    <3> QED
      BY <3>1, <3>2, <3>3, Presence DEF Fits
  <2>2. /\ dep.created /\ pods.number = dep.replicas
        /\ dep.ready = pods.number
    BY <1>1, <2>1 DEF Settled, PodsMatch, SettlingInv, PodsInv, Agree
  <2>3. dep.replicas \in Nat /\ o.spec.replicas \in Nat
    BY <2>1, DeploymentFacts, SpecFacts
  <2> HIDE DEF o, dep
  <2>4. StatusOf(dep, o) =
          [phase |-> IF dep.replicas >= o.spec.replicas THEN "Ready"
                     ELSE "Pending",
           readyReplicas |-> pods.number, progressing |-> FALSE,
           observed |-> o.generation]
    <3>1. dep.ready = dep.replicas
      BY <2>2
    <3>2. ~(dep.seen /\ dep.ready = 0 /\ dep.replicas > 0)
      BY <2>3, <3>1
    <3> QED
      BY <2>2, <3>1, <3>2 DEF StatusOf
  <2>5. /\ StatusOf(dep, o).observed = o.generation
        /\ StatusOf(dep, o).readyReplicas = pods.number
        /\ ~StatusOf(dep, o).progressing
        /\ o.spec.autoscaling = {} \/ dep.replicas >= o.spec.replicas
             => StatusOf(dep, o).phase = "Ready"
    BY <2>1, <2>3, <2>4
  <2> QED
    BY <2>1, <2>5 DEF SettledStatus, Settles, o, dep
<1> QED
  BY <1>1, TypedAlways, SettlingAlways, PTL

-----------------------------------------------------------------------------
(***************************************************************************)
(* The server configuration that pods have read.                           *)
(*                                                                         *)
(* The peer config and the template whose annotation has its hash are      *)
(* written by two calls, and pods may start between them, with the new     *)
(* text under the old hash.  The next call rolls them, unless the hash is  *)
(* already as it is to be.  What is invariant is stated by generation: the *)
(* template has the hash of the spec it was last brought into line with,   *)
(* and the peer config, which is never behind it, has the text.            *)
(***************************************************************************)
\* What decides on the server configuration, in a spec and in a pod template,
\* and the configuration that spec asks for.
Config(spec) == <<spec.server,
                  IF spec.server THEN {} ELSE {RenderPeerConfig(spec)}>>
ConfigOf(t)  == <<t.server, t.peerHash>>
Own(spec)    == IF spec.server THEN "user" ELSE RenderPeerConfig(spec)

LEMMA ConfigFacts ==
    /\ \A spec, image : ConfigOf(TemplateOf(spec, image)) = Config(spec)
    /\ \A x, y : Config(x) = Config(y) /\ x.server \in BOOLEAN
                   /\ y.server \in BOOLEAN => Own(x) = Own(y)
  BY DEF Config, ConfigOf, Own, TemplateOf

\* The clusters that somebody may still read or write.
Visible == (Versions(hist["cluster"]) \ {Absent})
             \cup (IF cw.pc = "idle" THEN {} ELSE {cw.obj})

\* The same but for the status.
Alike(x, y) == /\ x.spec = y.spec /\ x.generation = y.generation
               /\ x.uid = y.uid

LEMMA VisibleFacts ==
    ASSUME Typed
    PROVE  /\ Visible \subseteq ClusterObject
           /\ Now("cluster") # Absent => Now("cluster") \in Visible
           /\ cw.pc # "idle" => cw.obj \in Visible
           /\ \A x \in Visible : x # Absent
  BY GenerationTypes DEF Visible

\* Whatever becomes visible has been so before, or is a new spec.
LEMMA VisibleStep ==
    ASSUME Typed, ConvergenceInv, [Next]_vars, NEW x \in Visible'
    PROVE  \/ \E y \in Visible : Alike(x, y)
           \/ /\ x = Actual(hist'["cluster"]) /\ x # Absent
              /\ revision' = revision + 1 /\ x.generation = revision'
              /\ \/ x.uid = revision'
                 \/ Now("cluster") # Absent /\ x.uid = Now("cluster").uid
<1>1. /\ HistoriesOK /\ "cluster" \in Kinds
      /\ Objects["cluster"] = ClusterObject
      /\ cw.pc # "idle" => cw.obj \in ClusterObject
      /\ Read("cluster") \in Versions(hist["cluster"])
  BY TypeParts, KindFacts, GenerationTypes DEF Typed
<1>2. \/ x \in Versions(hist'["cluster"]) /\ x # Absent
      \/ cw'.pc # "idle" /\ x = cw'.obj
  BY DEF Visible
<1>3. ASSUME Versions(hist'["cluster"]) \subseteq Versions(hist["cluster"]),
             UNCHANGED cw \/ cw'.pc = "idle"
      PROVE  x \in Visible
  BY <1>2, <1>3 DEF Visible
<1>4. CASE Nothing
  BY <1>3, <1>4 DEF Nothing, Alike
<1>5. CASE Reconcile
  <2>1. UNCHANGED hist
    BY <1>5 DEF Reconcile
  <2>2. UNCHANGED cw \/ (cw'.obj = Read("cluster") /\ Read("cluster") # Absent)
    <3>1. \A o, i : cw' = [pc |-> "pipelines", obj |-> o, image |-> i]
                     => cw'.obj = o
      OBVIOUS
    <3> QED
      BY <1>5, <3>1 DEF Reconcile
  <2> QED
    BY <1>1, <1>2, <2>1, <2>2 DEF Visible, Alike
<1>6. CASE Progress
  <2>1. hist'["cluster"] = hist["cluster"] /\ cw.pc # "idle"
    BY <1>6 DEF Progress, Children
  <2>2. cw'.obj = cw.obj
    BY <1>6, TypeParts DEF Progress, Passes, Proceed, Typed, RestOK
  <2> QED
    BY <1>2, <2>1, <2>2 DEF Visible, Alike
<1>7. CASE Respecify
  <2>1. PICK o \in ClusterObject \cup {Absent} : OtherWrite("cluster", o)
    BY <1>7 DEF Respecify
  <2>2. Write("cluster", o) /\ UserSpec(o) /\ UNCHANGED cw
    BY <1>7, <2>1 DEF OtherWrite, Respecify
  <2>3. /\ Actual(hist'["cluster"]) = o
        /\ Versions(hist'["cluster"]) \subseteq Versions(hist["cluster"]) \cup {o}
    BY <1>1, <2>2, WriteFacts
  <2>4. CASE x = o /\ o # Absent
    BY <2>2, <2>3, <2>4 DEF UserSpec
  <2>5. CASE ~(x = o /\ o # Absent)
    BY <1>2, <2>2, <2>3, <2>5 DEF Visible, Alike
  <2> QED
    BY <2>4, <2>5
<1>8. CASE Reporting
  <2> DEFINE o == [cw.obj EXCEPT !.status =
                     {StatusOf(Read("deployment"), cw.obj)}]
  <2>1. /\ cw.pc = "status" /\ cw'.pc = "idle" /\ Write("cluster", o)
        /\ cw.obj \in ClusterObject
    BY <1>1, <1>8 DEF Reporting, Idle
  <2>2. o \in ClusterObject /\ Alike(o, cw.obj)
    <3>1. Read("deployment") \in Deployment
      BY <1>8, TypeParts, ReadFacts, KindFacts DEF Reporting, Typed, Children
    <3> QED
      BY <2>1, <3>1, StatusFacts DEF ClusterObject, Alike
  <2> HIDE DEF o
  <2>3. Versions(hist'["cluster"]) \subseteq Versions(hist["cluster"]) \cup {o}
    BY <1>1, <2>1, <2>2, WriteFacts
  <2>4. cw.obj \in Visible
    BY <2>1 DEF Visible
  <2> QED
    BY <1>2, <2>1, <2>2, <2>3, <2>4 DEF Visible, Alike
<1> QED
  BY <1>4, <1>5, <1>6, <1>7, <1>8, Moves

\* A generation has one spec.
SpecInv ==
    /\ \A x, y \in Visible : x.generation = y.generation => x.spec = y.spec
    /\ \A x \in Visible : x.uid <= x.generation

LEMMA SpecInit == Init => SpecInv
<1>1. Init => Visible = {}
  <2>1. Init => hist["cluster"] = <<Absent>> /\ cw.pc = "idle"
    BY KindFacts DEF Init, Idle
  <2>2. Versions(<<Absent>>) = {Absent}
    BY Single
  <2> QED
    BY <2>1, <2>2 DEF Visible
<1> QED
  BY <1>1 DEF SpecInv

LEMMA SpecStep == Typed /\ ConvergenceInv /\ SpecInv /\ [Next]_vars => SpecInv'
<1> SUFFICES ASSUME Typed, ConvergenceInv, SpecInv, [Next]_vars PROVE SpecInv'
  OBVIOUS
<1> DEFINE New(x) == /\ x = Actual(hist'["cluster"]) /\ x # Absent
                     /\ revision' = revision + 1 /\ x.generation = revision'
                     /\ \/ x.uid = revision'
                        \/ /\ Now("cluster") # Absent
                           /\ x.uid = Now("cluster").uid
<1>1. \A x \in Visible' : New(x) \/ \E y \in Visible : Alike(x, y)
  BY VisibleStep
<1>2. /\ revision \in Nat
      /\ \A x \in Visible : /\ x.generation \in Nat /\ x.uid \in Nat
                            /\ x.generation <= revision
      /\ Now("cluster") # Absent => Now("cluster") \in Visible
  <2>1. Visible \subseteq ClusterObject /\ revision \in Nat
    BY VisibleFacts, GenerationTypes
  <2>2. \A x \in Visible : x.generation <= revision
    BY DEF Visible, ConvergenceInv, Generations, WorkerGeneration
  <2> QED
    BY <2>1, <2>2, VisibleFacts, SpecFacts
<1>3. \A x : New(x) => \A y \in Visible : x.generation # y.generation
  BY <1>2
<1>4. \A x : New(x) => x.uid <= x.generation
  BY <1>2 DEF SpecInv
<1>5. \A x, y : New(x) /\ New(y) => x = y
  OBVIOUS
<1> HIDE DEF New
<1> QED
  BY <1>1, <1>3, <1>4, <1>5 DEF SpecInv, Alike

LEMMA SpecAlways == Spec => []SpecInv
  BY SpecInit, SpecStep, TypedAlways, ConvergenceAlways, PTL DEF Spec

(***************************************************************************)
(* The kinds of steps, as far as peer config, template and pods are        *)
(* concerned.                                                              *)
(***************************************************************************)
SameTemplate ==
    LET old == Now("deployment")
        new == Actual(hist'["deployment"])
    IN  /\ (old = Absent) <=> (new = Absent)
        /\ old # Absent => new.template = old.template

\* At most the peer config is lost.
Untouched ==
    /\ UNCHANGED <<owner, applied, pods.runs, pods.booted>>
    /\ Actual(hist'["peer"]) \in {Now("peer"), Absent}
    /\ SameTemplate

\* The Deployment is lost, and its pods with it.
DeploymentLost ==
    /\ UNCHANGED <<owner, applied, hist["peer"]>>
    /\ Actual(hist'["deployment"]) = Absent /\ pods' = NoPods

\* Pods start or are counted again.
Started ==
    /\ PodsUp /\ UNCHANGED <<owner, applied, hist["peer"], hist["cluster"]>>
    /\ SameTemplate

\* The worker goes past child k.
Passed(k) ==
    /\ Fresh /\ cw.pc = k /\ UNCHANGED <<pods, hist["cluster"]>>
    /\ Found(k) \/ Written(k)

LEMMA SameTemplateKept ==
    ASSUME hist'["deployment"] = hist["deployment"] PROVE SameTemplate
  BY DEF SameTemplate, Now

LEMMA OthersUntouched ==
    ASSUME Typed, User \/ Kubernetes
    PROVE  Untouched \/ DeploymentLost \/ Started
<1> DEFINE d == Now("deployment")
<1>0. /\ HistoriesOK /\ "deployment" \in Kinds /\ "peer" \in Kinds
      /\ "cluster" \in Kinds /\ "class" \in Kinds /\ Children \subseteq Kinds
      /\ "cluster" \notin Children /\ "class" \notin Children
      /\ Objects["deployment"] = Deployment
      /\ d # Absent => d \in Deployment
      /\ pods \in PodSet
      /\ \A x \in Deployment : x # Absent
  BY TypeParts, KindFacts, ReadFacts, Presence
     DEF Typed, RestOK, Children
<1>1. UNCHANGED <<owner, applied>>
  BY UserWrites, KubernetesWrites
<1>2. ASSUME NEW k \in Kinds \ {"deployment", "peer"},
             NEW o \in Objects[k] \cup {Absent}, Write(k, o), UNCHANGED pods
      PROVE  Untouched
  <2>1. /\ hist'["deployment"] = hist["deployment"]
        /\ hist'["peer"] = hist["peer"]
    BY <1>0, <1>2, WriteFacts
  <2> QED
    BY <1>1, <1>2, <2>1, SameTemplateKept DEF Untouched, Now
<1>3. ASSUME NEW k \in Children, Vanish(k)
      PROVE  Untouched \/ DeploymentLost
  <2>1. k \in Kinds /\ Write(k, Absent)
    BY <1>0, <1>3 DEF Vanish
  <2>2. /\ Actual(hist'[k]) = Absent
        /\ \A j \in Kinds \ {k} : hist'[j] = hist[j]
    BY <1>0, <2>1, WriteFacts
  <2>3. CASE k = "deployment"
    BY <1>0, <1>1, <1>3, <2>2, <2>3 DEF Vanish, DeploymentLost
  <2>4. CASE k # "deployment"
    <3>1. /\ UNCHANGED pods /\ hist'["deployment"] = hist["deployment"]
          /\ Actual(hist'["peer"]) \in {Now("peer"), Absent}
      BY <1>0, <1>3, <2>2, <2>4 DEF Vanish, Now
    <3> QED
      BY <1>1, <3>1, SameTemplateKept DEF Untouched
  <2> QED
    BY <2>3, <2>4
<1>4. ASSUME d # Absent, NEW e \in Deployment, e.template = d.template,
             Write("deployment", e)
      PROVE  /\ SameTemplate
             /\ hist'["peer"] = hist["peer"] /\ hist'["cluster"] = hist["cluster"]
  <2>1. /\ Actual(hist'["deployment"]) = e
        /\ \A j \in Kinds \ {"deployment"} : hist'[j] = hist[j]
    BY <1>0, <1>4, WriteFacts
  <2> QED
    BY <1>0, <1>4, <2>1 DEF SameTemplate
<1>5. CASE User
  <2>1. ASSUME NEW spec \in Specs, CreateCluster(spec) \/ EditCluster(spec)
        PROVE  Untouched
    <3>1. UNCHANGED pods
      BY <2>1 DEF CreateCluster, EditCluster
    <3>2. PICK o : Write("cluster", o)
      BY <2>1 DEF CreateCluster, EditCluster
    <3>3. /\ hist'["deployment"] = hist["deployment"]
          /\ hist'["peer"] = hist["peer"]
      BY <1>0, <3>2 DEF Write, HistoriesOK
    <3> QED
      BY <1>1, <3>1, <3>3, SameTemplateKept DEF Untouched, Now
  <2>2. DeleteCluster => Untouched
    BY <1>0, <1>2 DEF DeleteCluster
  <2>3. ASSUME NEW i \in Images \cup {Absent}, SetClass(i) PROVE Untouched
    BY <1>0, <1>2, <2>3, KindFacts DEF SetClass
  <2> QED
    BY <1>3, <1>5, <2>1, <2>2, <2>3 DEF User, DeleteChild
<1>6. CASE PodsCreated
  <2> DEFINE e == [d EXCEPT !.created = TRUE, !.seen = TRUE]
  <2>1. e \in Deployment /\ e.template = d.template
    BY <1>0, <1>6 DEF PodsCreated, Deployment
  <2>2. SameTemplate /\ hist'["peer"] = hist["peer"] /\ UNCHANGED pods
    <3>1. d # Absent /\ Write("deployment", e) /\ UNCHANGED pods
      BY <1>6 DEF PodsCreated
    <3> HIDE DEF e, d
    <3> QED
      BY <1>4, <2>1, <3>1
  <2> QED
    BY <1>1, <2>2 DEF Untouched, Now
<1>7. CASE PodsUp
  <2> DEFINE e == [d EXCEPT !.ready = d.replicas]
  <2>1. e \in Deployment /\ e.template = d.template
    BY <1>0, <1>7 DEF PodsUp, Deployment
  <2>2. /\ SameTemplate
        /\ hist'["peer"] = hist["peer"] /\ hist'["cluster"] = hist["cluster"]
    <3>1. d # Absent /\ Write("deployment", e)
      BY <1>7 DEF PodsUp
    <3> HIDE DEF e, d
    <3> QED
      BY <1>4, <2>1, <3>1
  <2> QED
    BY <1>1, <1>7, <2>2 DEF Started
<1>8. CASE PodsDown
  <2> DEFINE e == [d EXCEPT !.ready = 0]
  <2>1. e \in Deployment /\ e.template = d.template
    BY <1>0, <1>8 DEF PodsDown, Deployment
  <2>2. SameTemplate /\ hist'["peer"] = hist["peer"]
    <3>1. d # Absent /\ Write("deployment", e)
      BY <1>8 DEF PodsDown
    <3> HIDE DEF e, d
    <3> QED
      BY <1>4, <2>1, <3>1
  <2>3. pods'.runs = pods.runs /\ pods'.booted = pods.booted
    BY <1>0, <1>8 DEF PodsDown, PodSet
  <2> QED
    BY <1>1, <2>2, <2>3 DEF Untouched, Now
<1>9. CASE ScaleIntoRange \/ ScaleWithLoad
  <2>1. d # Absent /\ Now("hpa") # Absent
    BY <1>9 DEF ScaleIntoRange, ScaleWithLoad, OutOfRange
  <2>2. Now("hpa").min \in Nat /\ Now("hpa").max \in Nat
    <3>1. Now("hpa") \in Autoscaling
      BY <1>0, <2>1, ReadFacts, KindFacts DEF Children
    <3> QED
      BY <3>1 DEF Autoscaling
  <2>3. PICK n \in Nat : ScaleTo(n)
    BY <1>9, <2>2 DEF ScaleIntoRange, ScaleWithLoad
  <2> DEFINE e == Respecified(d, [d EXCEPT !.replicas = n])
  <2>4. e \in Deployment /\ e.template = d.template
    <3>1. /\ [d EXCEPT !.replicas = n] \in Deployment
          /\ [d EXCEPT !.replicas = n].template = d.template
      BY <1>0, <2>1 DEF Deployment
    <3> QED
      BY <1>0, <2>1, <3>1, RespecifiedFacts
  <2>5. Write("deployment", e) /\ UNCHANGED pods
    BY <2>3 DEF ScaleTo
  <2> HIDE DEF e, d
  <2>6. SameTemplate /\ hist'["peer"] = hist["peer"]
    BY <1>4, <2>1, <2>4, <2>5 DEF d
  <2> QED
    BY <1>1, <2>5, <2>6 DEF Untouched, Now
<1> QED
  BY <1>3, <1>5, <1>6, <1>7, <1>8, <1>9 DEF Kubernetes, Collect

LEMMA WorkloadMoves ==
    ASSUME Typed, [Next]_vars
    PROVE  \/ Untouched \/ DeploymentLost \/ Started
           \/ \E k \in Children : Passed(k)
<1>0. /\ HistoriesOK /\ Children \subseteq Kinds /\ "cluster" \notin Children
      /\ "deployment" \in Kinds /\ "peer" \in Kinds /\ "cluster" \in Kinds
  BY TypeParts, KindFacts DEF Typed, Children
<1>1. ASSUME hist'["deployment"] = hist["deployment"],
             hist'["peer"] = hist["peer"], UNCHANGED <<owner, applied, pods>>
      PROVE  Untouched
  BY <1>1, SameTemplateKept DEF Untouched, Now
<1>2. ASSUME Step PROVE Untouched \/ \E k \in Children : Passed(k)
  <2>1. CASE ReconcileStatus
    <3>1. UNCHANGED <<owner, applied, pods>>
      BY <2>1 DEF ReconcileStatus, At, Return, ReturnErr, history
    <3>2. \/ UNCHANGED hist
          \/ \E o : Write("cluster", o)
      BY <2>1 DEF ReconcileStatus
    <3>3. /\ hist'["deployment"] = hist["deployment"]
          /\ hist'["peer"] = hist["peer"]
      BY <1>0, <3>2 DEF Write, HistoriesOK
    <3> QED
      BY <1>1, <3>1, <3>3
  <2>2. ASSUME NEW k \in Children, Outcome(k)
        PROVE  Untouched \/ Passed(k)
    <3>1. Fresh /\ cw.pc = k /\ UNCHANGED pods /\ (Fail \/ Found(k) \/ Written(k))
      BY <2>2 DEF Outcome
    <3>2. CASE Fail
      BY <1>1, <3>1, <3>2 DEF Fail, ReturnErr, history
    <3>3. CASE Found(k)
      BY <3>1, <3>3 DEF Found, Keep, Passed
    <3>4. CASE Written(k)
      <4>1. PICK o : Write(k, o)
        BY <3>4 DEF Written
      <4>2. hist'["cluster"] = hist["cluster"]
        BY <1>0, <4>1 DEF Write, HistoriesOK
      <4> QED
        BY <3>1, <3>4, <4>2 DEF Passed
    <3> QED
      BY <3>1, <3>2, <3>3, <3>4
  <2> QED
    BY <1>2, <2>1, <2>2, StepOutcome
<1>3. CASE Reconcile \/ CallFails \/ UNCHANGED vars
  BY <1>1, <1>3 DEF Reconcile, At, CallFails, Faulty, ReturnErr, history, vars
<1>4. ASSUME \A k \in Kinds : Actual(hist'[k]) = Now(k),
             UNCHANGED <<owner, applied, pods>>
      PROVE  Untouched
  BY <1>0, <1>4 DEF Untouched, SameTemplate
<1>5. CASE Restart
  BY <1>4, <1>5, <1>0, RestartFacts DEF Restart, Faulty, history
<1>6. ASSUME NEW k \in Kinds, Receive(k) PROVE Untouched
  <2>1. \A j \in Kinds : Actual(hist'[j]) = Now(j)
    BY <1>0, <1>6, ReceiveFacts DEF Now
  <2> QED
    BY <1>4, <1>6, <2>1 DEF Receive, history
<1> QED
  BY <1>2, <1>3, <1>5, <1>6, OthersUntouched DEF Next

(***************************************************************************)
(* Peer config and template.                                               *)
(***************************************************************************)
ConfigInv ==
    LET dep == Now("deployment")
        g   == applied["deployment"]
        h   == applied["peer"]
    IN  /\ owner["deployment"] <= g /\ g <= h
        /\ dep # Absent => \A x \in Visible :
             x.generation = g => ConfigOf(dep.template) = Config(x.spec)
        /\ \A x \in Visible : x.generation = h /\ ~x.spec.server =>
             Now("peer") \in {Absent, RenderPeerConfig(x.spec)}
        /\ dep # Absent /\ g = h /\ ~dep.template.server =>
             Now("peer") \in dep.template.peerHash \cup {Absent}

LEMMA ConfigInit == Init => ConfigInv
<1> SUFFICES ASSUME Init PROVE ConfigInv
  OBVIOUS
<1>1. /\ owner["deployment"] = 0 /\ applied["deployment"] = 0
      /\ applied["peer"] = 0
  BY DEF Init, Children
<1>2. hist["deployment"] = <<Absent>> /\ hist["peer"] = <<Absent>>
  BY KindFacts DEF Init, Children
<1>3. Now("deployment") = Absent /\ Now("peer") = Absent
  BY <1>2, Single DEF Now
<1> QED
  BY <1>1, <1>3 DEF ConfigInv

\* With an up-to-date informer, the worker that goes past the peer config
\* leaves what the operator owns of it as the spec wants it.
LEMMA PeerPassed ==
    ASSUME Lag["peer"] = 0, Typed, Passed("peer")
    PROVE  /\ ~cw.obj.spec.server
                => Actual(hist'["peer"]) = RenderPeerConfig(cw.obj.spec)
           /\ hist'["deployment"] = hist["deployment"]
           /\ owner'["deployment"] = owner["deployment"]
<1>1. /\ HistoriesOK /\ "peer" \in Kinds /\ "deployment" \in Kinds
      /\ owner \in [Children -> Nat]
      /\ "peer" \in Children /\ "deployment" \in Children
  BY TypeParts, KindFacts DEF Typed, RestOK, Children
<1>2. CASE Found("peer")
  <2>1. Now("peer") = Read("peer")
    BY <1>1, FreshRead DEF Passed
  <2> QED
    BY <1>2, <2>1 DEF Found, Keep, Fits, Now
<1>3. CASE Written("peer")
  <2>1. PICK o \in Objects["peer"] \cup {Absent} :
          Write("peer", o) /\ Fits("peer", o, cw.obj.spec, cw.image)
    BY <1>3 DEF Written
  <2>2. Actual(hist'["peer"]) = o /\ hist'["deployment"] = hist["deployment"]
    BY <1>1, <2>1, WriteFacts
  <2>3. owner'["deployment"] = owner["deployment"]
    BY <1>1, <1>3 DEF Written
  <2> QED
    BY <2>1, <2>2, <2>3 DEF Fits
<1> QED
  BY <1>2, <1>3 DEF Passed

\* The Deployment is written at every reconcile.
LEMMA DeploymentPassed ==
    ASSUME Typed, Passed("deployment")
    PROVE  LET old == Now("deployment")
               new == Actual(hist'["deployment"])
           IN  /\ new # Absent
               /\ ConfigOf(new.template) = Config(cw.obj.spec)
               /\ hist'["peer"] = hist["peer"]
               /\ \/ owner'["deployment"] = owner["deployment"]
                  \/ /\ old = Absent
                     /\ owner'["deployment"] = cw.obj.uid
<1>1. /\ HistoriesOK /\ "peer" \in Kinds /\ "deployment" \in Kinds
      /\ owner \in [Children -> Nat]
      /\ "peer" \in Children /\ "deployment" \in Children
  BY TypeParts, KindFacts DEF Typed, RestOK, Children
<1>2. Written("deployment")
  BY DEF Passed, Found, Compared
<1>3. PICK o \in Objects["deployment"] \cup {Absent} :
        /\ Write("deployment", o)
        /\ Fits("deployment", o, cw.obj.spec, cw.image)
  BY <1>2 DEF Written
<1>4. Actual(hist'["deployment"]) = o /\ hist'["peer"] = hist["peer"]
  BY <1>1, <1>3, WriteFacts
<1>5. o # Absent /\ ConfigOf(o.template) = Config(cw.obj.spec)
  BY <1>3, ConfigFacts DEF Fits
<1> QED
  BY <1>1, <1>2, <1>4, <1>5 DEF Written

LEMMA OtherPassed ==
    ASSUME Typed, NEW k \in Children \ {"peer", "deployment"}, Passed(k)
    PROVE  /\ hist'["peer"] = hist["peer"]
           /\ hist'["deployment"] = hist["deployment"]
           /\ owner'["deployment"] = owner["deployment"]
<1>1. /\ HistoriesOK /\ "peer" \in Kinds /\ "deployment" \in Kinds
      /\ owner \in [Children -> Nat] /\ Children \subseteq Kinds
      /\ "peer" \in Children /\ "deployment" \in Children
  BY TypeParts, KindFacts DEF Typed, RestOK, Children
<1>2. CASE Found(k)
  BY <1>2 DEF Found, Keep
<1>3. CASE Written(k)
  <2>1. PICK o \in Objects[k] \cup {Absent} : Write(k, o)
    BY <1>3 DEF Written
  <2>2. /\ hist'["peer"] = hist["peer"]
        /\ hist'["deployment"] = hist["deployment"]
    BY <1>1, <2>1, WriteFacts
  <2>3. owner'["deployment"] = owner["deployment"]
    BY <1>1, <1>3 DEF Written
  <2> QED
    BY <2>2, <2>3
<1> QED
  BY <1>2, <1>3 DEF Passed

\* Going past a child, as generations go.
LEMMA PassedFacts ==
    ASSUME Lag["peer"] = 0, Typed, ConvergenceInv,
           NEW k \in Children, Passed(k)
    PROVE  LET g == cw.obj.generation IN
           /\ cw.obj \in Visible /\ g \in Nat
           /\ \A j \in {"peer", "deployment"} :
                /\ applied[j] \in Nat /\ applied[j] <= g
                /\ applied'[j] = IF j = k THEN g ELSE applied[j]
           /\ k = "deployment" => applied["peer"] = g
<1>1. /\ cw.pc = k /\ cw.pc # "idle" /\ Passes
      /\ {"peer", "deployment"} \subseteq Exact \cap Children
  BY PassesChild DEF Passed, Exact, Compared, Children
<1>2. /\ cw.obj \in Visible /\ cw.obj.generation \in Nat
      /\ \A j \in Children : applied[j] \in Nat
      /\ applied \in [Children -> Nat]
  BY <1>1, VisibleFacts, GenerationTypes, TypeParts DEF Typed, RestOK
<1>3. /\ \A j \in Children : applied[j] <= cw.obj.generation
      /\ \A j \in Done[k] \cap Exact : applied[j] = cw.obj.generation
  BY <1>1 DEF ConvergenceInv, WorkerGeneration
<1>4. "peer" \in Done["deployment"]
  BY DEF Done
<1> QED
  BY <1>1, <1>2, <1>3, <1>4 DEF Passes, Marked, MarkApplied

LEMMA ConfigStep ==
    ASSUME Lag["peer"] = 0
    PROVE  Typed /\ ConvergenceInv /\ SpecInv /\ ConfigInv /\ [Next]_vars
             => ConfigInv'
<1> SUFFICES ASSUME Typed, ConvergenceInv, SpecInv, ConfigInv, [Next]_vars
             PROVE  ConfigInv'
  OBVIOUS
<1> DEFINE d  == Now("deployment")
           g  == applied["deployment"]
           h  == applied["peer"]
           e  == Actual(hist'["deployment"])
           p  == Actual(hist'["peer"])
           g2 == applied'["deployment"]
           h2 == applied'["peer"]
<1>0. /\ "peer" \in Children /\ "deployment" \in Children
      /\ g \in Nat /\ h \in Nat /\ revision \in Nat
      /\ g <= revision /\ h <= revision
      /\ owner["deployment"] \in Nat
  BY GenerationTypes, TypeParts
     DEF Typed, RestOK, Children, ConvergenceInv, Generations
<1>1. /\ owner["deployment"] <= g /\ g <= h
      /\ d # Absent => \A x \in Visible :
           x.generation = g => ConfigOf(d.template) = Config(x.spec)
      /\ \A x \in Visible : x.generation = h /\ ~x.spec.server =>
           Now("peer") \in {Absent, RenderPeerConfig(x.spec)}
      /\ d # Absent /\ g = h /\ ~d.template.server =>
           Now("peer") \in d.template.peerHash \cup {Absent}
  BY DEF ConfigInv
<1>2. \A x \in Visible' :
        \/ \E y \in Visible : y.spec = x.spec /\ y.generation = x.generation
        \/ x.generation = revision + 1
  BY VisibleStep DEF Alike
<1> DEFINE Goal ==
             /\ owner'["deployment"] <= g2 /\ g2 <= h2
             /\ e # Absent => \A x \in Visible' :
                  x.generation = g2 => ConfigOf(e.template) = Config(x.spec)
             /\ \A x \in Visible' : x.generation = h2 /\ ~x.spec.server =>
                  p \in {Absent, RenderPeerConfig(x.spec)}
             /\ e # Absent /\ g2 = h2 /\ ~e.template.server =>
                  p \in e.template.peerHash \cup {Absent}
<1>3. SUFFICES Goal
  <2>1. Now("deployment")' = e /\ Now("peer")' = p
    BY DEF Now
  <2> HIDE DEF e, p
  <2> QED
    BY <2>1 DEF ConfigInv
<1>4. revision + 1 # g /\ revision + 1 # h
  BY <1>0
<1>5. ASSUME UNCHANGED <<owner, applied>>, p \in {Now("peer"), Absent},
             e # Absent => d # Absent /\ e.template = d.template
      PROVE  Goal
  <2>1. g2 = g /\ h2 = h /\ owner'["deployment"] = owner["deployment"]
    BY <1>5
  <2> HIDE DEF d, g, h, e, p, g2, h2
  <2>2. e # Absent => \A x \in Visible' :
          x.generation = g2 => ConfigOf(e.template) = Config(x.spec)
    BY <1>1, <1>2, <1>4, <1>5, <2>1
  <2>3. \A x \in Visible' : x.generation = h2 /\ ~x.spec.server =>
          p \in {Absent, RenderPeerConfig(x.spec)}
    BY <1>1, <1>2, <1>4, <1>5, <2>1
  <2> QED
    BY <1>1, <1>5, <2>1, <2>2, <2>3
<1>6. CASE Untouched
  BY <1>5, <1>6 DEF Untouched, SameTemplate
<1>7. CASE DeploymentLost
  BY <1>5, <1>7 DEF DeploymentLost, Now
<1>8. CASE Started
  BY <1>5, <1>8 DEF Started, SameTemplate, Now
<1> DEFINE c == cw.obj
           n == cw.obj.generation
<1>9. ASSUME NEW k \in Children, Passed(k)
      PROVE  /\ c \in Visible /\ n \in Nat /\ g <= n /\ h <= n /\ n <= revision
             /\ g2 = (IF k = "deployment" THEN n ELSE g)
             /\ h2 = (IF k = "peer" THEN n ELSE h)
             /\ k = "deployment" => h = n
             /\ c.uid \in Nat /\ c.uid <= n
  <2>1. c \in ClusterObject /\ c.uid \in Nat /\ c.uid <= n
    BY <1>9, PassedFacts, VisibleFacts, SpecFacts DEF SpecInv
  <2>2. n <= revision
    BY <1>9 DEF ConvergenceInv, WorkerGeneration, Passed, Children
  <2> QED
    BY <1>0, <1>9, <2>1, <2>2, PassedFacts
<1>10. ASSUME c \in Visible, n \in Nat, n <= revision,
              NEW x \in Visible', x.generation = n
       PROVE  x.spec = c.spec
  BY <1>0, <1>2, <1>10 DEF SpecInv
<1>11. CASE Passed("peer")
  <2>1. /\ ~c.spec.server => p = RenderPeerConfig(c.spec)
        /\ e = d /\ owner'["deployment"] = owner["deployment"]
    BY <1>11, PeerPassed DEF Now
  <2>2. /\ c \in Visible /\ n \in Nat /\ g <= n /\ n <= revision
        /\ g2 = g /\ h2 = n
    BY <1>0, <1>9, <1>11
  <2>3. ConfigOf(d.template) = Config(c.spec) /\ ~d.template.server
          => ~c.spec.server /\ d.template.peerHash = {RenderPeerConfig(c.spec)}
    BY DEF ConfigOf, Config
  <2>4. \A x \in Visible' : x.generation = n => x.spec = c.spec
    BY <1>10, <2>2
  <2> HIDE DEF d, g, h, e, p, g2, h2, c, n
  <2>5. e # Absent => \A x \in Visible' :
          x.generation = g2 => ConfigOf(e.template) = Config(x.spec)
    BY <1>1, <1>2, <1>4, <2>1, <2>2
  <2>6. \A x \in Visible' : x.generation = h2 /\ ~x.spec.server =>
          p \in {Absent, RenderPeerConfig(x.spec)}
    BY <2>1, <2>2, <2>4
  <2>7. e # Absent /\ g2 = h2 /\ ~e.template.server =>
          p \in e.template.peerHash \cup {Absent}
    <3>1. c.generation = n
      BY DEF c, n
    <3> QED
      BY <1>1, <2>1, <2>2, <2>3, <3>1
  <2> QED
    BY <1>1, <2>1, <2>2, <2>5, <2>6, <2>7
<1>12. CASE Passed("deployment")
  <2>1. /\ e # Absent /\ ConfigOf(e.template) = Config(c.spec)
        /\ p = Now("peer")
        /\ \/ owner'["deployment"] = owner["deployment"]
           \/ owner'["deployment"] = c.uid
    BY <1>12, DeploymentPassed DEF Now
  <2>2. /\ c \in Visible /\ n \in Nat /\ g <= n /\ h = n /\ n <= revision
        /\ g2 = n /\ h2 = n /\ c.uid \in Nat /\ c.uid <= n
    BY <1>0, <1>9, <1>12
  <2>3. ~e.template.server
          => ~c.spec.server /\ e.template.peerHash = {RenderPeerConfig(c.spec)}
    BY <2>1 DEF ConfigOf, Config
  <2>4. \A x \in Visible' : x.generation = n => x.spec = c.spec
    BY <1>10, <2>2
  <2>5. owner'["deployment"] <= n
    BY <1>0, <1>1, <2>1, <2>2
  <2>6. ~c.spec.server => p \in {Absent, RenderPeerConfig(c.spec)}
    BY <1>1, <2>1, <2>2
  <2> HIDE DEF d, g, h, e, p, g2, h2, c, n
  <2>7. n <= n
    BY <2>2
  <2> QED
    BY <2>1, <2>2, <2>3, <2>4, <2>5, <2>6, <2>7
<1>13. ASSUME NEW k \in Children \ {"peer", "deployment"}, Passed(k)
       PROVE  Goal
  <2>1. e = d /\ p = Now("peer") /\ owner'["deployment"] = owner["deployment"]
    BY <1>13, OtherPassed DEF Now
  <2>2. g2 = g /\ h2 = h
    BY <1>9, <1>13
  <2> HIDE DEF d, g, h, e, p, g2, h2
  <2>3. e # Absent => \A x \in Visible' :
          x.generation = g2 => ConfigOf(e.template) = Config(x.spec)
    BY <1>1, <1>2, <1>4, <2>1, <2>2
  <2>4. \A x \in Visible' : x.generation = h2 /\ ~x.spec.server =>
          p \in {Absent, RenderPeerConfig(x.spec)}
    BY <1>1, <1>2, <1>4, <2>1, <2>2
  <2> QED
    BY <1>1, <2>1, <2>2, <2>3, <2>4
<1> QED
  BY <1>6, <1>7, <1>8, <1>11, <1>12, <1>13, WorkloadMoves

(***************************************************************************)
(* The pods.  As long as a cluster that owns its Deployment has been       *)
(* edited at most once, pods whose template has the server configuration   *)
(* that the spec asks for run with it; before the first edit, all have.    *)
(***************************************************************************)
BootInv ==
    LET o   == Now("cluster")
        dep == Now("deployment")
    IN  /\ dep = Absent => pods.runs = {}
        /\ pods.runs # {} => pods.booted # {}
        /\ o # Absent /\ dep # Absent /\ owner["deployment"] = o.uid
             /\ o.generation <= o.uid + 1 =>
             \A t \in pods.runs :
               /\ o.generation = o.uid => ConfigOf(t) = Config(o.spec)
               /\ ConfigOf(t) = Config(o.spec) => pods.booted \subseteq {Own(o.spec)}

LEMMA BootInit == Init => BootInv
<1> SUFFICES ASSUME Init PROVE BootInv
  OBVIOUS
<1>1. hist["cluster"] = <<Absent>>
  BY KindFacts DEF Init, Children
<1>2. Now("cluster") = Absent /\ pods.runs = {}
  BY <1>1, Single DEF Now, Init, NoPods
<1> QED
  BY <1>2 DEF BootInv

\* What pods that start now read.
LEMMA BootFacts ==
    ASSUME Typed, ConvergenceInv, SpecInv, ConfigInv,
           Now("cluster") # Absent, Now("deployment") # Absent,
           owner["deployment"] = Now("cluster").uid,
           Now("cluster").generation <= Now("cluster").uid + 1
    PROVE  LET o == Now("cluster")
               t == Now("deployment").template
           IN  /\ o.generation = o.uid => ConfigOf(t) = Config(o.spec)
               /\ ConfigOf(t) = Config(o.spec)
                    => ServerConfig \subseteq {Own(o.spec)}
<1> DEFINE o == Now("cluster")
           t == Now("deployment").template
           g == applied["deployment"]
           h == applied["peer"]
           p == Now("peer")
<1>1. /\ o \in Visible /\ o.generation \in Nat /\ o.uid \in Nat
      /\ o.spec.server \in BOOLEAN
  BY VisibleFacts, SpecFacts
<1>2. g \in Nat /\ h \in Nat /\ g <= o.generation /\ h <= o.generation
  BY <1>1, GenerationTypes
     DEF ConvergenceInv, Generations, Children, Visible
<1>3. /\ o.uid <= g /\ g <= h
      /\ g = o.generation => ConfigOf(t) = Config(o.spec)
      /\ h = o.generation /\ ~o.spec.server =>
           p \in {Absent, RenderPeerConfig(o.spec)}
      /\ g = h /\ ~t.server => p \in t.peerHash \cup {Absent}
  BY <1>1 DEF ConfigInv
<1>4. o.generation = o.uid => ConfigOf(t) = Config(o.spec)
  BY <1>1, <1>2, <1>3
<1>5. h = o.generation \/ g = h
  BY <1>1, <1>2, <1>3
<1>6. ConfigOf(t) = Config(o.spec)
        => /\ t.server = o.spec.server
           /\ ~o.spec.server => t.peerHash = {RenderPeerConfig(o.spec)}
  BY DEF ConfigOf, Config
<1>7. ServerConfig = IF t.server THEN {"user"} ELSE {p} \ {Absent}
  BY DEF ServerConfig
<1> HIDE DEF o, t, g, h, p
<1>8. ConfigOf(t) = Config(o.spec) => ServerConfig \subseteq {Own(o.spec)}
  BY <1>1, <1>3, <1>5, <1>6, <1>7 DEF Own
<1> QED
  BY <1>4, <1>8 DEF o, t

\* What becomes of the cluster: nothing but its status, or a new spec.
LEMMA NowStep ==
    ASSUME Typed, ConvergenceInv, [Next]_vars
    PROVE  LET old == Now("cluster")
               new == Actual(hist'["cluster"])
           IN  \/ new = Absent
               \/ old # Absent /\ Alike(new, old)
               \/ /\ new \in ClusterObject /\ new.generation = revision + 1
                  /\ \/ new.uid = revision + 1
                     \/ old # Absent /\ new.uid = old.uid
<1>1. HistoriesOK /\ "cluster" \in Kinds /\ Objects["cluster"] = ClusterObject
  BY TypeParts, KindFacts DEF Typed
<1>2. CASE Nothing
  BY <1>2 DEF Nothing, Alike
<1>3. CASE Reconcile \/ Progress
  BY <1>3 DEF Reconcile, Progress, Now, Alike
<1>4. CASE Respecify
  <2>1. PICK o \in ClusterObject \cup {Absent} : OtherWrite("cluster", o)
    BY <1>4 DEF Respecify
  <2>2. Write("cluster", o) /\ UserSpec(o)
    BY <2>1 DEF OtherWrite
  <2>3. Actual(hist'["cluster"]) = o
    BY <1>1, <2>2, WriteFacts
  <2> QED
    BY <2>2, <2>3 DEF UserSpec
<1>5. CASE Reporting
  <2> DEFINE o == [cw.obj EXCEPT !.status =
                     {StatusOf(Read("deployment"), cw.obj)}]
  <2>1. /\ cw.pc = "status" /\ Write("cluster", o) /\ cw.obj \in ClusterObject
        /\ Now("cluster") = cw.obj /\ cw.obj # Absent
    BY <1>5, GenerationTypes DEF Reporting
  <2>2. o \in ClusterObject /\ Alike(o, cw.obj)
    <3>1. Read("deployment") \in Deployment
      BY <1>5, TypeParts, ReadFacts, KindFacts DEF Reporting, Typed, Children
    <3> QED
      BY <2>1, <3>1, StatusFacts DEF ClusterObject, Alike
  <2> HIDE DEF o
  <2>3. Actual(hist'["cluster"]) = o
    BY <1>1, <2>1, <2>2, WriteFacts
  <2> QED
    BY <2>1, <2>2, <2>3
<1> QED
  BY <1>2, <1>3, <1>4, <1>5, Moves

LEMMA BootStep ==
    ASSUME Lag["peer"] = 0
    PROVE  Typed /\ ConvergenceInv /\ SpecInv /\ ConfigInv /\ BootInv
             /\ [Next]_vars
             => BootInv'
<1> SUFFICES ASSUME Typed, ConvergenceInv, SpecInv, ConfigInv, BootInv,
                    [Next]_vars
             PROVE  BootInv'
  OBVIOUS
<1> DEFINE o == Now("cluster")
           d == Now("deployment")
           u == owner["deployment"]
           n == Actual(hist'["cluster"])
           e == Actual(hist'["deployment"])
           v == owner'["deployment"]
           Right(c, runs, booted) ==
             \A t \in runs :
               /\ c.generation = c.uid => ConfigOf(t) = Config(c.spec)
               /\ ConfigOf(t) = Config(c.spec) => booted \subseteq {Own(c.spec)}
           Goal == /\ e = Absent => pods'.runs = {}
                   /\ pods'.runs # {} => pods'.booted # {}
                   /\ n # Absent /\ e # Absent /\ v = n.uid
                        /\ n.generation <= n.uid + 1
                        => Right(n, pods'.runs, pods'.booted)
<1>0. SUFFICES Goal
  <2>1. Now("deployment")' = e /\ Now("cluster")' = n
    BY DEF Now
  <2> HIDE DEF e, n
  <2> QED
    BY <2>1 DEF BootInv
<1>1. /\ d = Absent => pods.runs = {}
      /\ pods.runs # {} => pods.booted # {}
      /\ o # Absent /\ d # Absent /\ u = o.uid /\ o.generation <= o.uid + 1
           => Right(o, pods.runs, pods.booted)
  BY DEF BootInv
<1>2. /\ revision \in Nat /\ u \in Nat /\ u <= revision
      /\ o # Absent => /\ o.generation \in Nat /\ o.uid \in Nat
                       /\ o.uid <= o.generation /\ o.generation <= revision
                       /\ o.spec.server \in BOOLEAN
  <2>1. /\ applied["deployment"] \in Nat /\ applied["deployment"] <= revision
        /\ revision \in Nat /\ u \in Nat /\ u <= applied["deployment"]
    BY GenerationTypes, TypeParts
       DEF Typed, RestOK, Children, ConvergenceInv, Generations, ConfigInv
  <2>2. o # Absent => /\ o \in Visible /\ o \in ClusterObject
                      /\ o.generation <= revision
    BY VisibleFacts, GenerationTypes DEF ConvergenceInv, Generations
  <2>3. u <= revision
    BY <2>1
  <2> QED
    BY <2>1, <2>2, <2>3, SpecFacts DEF SpecInv
<1>3. \* nothing about pods and Deployment
      ASSUME v = u, pods'.runs = pods.runs, pods'.booted = pods.booted,
             (d = Absent) <=> (e = Absent)
      PROVE  Goal
  <2>1. \/ n = Absent
        \/ o # Absent /\ Alike(n, o)
        \/ /\ n \in ClusterObject /\ n.generation = revision + 1
           /\ \/ n.uid = revision + 1
              \/ o # Absent /\ n.uid = o.uid
    BY NowStep
  <2> SUFFICES ASSUME n # Absent, e # Absent, v = n.uid,
                      n.generation <= n.uid + 1
               PROVE  Right(n, pods.runs, pods.booted)
    BY <1>1, <1>3
  <2>2. CASE o # Absent /\ Alike(n, o)
    BY <1>1, <1>3, <2>2 DEF Alike
  <2>3. CASE /\ n \in ClusterObject /\ n.generation = revision + 1
             /\ o # Absent /\ n.uid = o.uid
    <3>1. o.generation = o.uid /\ n.generation # n.uid
      BY <1>2, <2>3
    <3>2. \A t \in pods.runs : /\ ConfigOf(t) = Config(o.spec)
                               /\ pods.booted \subseteq {Own(o.spec)}
      <4>1. o.generation <= o.uid + 1
        <5>1. \A i, j \in Nat : i = j => i <= j + 1
          OBVIOUS
        <5> QED
          BY <1>2, <2>3, <3>1, <5>1
      <4> QED
        BY <1>1, <1>3, <2>3, <3>1, <4>1
    <3>3. n.spec.server \in BOOLEAN
      BY <2>3, SpecFacts
    <3>4. Config(o.spec) = Config(n.spec) => Own(o.spec) = Own(n.spec)
      BY <1>2, <2>3, <3>3, ConfigFacts
    <3> HIDE DEF n, o
    <3> QED
      BY <3>1, <3>2, <3>4
  <2>4. CASE n.generation = revision + 1 /\ n.uid = revision + 1
    <3>1. \A i \in Nat : i <= revision => i # revision + 1
      BY <1>2
    <3>2. u \in Nat /\ u <= revision /\ u = revision + 1
      BY <1>2, <1>3, <2>4
    <3> QED
      BY <3>1, <3>2
  <2> QED
    BY <2>1, <2>2, <2>3, <2>4
<1>4. CASE Untouched
  <2>1. v = u
    BY <1>4 DEF Untouched
  <2> QED
    BY <1>3, <1>4, <2>1 DEF Untouched, SameTemplate
<1>5. CASE DeploymentLost
  BY <1>5 DEF DeploymentLost, NoPods
<1>6. CASE Started
  <2>1. /\ n = o /\ v = u /\ d # Absent /\ e # Absent
    BY <1>6 DEF Started, PodsUp, SameTemplate, Now
  <2> DEFINE b == IF d.template \notin pods.runs THEN ServerConfig
                  ELSE IF pods.number < d.replicas
                  THEN pods.booted \cup ServerConfig
                  ELSE pods.booted
  <2>2. /\ pods'.runs = {d.template} /\ pods'.booted = b
        /\ ServerConfig # {}
    BY <1>6 DEF Started, PodsUp
  <2>3. b # {}
    BY <1>1, <2>2
  <2>4. ASSUME o # Absent, u = o.uid, o.generation <= o.uid + 1
        PROVE  Right(o, {d.template}, b)
    <3>1. /\ o.generation = o.uid => ConfigOf(d.template) = Config(o.spec)
          /\ ConfigOf(d.template) = Config(o.spec)
               => ServerConfig \subseteq {Own(o.spec)}
      BY <2>1, <2>4, BootFacts
    <3>2. Right(o, pods.runs, pods.booted)
      BY <1>1, <2>1, <2>4
    <3>3. /\ d.template \in pods.runs /\ ConfigOf(d.template) = Config(o.spec)
               => pods.booted \subseteq {Own(o.spec)}
      BY <3>2
    <3> HIDE DEF o, d
    <3> QED
      BY <3>1, <3>3
  <2> QED
    BY <2>1, <2>2, <2>3, <2>4
<1>7. ASSUME NEW k \in Children, Passed(k)
      PROVE  n = o /\ UNCHANGED pods
  BY <1>7 DEF Passed, Now
<1>8. ASSUME NEW k \in Children \ {"deployment"}, Passed(k)
      PROVE  Goal
  <2>1. e = d /\ v = u
    BY <1>8, PeerPassed, OtherPassed DEF Now
  <2> QED
    BY <1>3, <1>7, <1>8, <2>1
<1>9. CASE Passed("deployment")
  <2>1. n = o /\ UNCHANGED pods
    BY <1>7, <1>9 DEF Children
  <2>2. e # Absent /\ (v = u \/ d = Absent)
    BY <1>9, DeploymentPassed
  <2> HIDE DEF e, n, o, d, v, u
  <2>3. CASE d = Absent
    BY <1>1, <2>1, <2>2, <2>3
  <2>4. CASE d # Absent
    BY <1>1, <2>1, <2>2, <2>4
  <2> QED
    BY <2>3, <2>4
<1> QED
  BY <1>4, <1>5, <1>6, <1>8, <1>9, WorkloadMoves

\* Every instance in which the informer of ConfigMaps is up to date: when
\* nothing is left to do, all pods run with the server configuration that is
\* mounted, as long as the spec has not been edited twice; so the hash in the
\* template does what it is for, whichever calls failed in between and whatever
\* an earlier cluster of the same name has left.
THEOREM PodsReadTheirConfig ==
    ASSUME Lag["peer"] = 0
    PROVE  Spec => []SettledServerConfig
<1>1. Spec => []ConfigInv
  BY ConfigInit, ConfigStep, TypedAlways, ConvergenceAlways, SpecAlways, PTL
     DEF Spec
<1>2. Spec => []BootInv
  BY <1>1, BootInit, BootStep, TypedAlways, ConvergenceAlways, SpecAlways, PTL
     DEF Spec
<1>3. ASSUME Typed, SettlingInv, BootInv PROVE SettledServerConfig
  <2> SUFFICES ASSUME Settled, Now("cluster") # Absent,
                      Now("cluster").generation <= Now("cluster").uid + 1
               PROVE  pods.booted = ServerConfig
    BY DEF SettledServerConfig, Settles
  <2> DEFINE o    == Now("cluster")
             dep  == Now("deployment")
             spec == o.spec
  <2>1. /\ o \in ClusterObject
        /\ \A k \in Children : Wanted(k, Now(k), spec, unseen, Now("class"))
    BY <1>3, AtRest
  <2>2. PICK image \in Images : Fits("deployment", dep, spec, image)
    BY <2>1 DEF Wanted, Children
  <2>3. PICK image2 \in Images : Fits("peer", Now("peer"), spec, image2)
    BY <2>1 DEF Wanted, Children
  <2>4. /\ dep # Absent /\ dep.template = TemplateOf(spec, image)
        /\ ~spec.server => Now("peer") = RenderPeerConfig(spec)
    BY <2>2, <2>3 DEF Fits
  <2>5. owner["deployment"] = o.uid /\ pods.runs = {dep.template}
    BY <2>4 DEF Settled, PodsMatch, OwnerGone, Children
  <2>6. pods.booted # {} /\ pods.booted \subseteq {Own(spec)}
    <3>1. ConfigOf(dep.template) = Config(spec) /\ dep.template \in pods.runs
      BY <2>4, <2>5, ConfigFacts
    <3> QED
      BY <1>3, <2>4, <2>5, <3>1 DEF BootInv
  <2>7. dep.template.server = spec.server
    BY <2>4 DEF TemplateOf
  <2>8. ServerConfig = {Own(spec)}
    <3>1. RenderPeerConfig(spec) # Absent
      <4>1. RenderPeerConfig(spec) \in PeerConfigs /\ "peer" \in Kinds
        BY <2>1, <2>2, TemplateType, KindFacts DEF Children
      <4> QED
        BY <4>1, KindFacts, Presence
    <3>2. ServerConfig = IF spec.server THEN {"user"}
                         ELSE {Now("peer")} \ {Absent}
      BY <2>7 DEF ServerConfig
    <3> HIDE DEF spec
    <3> QED
      BY <2>4, <3>1, <3>2 DEF Own
  <2> QED
    BY <2>6, <2>8
<1> QED
  BY <1>2, <1>3, TypedAlways, SettlingAlways, PTL

=============================================================================
