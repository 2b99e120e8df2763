------------------------ MODULE MCClusterReconciler -------------------------
(***************************************************************************)
(* Instances of ClusterReconciler for TLC.                                 *)
(***************************************************************************)
EXTENDS ClusterReconciler

CONSTANTS i1, i2, n1, n2   \* images and ports

\* A small cluster, and specs that differ from it in one or two respects.  The
\* webhook would refuse Scaled: more replicas than its autoscaler allows.
Plain   == [image |-> i1, class |-> FALSE, replicas |-> 1, autoscaling |-> {},
            server |-> FALSE, monitor |-> FALSE, ports |-> n1]
Pair    == [Plain EXCEPT !.replicas = 2]
Scaled  == [Plain EXCEPT !.replicas = 3,
                         !.autoscaling = {[min |-> 1, max |-> 2]}]
Elastic == [Pair EXCEPT !.autoscaling = {[min |-> 1, max |-> 2]}]
Served  == [Plain EXCEPT !.server = TRUE, !.ports = n2]
Classy  == [Plain EXCEPT !.image = NoImage, !.class = TRUE]
Full    == [Pair EXCEPT !.class = TRUE, !.monitor = TRUE]

ChildSpecs  == {Full, Served, Classy}
LoadSpecs   == {Plain, Scaled}
ServerSpecs == {Served, Pair}
ElasticSpec == {Elastic}
ClassySpec  == {Classy}

\* Orphans are collected in any order, or in this one.
AnyOrder == [k \in Children |-> 0]
InOrder  == [pipelines |-> 1, peer |-> 2, deployment |-> 3, service |-> 4,
             headless |-> 5, hpa |-> 6, monitor |-> 7]

\* Informers that are up to date, or some of them at most one version behind.
NoLag         == [k \in Kinds |-> 0]
LagOf(kinds)  == [k \in Kinds |-> IF k \in kinds THEN 1 ELSE 0]
ClassLag      == LagOf({"class"})
DeploymentLag == LagOf({"deployment"})
PeerLag       == LagOf({"peer"})

=============================================================================
