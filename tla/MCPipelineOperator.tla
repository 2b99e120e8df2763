------------------------- MODULE MCPipelineOperator -------------------------
(***************************************************************************)
(* Instances of PipelineOperator for TLC.                                  *)
(***************************************************************************)
EXTENDS PipelineOperator, TLC

\* Two definitions that the webhook accepts.
GoodDef(i) == [isObject |-> TRUE, fields |-> {"source", "sink"}, body |-> i]
OneDef  == {GoodDef(1)}
TwoDefs == {GoodDef(1), GoodDef(2)}

\* Definitions it rejects: no sink, no field at all, not an object.
BadDefs == {[isObject |-> TRUE,  fields |-> {"source"}, body |-> 1],
            [isObject |-> TRUE,  fields |-> {},         body |-> 1],
            [isObject |-> FALSE, fields |-> {},         body |-> 1]}
AnyDefs == OneDef \cup BadDefs

\* Somebody empties the ConfigMap by hand.
EmptyDrift == {PlaceholderContent}
NoDrift    == {}

\* Informers that are up to date, or at most one version behind.
NoLag         == [k \in Kinds |-> 0]
LagOf(kinds)  == [k \in Kinds |-> IF k \in kinds THEN 1 ELSE 0]
PipelineLag   == LagOf({"pipelines"})
ConfigMapLag  == LagOf({"configmaps"})
DeploymentLag == LagOf({"deployments"})
ChildLag      == LagOf({"configmaps", "deployments"})
QueueLag      == LagOf({"pipelines", "configmaps"})

\* Names are interchangeable, the keys as long as none of them is blank.  No
\* liveness property is checked with a symmetry.
PipelineSymmetry == Permutations(Pipelines)
Symmetry == Permutations(Pipelines) \cup Permutations(Keys)
              \cup Permutations(Clusters) \cup Permutations(Images)

=============================================================================
