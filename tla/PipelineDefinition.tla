------------------------- MODULE PipelineDefinition -------------------------
(***************************************************************************)
(* What a DataPrepperPipeline spec holds, which specs the webhook lets     *)
(* through, and how the reconciler merges the pipelines of a cluster into  *)
(* the text of one ConfigMap.                                              *)
(*                                                                         *)
(* A rendered text is modelled by the set of its entries, one per          *)
(* top-level YAML key.  yaml.Marshal sorts the keys of a map, so the text  *)
(* is a function of this set, and two sets render to two texts.            *)
(***************************************************************************)
EXTENDS Naturals, FiniteSets

CONSTANTS Pipelines,   \* names of DataPrepperPipeline objects
          Clusters,    \* names of DataPrepperCluster objects
          Keys,        \* values of spec.yamlKey
          BlankKeys,   \* the ones that are only white space
          Defs,        \* values of spec.pipeline
          Absent       \* "no such object"

(***************************************************************************)
(* A definition is raw JSON, modelled by the facts the code looks at: is   *)
(* it a JSON object (null counts as an object without fields), and which   *)
(* fields does it have.  "body" tells apart definitions alike in that.     *)
(***************************************************************************)
ASSUME DefinitionAssumption ==
    /\ BlankKeys \subseteq Keys
    /\ \A d \in Defs : d.isObject \in BOOLEAN
    /\ IsFiniteSet(Pipelines)
    /\ Absent \notin Pipelines

Entries == [key : Keys, def : Defs]

\* Texts of pipelines.yaml.
Contents == SUBSET Entries

\* defaultPipelineYaml, the text without any DataPrepperPipeline.
PlaceholderContent == {}

\* The annotation dataprepper.gabia.com/pipelines-hash: not there, or the hash
\* of a text.  The hash is modelled as injective.
NoHash == {}
Hash(content) == {content}

(***************************************************************************)
(* The object.                                                             *)
(***************************************************************************)
PipelineObject ==
    [cluster    : Clusters,                    \* spec.clusterRef
     key        : Keys,                        \* spec.yamlKey
     def        : Defs,                        \* spec.pipeline
     generation : Nat,                         \* metadata.generation
     deleting   : BOOLEAN,                     \* metadata.deletionTimestamp
     finalizer  : BOOLEAN,                     \* pipelineFinalizer is there
     phase      : {"", "Pending", "Applied"},  \* status.phase
     observed   : Nat]                         \* status.observedGeneration

PipelineStore == [Pipelines -> PipelineObject \cup {Absent}]

(***************************************************************************)
(* The validating webhook.                                                 *)
(***************************************************************************)
\* validatePipelineDefinition: a key, and an object with source and sink.
ValidatePipelineDefinition(o) ==
    /\ o.key \notin BlankKeys
    /\ o.def.isObject
    /\ o.def.fields # {}
    /\ {"source", "sink"} \subseteq o.def.fields

\* DataPrepperPipelineCustomValidator.validate: "listed" is what the webhook's
\* client lists.  Pipelines that are being deleted still own their key.
Validate(listed, p, o) ==
    /\ ValidatePipelineDefinition(o)
    /\ \A q \in Pipelines \ {p} :
         listed[q] # Absent =>
           ~(listed[q].cluster = o.cluster /\ listed[q].key = o.key)

(***************************************************************************)
(* rebuildClusterConfig, the part that computes.                           *)
(***************************************************************************)
\* The pipelines that the loop does not skip.
Targets(listed, c, exclude) ==
    {p \in Pipelines \ {exclude} : /\ listed[p] # Absent
                                   /\ listed[p].cluster = c
                                   /\ ~listed[p].deleting}

\* The loop returns an error: a blank or duplicate key, or a definition that
\* is not an object or is empty.  One bad pipeline fails the whole cluster.
RenderFails(listed, c, exclude) ==
    \E p \in Targets(listed, c, exclude) :
      \/ listed[p].key \in BlankKeys
      \/ ~listed[p].def.isObject
      \/ listed[p].def.fields = {}
      \/ \E q \in Targets(listed, c, exclude) \ {p} :
           listed[q].key = listed[p].key

EntryOf(o) == [key |-> o.key, def |-> o.def]

\* The text to publish; without targets it is the placeholder.
Render(listed, c, exclude) ==
    {EntryOf(listed[p]) : p \in Targets(listed, c, exclude)}

=============================================================================
