------------------------------ MODULE Pipelines ------------------------------
(***************************************************************************)
(* kaiad.yaml: which texts the parser accepts, the pipeline of the text a  *)
(* service takes, what an environment puts over it, and the variables it   *)
(* must find.  A text is its form and its pipelines by name; the pipeline  *)
(* of a single file has no name.                                           *)
(***************************************************************************)
EXTENDS FiniteSets

None == "none"
NoText == [form |-> "none", pipelines |-> [n \in {} |-> {}]]
Single(def) == [form |-> "single", pipelines |-> [n \in {None} |-> def]]
Multi(defs) == [form |-> "multi", pipelines |-> defs]
Broken == [form |-> "broken", pipelines |-> [n \in {} |-> {}]]

\* pipelineDefinitionSchema with every field left out.
Defaults ==
  [build |-> FALSE, dockerfile |-> FALSE, runtime |-> FALSE, artifacts |-> {}, copies |-> {},
   ports |-> {}, domains |-> {}, environments |-> [e \in {} |-> {}], kind |-> "deployable",
   dependsOn |-> {}, uses |-> {}]

-----------------------------------------------------------------------------
(* parsePipelineYaml                                                       *)

OneBuildStep(def) == ~(def.dockerfile /\ def.build)
CopiesCaptured(def) == def.runtime => def.copies \subseteq def.artifacts

EnvironmentDomains(def) == UNION {def.environments[e] : e \in DOMAIN def.environments}

\* The fields of one pipeline of a multi file: the domains of its environments
\* are not looked at.
InnerPipeline(def) ==
  /\ OneBuildStep(def) /\ CopiesCaptured(def)
  /\ def.domains \subseteq def.ports

PipelineDefinition(def) ==
  /\ InnerPipeline(def)
  /\ EnvironmentDomains(def) \subseteq def.ports

Parses(text) ==
  \/ text.form = "single" /\ PipelineDefinition(text.pipelines[None])
  \/ /\ text.form = "multi" /\ DOMAIN text.pipelines # {}
     /\ \A n \in DOMAIN text.pipelines : InnerPipeline(text.pipelines[n])

-----------------------------------------------------------------------------
(* selectPipeline, substitutePipeline, resolveEnvironment                  *)

\* A name needs a multi file that has it, a multi file needs a name.
Selects(text, name) == name \in DOMAIN text.pipelines
Buildable(text, name) == Parses(text) /\ Selects(text, name)
Picked(text, name) == text.pipelines[name]

\* The variables of a dependency exist when it is listed and resolved.
MissingVariables(def) == def.uses \ def.dependsOn

ResolveEnvironment(def, env) ==
  [domains |-> IF env \in DOMAIN def.environments /\ def.environments[env] # {}
               THEN def.environments[env] ELSE def.domains,
   ports |-> def.ports]
=============================================================================
