--------------------------- MODULE PipelineEditor ---------------------------
(***************************************************************************)
(* The kaiad.yaml of the services of one repository and branch as the      *)
(* panel keeps it: an override for the repository, one for a service, and  *)
(* the editor of the service page, which loads, edits, saves and clears    *)
(* them and queues builds of the services a save affects.                  *)
(***************************************************************************)
EXTENDS Pipelines, Naturals, Sequences

CONSTANTS
  Service,      \* monitored services of the repository
  PipelineName, \* pipeline_name of a service
  Editor,       \* open pages
  Typed,        \* texts a user may type
  Starter,      \* the text of an editor that finds nothing
  Added,        \* names addMulti gives: service-1, service-2, ...
  MaxEdits,     \* what users do in editors
  MaxBuilds     \* rows of service_builds

VARIABLES
  serviceOverride, \* monitored_services.pipeline_override
  repoOverride,    \* the row of repo_pipeline_overrides
  builds,          \* service_builds in the order of created_at
  editor,
  edits

overrides == <<serviceOverride, repoOverride>>
editorVars == <<overrides, builds, editor, edits>>

Closed ==
  [on |-> None, text |-> NoText, doc |-> NoText, tab |-> "form", scope |-> "repo", had |-> FALSE,
   pc |-> "idle", todo |-> {}, sure |-> TRUE]

\* No commit yet: the run takes the head.
AtHead == 0

\* A queued build; expects is the text its queueing promised it, if any.
NewBuild(s, sha, text) ==
  [service |-> s, sha |-> sha, status |-> "queued", pc |-> "queued", yaml |-> NoText,
   own |-> NoText, image |-> FALSE, on |-> {}, expects |-> text]

EditorInit ==
  /\ serviceOverride = [s \in Service |-> NoText] /\ repoOverride = NoText
  /\ builds = <<>> /\ edits = 0
  /\ editor = [e \in Editor |-> Closed]

Edit == edits < MaxEdits /\ edits' = edits + 1

Shows(e, tab) == editor[e].on # None /\ editor[e].pc = "idle" /\ editor[e].tab = tab

-----------------------------------------------------------------------------
(* GET pipeline-override                                                   *)

\* The pipeline_yaml of the newest build that has one.
LatestBuildPipelineYaml(s) ==
  LET rows == {i \in DOMAIN builds : builds[i].service = s /\ builds[i].yaml # NoText}
  IN IF rows = {} THEN NoText
     ELSE builds[CHOOSE i \in rows : \A j \in rows : j <= i].yaml

RepoYaml(s) ==
  IF serviceOverride[s] = NoText /\ repoOverride = NoText THEN LatestBuildPipelineYaml(s) ELSE NoText

Loaded(s) ==
  CASE serviceOverride[s] # NoText -> [text |-> serviceOverride[s], scope |-> "service"]
    [] serviceOverride[s] = NoText /\ repoOverride # NoText -> [text |-> repoOverride, scope |-> "repo"]
    [] OTHER -> [text |-> IF RepoYaml(s) # NoText THEN RepoYaml(s) ELSE Starter, scope |-> "repo"]

\* loadFormFromYaml: a text that is no YAML leaves the form as it was.
FormOf(text, doc) == IF text.form = "broken" THEN doc ELSE text

Mount(e, s) ==
  /\ Edit /\ editor[e].pc = "idle"
  /\ LET l == Loaded(s) IN
     editor' = [editor EXCEPT ![e] =
       [Closed EXCEPT !.on = s, !.text = l.text, !.doc = FormOf(l.text, NoText), !.scope = l.scope,
                      !.had = serviceOverride[s] # NoText \/ repoOverride # NoText]]
  /\ UNCHANGED <<overrides, builds>>

-----------------------------------------------------------------------------
(* The two tabs                                                            *)

Editing(e, tab) == Edit /\ Shows(e, tab) /\ UNCHANGED <<overrides, builds>>

TypeRaw(e, t) == Editing(e, "raw") /\ editor' = [editor EXCEPT ![e].text = t]

SelectTab(e, tab) ==
  /\ \E t \in {"raw", "form"} \ {tab} : Editing(e, t)
  /\ editor' = [editor EXCEPT ![e].tab = tab,
                              ![e].doc = IF tab = "form" THEN FormOf(editor[e].text, @) ELSE @]

\* syncYamlFromForm: the text is what the form holds.
Sync(e, doc) == editor' = [editor EXCEPT ![e].doc = doc, ![e].text = doc]

\* setImageMode: a Dockerfile replaces the build step.
SetImageMode(e, n, dockerfile) ==
  /\ Editing(e, "form")
  /\ n \in DOMAIN editor[e].doc.pipelines
  /\ Sync(e, [editor[e].doc EXCEPT !.pipelines[n].dockerfile = dockerfile,
                                   !.pipelines[n].build = @ /\ ~dockerfile])

\* addMulti: a single pipeline becomes the one of the service, a further one is
\* named after the number of entries, and takes the place of one with that name.
AddMulti(e) ==
  /\ Editing(e, "form")
  /\ LET doc == editor[e].doc
         name == Added[Cardinality(DOMAIN doc.pipelines) + 1]
     IN CASE doc.form = "multi" ->
               /\ Cardinality(DOMAIN doc.pipelines) < Len(Added)
               /\ Sync(e, Multi([n \in DOMAIN doc.pipelines \cup {name} |->
                                  IF n = name THEN [Defaults EXCEPT !.runtime = TRUE, !.ports = {80}]
                                  ELSE doc.pipelines[n]]))
          [] doc.form = "single" -> Sync(e, Multi([n \in {editor[e].on} |-> doc.pipelines[None]]))
          [] OTHER -> Sync(e, Multi([n \in {editor[e].on} |-> Defaults]))

RemoveService(e, n) ==
  /\ Editing(e, "form")
  /\ LET doc == editor[e].doc IN
     /\ doc.form = "multi" /\ n \in DOMAIN doc.pipelines
     /\ Sync(e, Multi([m \in DOMAIN doc.pipelines \ {n} |-> doc.pipelines[m]]))

SetScope(e, scope) ==
  /\ \E t \in {"raw", "form"} : Editing(e, t)
  /\ editor[e].scope # scope
  /\ editor' = [editor EXCEPT ![e].scope = scope]

-----------------------------------------------------------------------------
(* PUT and DELETE pipeline-override, POST builds                           *)

\* A write of an override takes the promise from what others saved before.
Disturb(e, ed) == [f \in Editor |-> [ed[f] EXCEPT !.sure = @ /\ f = e]]
Forget(rows) ==
  [i \in DOMAIN rows |-> IF rows[i].yaml = NoText THEN [rows[i] EXCEPT !.expects = NoText] ELSE rows[i]]

Write(e, scope, text) ==
  IF scope = "service"
  THEN serviceOverride' = [serviceOverride EXCEPT ![editor[e].on] = text] /\ UNCHANGED repoOverride
  ELSE repoOverride' = text /\ UNCHANGED serviceOverride

\* The page only asks whether the text parses, the route also whether it has the
\* pipeline of the service whose page it is: 422, nothing is stored.
Save(e, then) ==
  /\ Edit /\ \E t \in {"raw", "form"} : Shows(e, t)
  /\ Parses(editor[e].text)
  /\ IF Selects(editor[e].text, PipelineName[editor[e].on])
     THEN /\ Write(e, editor[e].scope, editor[e].text)
          /\ editor' = Disturb(e, [editor EXCEPT ![e].pc = then, ![e].sure = TRUE])
          /\ builds' = Forget(builds)
     ELSE UNCHANGED <<overrides, builds, editor>>

\* Mutant: whatever else counts for them.
AllServices(e) == IF editor[e].scope = "service" THEN {editor[e].on} ELSE Service
\* affectedServices: a service with an override of its own does not see the repository's.
AffectedServices(e) ==
  IF editor[e].scope = "service" THEN {editor[e].on}
  ELSE {s \in Service : serviceOverride[s] = NoText}

\* The second statement of the route; the page queues builds or says it is saved.
Answer(e) ==
  /\ editor[e].pc \in {"saved", "deploy"}
  /\ LET all == AffectedServices(e) IN
     editor' = [editor EXCEPT
       ![e].had = TRUE,
       ![e].todo = IF editor[e].pc = "saved" THEN {} ELSE IF all = {} THEN {editor[e].on} ELSE all,
       ![e].pc = IF editor[e].pc = "saved" THEN "idle" ELSE "queue",
       ![e].sure = @ /\ (all # {})]
  /\ UNCHANGED <<overrides, builds, edits>>

\* triggerServiceBuild of the services it names, in any order.
QueueBuild(e, s) ==
  /\ editor[e].pc = "queue" /\ s \in editor[e].todo
  /\ builds' = IF Len(builds) = MaxBuilds THEN builds
               ELSE Append(builds, NewBuild(s, AtHead, IF editor[e].sure THEN editor[e].text ELSE NoText))
  /\ editor' = [editor EXCEPT ![e].todo = @ \ {s},
                              ![e].pc = IF editor[e].todo = {s} THEN "idle" ELSE @]
  /\ UNCHANGED <<overrides, edits>>

\* clearOverride clears the chosen scope and believes nothing is left.
Clear(e) ==
  /\ Edit /\ \E t \in {"raw", "form"} : Shows(e, t)
  /\ editor[e].had
  /\ Write(e, editor[e].scope, NoText)
  /\ editor' = Disturb(e, [editor EXCEPT ![e].had = FALSE])
  /\ builds' = Forget(builds)

EditorSteps(e) ==
  \/ \E s \in Service : Mount(e, s) \/ QueueBuild(e, s)
  \/ \E t \in Typed : TypeRaw(e, t)
  \/ \E t \in {"raw", "form"} : SelectTab(e, t)
  \/ \E n \in {None} \cup Service \cup {Added[i] : i \in DOMAIN Added} :
       RemoveService(e, n) \/ \E d \in BOOLEAN : SetImageMode(e, n, d)
  \/ AddMulti(e)
  \/ \E sc \in {"repo", "service"} : SetScope(e, sc)
  \/ \E then \in {"saved", "deploy"} : Save(e, then)
  \/ Answer(e)
  \/ Clear(e)

EditorNext == \E e \in Editor : EditorSteps(e)
=============================================================================
