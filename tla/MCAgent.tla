------------------------------ MODULE MCAgent ------------------------------
(* Instances of BuildRun and of AgentCommands: where the images come from  *)
(* and how a command with one reaches its agent.  They share no state: a   *)
(* behaviour of the run is one of either, and the other one rests.         *)
EXTENDS AgentCommands, BuildRun, TLC

VARIABLE scope

-----------------------------------------------------------------------------
(* One repository with the services a and b, where b may be built on the   *)
(* image of a.                                                             *)

\* a is assembled from what its step built, b is a Dockerfile on top of it or alone.
Assembled == [Defaults EXCEPT !.build = TRUE, !.runtime = TRUE, !.artifacts = {"bin"}, !.copies = {"bin"}]
Alone == [Defaults EXCEPT !.dockerfile = TRUE]
OnTop == [Alone EXCEPT !.dependsOn = {"a"}, !.uses = {"a"}]

Both(other) == Multi("a" :> Assembled @@ "b" :> other)
Files == [c \in Commit |-> Both(OnTop)]
Names == [s \in Service |-> s]
TypedTexts == {Both(Alone), Single(Alone), Broken}
Start == Single([Defaults EXCEPT !.runtime = TRUE, !.ports = {80}])
More == <<"service-1", "service-2", "service-3">>

\* Builds, pushes and failures without the editor, or the editor without them: an
\* override of the repository or of b may be there.
BuildsStart ==
  \/ scope \in {"commands", "builds"} /\ BuildsInit /\ head = 1
  \/ /\ scope = "edits" /\ head = 1 /\ failures = MaxFailures
     /\ tags = [s \in Service |-> [t \in Commit \cup {Latest} |-> NoImage]]
     /\ dirs = {} /\ artifacts = {} /\ sent = {} /\ deployed = [s \in Service |-> 0]
     /\ serviceOverride \in {[s \in Service |-> NoText], ("a" :> NoText @@ "b" :> Both(Alone))}
     /\ repoOverride \in {NoText, Both(OnTop)}
     /\ builds = <<>> /\ edits = 0 /\ editor = [e \in Editor |-> Closed]

Builds ==
  \/ \E c \in Commit : Push(c)
  \/ \E s \in Service : \E sha \in {c \in Commit : c <= head} \cup {AtHead} : Queue(s, sha)
  \/ \E i \in DOMAIN builds : Run(i) \/ StepFails(i) \/ WorkerEnds(i) \/ Deploy(i)
  \/ Connect
  \/ \E m \in sent : Report(m)

Edits ==
  /\ \/ EditorNext /\ UNCHANGED <<head, tags, dirs, artifacts, sent, deployed, failures>>
     \/ \E i \in DOMAIN builds : Run(i)
  /\ Len(builds') <= 2

-----------------------------------------------------------------------------

MCInit == BuildsStart /\ Init

MCNext ==
  \/ scope = "commands" /\ Next /\ UNCHANGED <<buildsVars, scope>>
  \/ scope = "builds" /\ Builds /\ UNCHANGED <<vars, scope>>
  \/ scope = "edits" /\ Edits /\ UNCHANGED <<vars, scope>>

\* The commands are fair when they do not rest.
MCSpec ==
  /\ MCInit /\ [][MCNext]_<<vars, buildsVars, scope>>
  /\ scope = "commands" => Fairness
=============================================================================
