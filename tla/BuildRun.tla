------------------------------ MODULE BuildRun ------------------------------
(***************************************************************************)
(* One build from the claim to its deployment: clone, the kaiad.yaml that  *)
(* counts, the images of its dependencies, the image built by docker or    *)
(* assembled by crane, its tags in the registry, its artifacts and         *)
(* workspace, and who sends the image to the agents.  That a service has   *)
(* one build in progress is BuildQueue's; the agents are Redeploy's.       *)
(***************************************************************************)
EXTENDS PipelineEditor

CONSTANTS
  Commit,    \* commits of the branch, in order
  File,      \* the text of the repository at a commit, NoText without one
  Bound,     \* services with an agent
  MaxFailures  \* failing calls and workers that end

ASSUME BuildRunAssumption ==
  /\ Commit \subseteq Nat \ {AtHead} /\ Bound \subseteq Service
  /\ \A c \in Commit : DOMAIN File[c].pipelines \subseteq {None} \cup Service

\* The tag latest, beside those named after commits.
Latest == 0
NoImage == [sha |-> AtHead, by |-> 0, done |-> FALSE, on |-> {}]

VARIABLES
  head,      \* the commit of the branch
  tags,      \* the registry: what the tags of a service's repository hold
  dirs,      \* KAIAD_DATA_DIR/builds: the directories of these builds
  artifacts, \* build_artifacts: builds with recorded files
  sent,      \* redeploy commands: the build and who sent it
  deployed,  \* the build an agent reported for a service, 0 without a row
  failures

outside == <<serviceOverride, repoOverride, editor, edits, head>>
buildsVars == <<editorVars, head, tags, dirs, artifacts, sent, deployed, failures>>

Row(s) == {i \in DOMAIN builds : builds[i].service = s}
Succeeded(s) == {i \in Row(s) : builds[i].status = "success"}
WithImage(s) == {i \in Succeeded(s) : builds[i].image}
Newest(S) == CHOOSE i \in S : \A j \in S : j <= i
Pipeline(i) == Picked(builds[i].yaml, PipelineName[builds[i].service])

BuildsInit ==
  /\ EditorInit
  /\ head \in Commit
  /\ tags = [s \in Service |-> [t \in Commit \cup {Latest} |-> NoImage]]
  /\ dirs = {} /\ artifacts = {} /\ sent = {}
  /\ deployed = [s \in Service |-> 0] /\ failures = 0

-----------------------------------------------------------------------------
(* The queue and the branch, as far as a run sees them                     *)

Push(c) ==
  /\ c > head /\ head' = c
  /\ UNCHANGED <<editorVars, tags, dirs, artifacts, sent, deployed, failures>>

\* A build of a commit (poll, trigger, retry), or of the head by hand.
Queue(s, sha) ==
  /\ Len(builds) < MaxBuilds
  /\ builds' = Append(builds, NewBuild(s, sha, NoText))
  /\ UNCHANGED <<outside, tags, dirs, artifacts, sent, deployed, failures>>

\* getServiceForBuild reads the service's own override once, at the start.
Claim(i) ==
  LET s == builds[i].service IN
  /\ builds[i].status = "queued"
  /\ \A j \in Row(s) : builds[j].status # "running" /\ (builds[j].status = "queued" => i <= j)
  /\ builds' = [builds EXCEPT ![i].status = "running", ![i].pc = "start", ![i].own = serviceOverride[s]]
  /\ UNCHANGED <<outside, tags, dirs, artifacts, sent, deployed, failures>>

-----------------------------------------------------------------------------
(* Steps of a run                                                          *)

At(i, pc) == builds[i].status = "running" /\ builds[i].pc = pc
To(i, pc) == builds' = [builds EXCEPT ![i].pc = pc]

\* The end of a run without success: the row, then the directory in finally.
EndsAs(i, status) ==
  /\ builds' = [builds EXCEPT ![i].status = status, ![i].pc = "ended"]
  /\ dirs' = dirs \ {i}
Fails(i) == EndsAs(i, "failed")

Rest == UNCHANGED <<tags, artifacts, sent, deployed, failures>>

\* A manual build takes the head; then its directories are made.
ResolveHead(i) ==
  /\ At(i, "start")
  /\ builds' = [builds EXCEPT ![i].pc = "clone", ![i].sha = IF @ = AtHead THEN head ELSE @]
  /\ dirs' = dirs \cup {i}
  /\ UNCHANGED outside /\ Rest

CloneAtSha(i) == At(i, "clone") /\ To(i, "yaml") /\ UNCHANGED <<outside, dirs>> /\ Rest

\* The service's override as it was at the start, else the repository's as it is
\* now, else the file of the commit.
ChosenYaml(i) ==
  CASE builds[i].own # NoText -> builds[i].own
    [] builds[i].own = NoText /\ repoOverride # NoText -> repoOverride
    [] OTHER -> File[builds[i].sha]

\* Stores the text before it is parsed.
ReadPipeline(i) ==
  /\ At(i, "yaml")
  /\ IF ChosenYaml(i) = NoText THEN EndsAs(i, "no_pipeline")
     ELSE /\ builds' = [builds EXCEPT ![i].yaml = ChosenYaml(i), ![i].pc = "parse"]
          /\ UNCHANGED dirs
  /\ UNCHANGED outside /\ Rest

SelectPipeline(i) ==
  /\ At(i, "parse")
  /\ IF Buildable(builds[i].yaml, PipelineName[builds[i].service])
     THEN To(i, "deps") /\ UNCHANGED dirs
     ELSE Fails(i)
  /\ UNCHANGED outside /\ Rest

\* Dependencies of the repository count with a build of the same commit: the
\* build is blocked without one, and a variable of it exists with its image.
BuiltAt(d, sha) == {j \in Succeeded(d) : builds[j].sha = sha}
Resolves(i) ==
  LET def == Pipeline(i) IN
  /\ \A d \in def.dependsOn : d \in Service => BuiltAt(d, builds[i].sha) # {}
  /\ MissingVariables(def) = {}
  /\ \A d \in def.uses : BuiltAt(d, builds[i].sha) \cap WithImage(d) # {}
\* Mutant: the image that was tagged last.
LatestRef(i, d) == <<d, Latest>>
ImageRef(i, d) == <<d, builds[i].sha>>

ResolveDependencies(i) ==
  /\ At(i, "deps")
  /\ IF Resolves(i)
     THEN To(i, IF Pipeline(i).dockerfile THEN "docker" ELSE "container") /\ UNCHANGED dirs
     ELSE Fails(i)
  /\ UNCHANGED outside /\ Rest

\* The images read as base, as the tags hold them now.
Bases(i) == {tags[d][ImageRef(i, d)[2]] : d \in Pipeline(i).uses}
ReadBases(i) == {[sha |-> b.sha, done |-> b.done] : b \in Bases(i)}

\* docker build, then docker save.
BuildViaDockerfile(i) ==
  /\ At(i, "docker")
  /\ builds' = [builds EXCEPT ![i].pc = "push", ![i].on = ReadBases(i)]
  /\ UNCHANGED <<outside, dirs>> /\ Rest

\* docker run of the build step, with the bases as its image.
RunBuildContainer(i) == At(i, "container") /\ To(i, "capture") /\ UNCHANGED <<outside, dirs>> /\ Rest

\* The step may not have produced a file the pipeline wants: that is a failure.
CaptureArtifacts(i) ==
  /\ At(i, "capture")
  /\ To(i, IF Pipeline(i).runtime THEN "assemble" ELSE "finish")
  /\ artifacts' = IF Pipeline(i).artifacts = {} THEN artifacts ELSE artifacts \cup {i}
  /\ UNCHANGED <<outside, tags, dirs, sent, deployed, failures>>

\* crane append on the base.
Assemble(i) ==
  /\ At(i, "assemble")
  /\ builds' = [builds EXCEPT ![i].pc = "push", ![i].on = ReadBases(i)]
  /\ UNCHANGED <<outside, dirs>> /\ Rest

Tagging(i, t, image) ==
  /\ tags' = [tags EXCEPT ![builds[i].service][t] = image]
  /\ UNCHANGED <<outside, dirs, artifacts, sent, deployed, failures>>

\* crane push <service>:<sha>. The image of a Dockerfile is what it will be, an
\* assembled one has not got its entrypoint and ports yet.
PushImage(i) ==
  /\ At(i, "push")
  /\ To(i, IF Pipeline(i).dockerfile THEN "latest" ELSE "mutate")
  /\ Tagging(i, builds[i].sha,
       [sha |-> builds[i].sha, by |-> i, done |-> Pipeline(i).dockerfile, on |-> builds[i].on])

\* crane mutate: pulls the tag and pushes it again with its configuration.
Mutate(i) ==
  /\ At(i, "mutate") /\ To(i, "latest")
  /\ Tagging(i, builds[i].sha, [tags[builds[i].service][builds[i].sha] EXCEPT !.done = TRUE])

\* crane tag <service>:latest
TagLatest(i) ==
  /\ At(i, "latest") /\ To(i, "finish")
  /\ Tagging(i, Latest, tags[builds[i].service][builds[i].sha])

\* finishBuild: success, with the reference of the tag if an image was made.
Finish(i) ==
  LET def == Pipeline(i) IN
  /\ At(i, "finish")
  /\ builds' = [builds EXCEPT ![i].status = "success", ![i].image = def.dockerfile \/ def.runtime,
                              ![i].pc = "dispatch"]
  /\ UNCHANGED <<outside, dirs>> /\ Rest

\* dispatchRedeployToBoundAgents for deployable services, then finally.
Dispatch(i) ==
  /\ builds[i].pc = "dispatch" /\ builds[i].status = "success"
  /\ To(i, "ended") /\ dirs' = dirs \ {i}
  /\ sent' = IF builds[i].image /\ Pipeline(i).kind = "deployable" /\ builds[i].service \in Bound
             THEN sent \cup {<<i, "build">>} ELSE sent
  /\ UNCHANGED <<outside, tags, artifacts, deployed, failures>>

Failure == failures < MaxFailures /\ failures' = failures + 1

\* A step exits with an error, is killed by its timeout or finds the database
\* away; crane tag may fail, the build goes on.
StepFails(i) ==
  /\ builds[i].status = "running" /\ Failure
  /\ IF builds[i].pc = "latest" THEN To(i, "finish") /\ UNCHANGED dirs ELSE Fails(i)
  /\ UNCHANGED <<outside, tags, artifacts, sent, deployed>>

\* The worker ends: the sweep fails the row, nobody removes the directory.
WorkerEnds(i) ==
  /\ builds[i].pc \notin {"queued", "ended"} /\ Failure
  /\ builds' = [builds EXCEPT ![i].status = IF @ = "running" THEN "failed" ELSE @, ![i].pc = "ended"]
  /\ UNCHANGED <<outside, tags, dirs, artifacts, sent, deployed>>

Run(i) ==
  \/ Claim(i) \/ ResolveHead(i) \/ CloneAtSha(i) \/ ReadPipeline(i) \/ SelectPipeline(i)
  \/ ResolveDependencies(i) \/ BuildViaDockerfile(i) \/ RunBuildContainer(i) \/ CaptureArtifacts(i)
  \/ Assemble(i) \/ PushImage(i) \/ Mutate(i) \/ TagLatest(i) \/ Finish(i) \/ Dispatch(i)

-----------------------------------------------------------------------------
(* The platform sends builds to agents                                     *)

\* listMissingDeploysForAgent: the newest build with an image of each bound
\* service without a row; its own text must still have the pipeline.
Connect ==
  LET missing == {s \in Bound : deployed[s] = 0 /\ WithImage(s) # {}}
      news == {Newest(WithImage(s)) : s \in missing}
  IN /\ sent' = sent \cup
          {<<i, "connect">> : i \in {n \in news : Buildable(builds[n].yaml, PipelineName[builds[n].service])}}
     /\ UNCHANGED <<outside, builds, tags, dirs, artifacts, deployed, failures>>

\* deployBuildToAgents: any successful build with an image.
Deploy(i) ==
  /\ builds[i].service \in Bound /\ i \in WithImage(builds[i].service)
  /\ sent' = sent \cup {<<i, "user">>}
  /\ UNCHANGED <<outside, builds, tags, dirs, artifacts, deployed, failures>>

Report(m) ==
  /\ m \in sent
  /\ deployed' = [deployed EXCEPT ![builds[m[1]].service] = m[1]]
  /\ UNCHANGED <<outside, builds, tags, dirs, artifacts, sent, failures>>

BuildsNext ==
  \/ EditorNext /\ UNCHANGED <<head, tags, dirs, artifacts, sent, deployed, failures>>
  \/ \E c \in Commit : Push(c)
  \/ \E s \in Service : \E sha \in {c \in Commit : c <= head} \cup {AtHead} : Queue(s, sha)
  \/ \E i \in DOMAIN builds : Run(i) \/ StepFails(i) \/ WorkerEnds(i) \/ Deploy(i)
  \/ Connect
  \/ \E m \in sent : Report(m)

BuildsSpec == BuildsInit /\ [][BuildsNext]_buildsVars

-----------------------------------------------------------------------------
(* Properties                                                              *)

\* The tag a successful build names holds an image of its commit, and the image
\* is finished but while a rebuild of the commit is between crane push and crane
\* mutate or failed there; latest only ever holds finished images; and an image is
\* built on images of its own commit, whatever is built again, pushed or tagged
\* while its build runs.
TagsServe ==
  \A s \in Service :
    /\ \A i \in WithImage(s) :
         LET t == tags[s][builds[i].sha] IN
         t.sha = builds[i].sha /\ (t.done \/ builds[t.by].status # "success")
    /\ tags[s][Latest] # NoImage => tags[s][Latest].done
    /\ \A t \in Commit \cup {Latest} : \A b \in tags[s][t].on : b.sha = tags[s][t].sha

\* A build that save-and-deploy queued runs with the text that was saved, unless
\* another save or clear came in between.
DeploysWhatWasSaved ==
  \A i \in DOMAIN builds :
    builds[i].yaml # NoText /\ builds[i].expects # NoText => builds[i].yaml = builds[i].expects
=============================================================================
