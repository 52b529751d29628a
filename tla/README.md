# kaiad: formal specification

TLA+ models of the parts of kaiad whose correctness depends on the order of the
steps of several processes: the build queue, the run of a build and the pipeline
it builds, the chain of dependent builds, the delivery of commands to agents, redeploys and the drift scheduler, the container
registry, the Kubernetes operator with the enrollment of its agent, the way of a
log line to an incident, and tenants with their members and sessions. The models
are translated from the code, run under TLC on small instances, and proved about
with TLAPS where that says more than a run.

Paths are relative to the repository root. Short names: `builds.ts` is
`apps/worker/src/builds.ts`, `queries.ts` and `schema.ts` are in
`packages/db/src`, `server.ts` and `realtimeManager.ts` in `apps/api/src`,
`client.go` is `apps/agent/internal/transport/client.go`, `redeploy.go`
`apps/agent/internal/executor/redeploy.go`, `routes.ts`, `gc.ts` and `admin.ts`
are in `apps/api/src/registry`, `reconciler` is
`deploy/operator/internal/controller/kaiadagent_controller.go`.

    tlc -workers 2 -config BuildQueue.cfg MCBuildQueue
    tlapm BuildQueueProofs.tla

## 1. The system

kaiad is a self-hosted delivery platform. An API server (TypeScript, Postgres,
Redis) holds the state; workers poll git repositories, build images and push
them to the registry the API serves; an agent (Go) on every managed host keeps
a websocket to the API, redeploys containers on command and ships logs; a
Kubernetes operator runs agents with the token an administrator put into a
Secret.

| Component | State | Operations | Interacts with |
| --- | --- | --- | --- |
| **Build queue, worker scheduler** (`builds.ts` 560-780, `queries.ts` 1200-1420) | `service_builds` rows with status, reason, liveness stamp; `inFlight` map, `ticking`, `stopping`, cached limit of each process; `build_worker_settings` | enqueue (poll, manual, at-sha-if-missing), tick = sweep + limit + claims, heartbeat, finish, stop, restart | Postgres advisory locks; several workers share the table |
| **Poller, trigger, same-commit rule** (`builds.ts` 400-560, 900-1140, 1900-2000, `builddeps.ts`, `samerepo.ts`) | `depends_on` cache, `todo` of a pass or of a trigger | poll pass, catch-up pass, resolve dependencies, trigger dependents | queue; git hosts |
| **Pipelines, overrides, the run of a build** (`pipeline.ts`, `PipelineOverrideEditor.vue`, `server.ts` 3758-3935, `builds.ts` 784-1905) | `repo_pipeline_overrides`, `monitored_services.pipeline_override`, the open editor, `pipeline_yaml` of a build, its directories, tags, recorded artifacts | parse, select; load, edit, save, clear, save and deploy; clone, resolve, build, assemble, push, tag, dispatch | queue, registry, docker, crane |
| **Realtime manager of the API** (`realtimeManager.ts`, `server.ts` `/realtime`) | `sessions` map, Redis pending list per agent, awaiters, UI subscribers, telemetry caches | sendCommand, registerAgent (replay), acknowledgeCommand, close | Redis; agents |
| **Agent transport** (`client.go`, `backoff.go`) | `activeConn`, `seenCmds`, `errCh`, goroutines | dial, heartbeat, read loop, execute and ack, redial | API socket; executor |
| **Redeploy dispatch and reconcile** (`server.ts` 4318-4490 and 4890-5060, `builds.ts` 2010-2121, `queries.ts` 2005-2262) | bindings, environments, `service_loadbalancer_status`, `reconciling` flag | dispatch after a build, on connect, by hand, on a change of environment or binding; drift scheduler; status reports | queue, command delivery, executor |
| **Executor on Docker and Kubernetes, load balancer** (`redeploy.go`, `docker`, `nginx.go`) | containers, deployments, proxy snippets | redeploy_service, teardown_service and commands that run external tools | Docker, kubectl |
| **Registry** (`routes.ts`, `gc.ts`, `admin.ts`, `blobStorage.ts`, `packages/db/src/registry.ts`) | upload sessions, large objects, blobs, manifests, tags | start, patch, finish, cancel an upload; put, delete, untag; garbage collection | builds push, agents pull |
| **Registry tokens and paths** (`packages/registry-auth`) | none | sign, verify, parse | registry |
| **Enrollment tokens, API credentials** (`enrollmentStore.ts`, `server.ts` 2456-2615) | tokens with first use, expiry, revocation | create, validate, deactivate, delete | `/realtime`, operator |
| **Operator** (`deploy/operator`) | `KaiadAgent` with status, informer cache, Roles and bindings, Deployment | reconcile: validate, read the Secret, apply RBAC, sweep, deploy, poll the platform, update the image, report | Kubernetes API, platform API |
| **Log shipping, tailing** (`logship`, `k8slog`, `docker/logstreamer.go`, `logfile`, `selflog`) | open burst, quiet window, signature of the last history, buffer of own lines | stream, classify, collect, flush, re-queue | containers, `/realtime` |
| **Process supervisor, inventory** (`processsup`, `managed`) | processes | start, report | nothing sends its input |
| **Log ingestion, incidents, error groups** (`server.ts` 1515-1596, `queries.ts` 235-300, `errorGrouping.ts`) | `incidents` rows, error groups in memory | upsert, sweep, status, delete | agents, users |
| **Authentication, sessions, OAuth, setup, tenants, permission groups** (`auth.ts`, `postgresAuthStore.ts`, `setupRoutes.ts`, `queries.ts` 2375-2590, `schema.ts` 1-82) | tenants, memberships, groups, sessions, configuration file | setup, login, callback, switch, create, delete tenant; add, change, remove member; boot | web UI |
| **Domain store** (`postgresDomainStore.ts`) | services, agents, bindings | single SQL statements | all |
| **MCP server, web UI, configuration, contracts, clients** | none of their own | | |

What is hard, component by component, and what makes it correct:

- *Queue.* Several workers count and claim from one table; a worker may die
  between any two statements; a stale stamp is only a guess that it died.
  Correct: no more running builds than the limit, one running build per service,
  FIFO within a service, a build in progress owns its row, a dead worker's build
  is answered, and one that kills its worker does not loop.
- *Chain.* The poll pass, the catch-up pass and the triggers of several
  dependencies queue the same dependents between each other's queries; a crash
  between success and trigger loses the trigger. Correct: a dependent is built
  only at a commit its same-repository dependencies built, once per commit,
  never back in history, and it is not forgotten.
- *Run of a build.* The text that counts is read at three times (the service's
  override at the claim, the repository's after the clone, the file of the commit),
  tags move under a build that reads them, `:sha` is pushed and then changed, and a
  save and the builds it leads to are separate requests. Correct: a successful
  build's tag and the bases of an image are of its commit, and a save that deploys
  builds what was saved.
- *Commands.* sendCommand and the replay of a reconnect race; a close comes
  after the next session registered; acks are lost with their connection; both
  ends restart. Correct: an accepted command survives until an agent ran it,
  none falls between replay and live send, a stable connection delivers, and the
  agent always comes back.
- *Redeploy.* Six places send redeploys and teardowns, every command is a
  goroutine of its own that any failure may stop half way, and the status row is
  overwritten by whichever report comes last. Correct: a command that ended well
  and ran alone leaves the host as it asked, whatever was there before, and the
  scheduler comes to rest.
- *Registry.* Large object and row are written by two statements, and so removed;
  collection lists orphans and deletes them later; the bytes of a digest are
  shared by all images. Correct: an accepted manifest keeps its blobs, a row leads
  to its bytes, and a tag points at an image stored whole.
- *Enrollment, operator.* The cache a pass reads lags, every call may fail or
  conflict, the pod keeps the token it started with. Correct: the spec ends up
  applied, the operator never undoes an edit of the user, a good token brings the
  agent online and the condition says so, and the expiry of a used token does not
  shut the agent out.
- *Log shipping, incidents.* Frames are lost without a trace, identical history is
  not shipped again, a lookup and an insert are two statements. Correct: one
  failure is one active incident, a service that goes on failing has one, and the
  bounded buffer drops the oldest lines only.
- *Accounts.* Role and group of a member are two tables written by separate
  statements; a boot adds groups from a snapshot; the deletion of a tenant moves
  sessions by memberships that change. Correct: the group follows the role, no
  session is stranded, nobody loses what his role may.

## 2. Modules

| Module | What it is |
| --- | --- |
| `Pipelines` | which texts of `kaiad.yaml` parse, and the pipeline a service takes of one |
| `PipelineEditor` | over `Pipelines`: the overrides, the editor of the service page and its routes |
| `BuildRun` | over `PipelineEditor`: a build from its claim to its deployment, command by command |
| `BuildQueue`, `MCBuildQueue` | `service_builds`, the workers' schedulers, the sweep |
| `BuildTable` | what the table of builds promises: four atomic operations |
| `BuildQueueProofs` | its inductive invariants, that a retry does not loop, and that it implements `BuildTable` |
| `BuildChain`, `MCBuildChain`, `BuildChainProofs` | poller, catch-up, trigger, dependency resolution over a queue that implements `BuildTable` too |
| `AgentCommands` | API sessions and pending list, the agent's session and goroutines |
| `MCAgent`, `AgentProofs` | one run of `AgentCommands` and `BuildRun`, which share no state; theorems about both |
| `Redeploy`, `MCRedeploy`, `RedeployProofs` | dispatch, drift scheduler, status table, and the commands on the agents' hosts |
| `ImageStore` | what the registry promises: five atomic operations |
| `Registry`, `MCRegistry`, `RegistryProofs` | the registry's handlers and its collection, statement by statement; implements `ImageStore` |
| `Enrollment` | tokens, the Secret, the agent's container and its session |
| `Operator`, `MCOperator`, `OperatorProofs` | the operator's reconcile over `Enrollment` |
| `LogShip` | from a container's log to the frame on the socket, and the agent's own log |
| `Incidents` | over `LogShip`: the handler, the rows, the sweep and the users |
| `Accounts` | tenants, members, groups, sessions |
| `Platform`, `MCPlatform`, `PlatformProofs` | `Accounts` and `Incidents` side by side, which share no state; one run; theorems about both |
| `DataLemmas` | facts about sequences and least elements that the proofs cite |

Operators whose comment begins "Mutant:" are not part of a specification. Each
stands before the definition it varies and is the plausible mistake the
properties were tried against.

Everywhere, what the code does between two awaits, or in Go between two calls of
another system, is one step, and so is a database transaction, but for the deletion
of a tenant, which waits for locks half way.

### BuildQueue

One action per SQL statement or per `withTransaction` transaction. `builds[b]` is
the row with the b-th smallest `created_at`.

| Model | Code |
| --- | --- |
| `EnqueueBuild`, `EnqueueManualBuild`, `EnqueueBuildAtShaIfMissing` | the three inserts of `queries.ts`; who calls them is `BuildChain` |
| `SweepOrphans` | `sweepOrphanedBuilds`: one transaction that fails the stale rows and inserts the retries. `Superseded` and `RetryDied` are its two `NOT EXISTS` |
| `ReadLimit`, `ClaimAndLaunch`, `ClaimNothing`, `TickThrows` | `tick()` of `createDrainScheduler` with `claimNextBuildWithinLimit`; `TickThrows` has the case that the commit took effect but its answer was lost |
| `ResolveHead`, `BuildSucceeds`, `BuildEnds`, `RunSettles`, `RunGivesUp` | `runClaimedBuild`, `runBuild`, `failBuild`, `safelyFailBuild` |
| `HeartbeatBuild`, `StampExpires` | the heartbeat timer, and time |
| `StopScheduler`, `Exit`, `Crash`, `StartBuildLoops` | the life of the process |

Abstractions. `created_at` is `DEFAULT now()`, the start of the inserting
transaction; the model takes the order of insertion. The stamp is "fresh" or
older than `BUILD_ORPHAN_STALE_SECONDS`. What a build does (clone, docker, push)
is its end. The single-build `runDrainOnce` and `claimNextBuild` (no limit) are
left out: the scheduler does not call them. So is the deletion of a service,
which deletes its rows (`ON DELETE CASCADE`) under a build in progress: rows are
never removed in the model. The second exemption of the sweep
(`queries.ts` 1344-1351, a retry that died at the same commit is not retried) is
in the code and in the model, though `docs/admin/build-settings.md` does not
describe it.

`BuildTable` is the table as who asks for a build may rely on it: `Ask`, `Start`
(in turn, alone of its service), `End`, and `Recover`, which ends some lost builds
and asks again for the newest of their services. `Shown` maps a row to it. It does
not say what a build does: whether two workers are busy with one row, or write
its result twice, does not show, and is what `BuildingHoldsItsRow` is for.

### Pipelines, PipelineEditor and BuildRun

Several services of one repository and branch. A text is its form (single, multi,
broken) and its pipelines by name.

| Model | Code |
| --- | --- |
| `InnerPipeline`, `PipelineDefinition`, `Parses`, `Selects`, `ResolveEnvironment` | the schemas of `pipeline.ts` with their cross-field checks, `selectPipeline`, `resolveEnvironment` |
| `Mount`, `TypeRaw`, `SelectTab`, `SetImageMode`, `AddMulti`, `RemoveService`, `SetScope` | `PipelineOverrideEditor.vue`: `yamlText` is `text`, the form is `doc` |
| `Save`, `Answer`, `QueueBuild`, `Clear` | `save`, `saveAndDeploy`, `clearOverride` with the routes they call: the services a save affects are read after it was stored |
| `Claim`, `ResolveHead`, `CloneAtSha`, `ReadPipeline`, `SelectPipeline`, `ResolveDependencies` | `runBuild` up to its two ways of building |
| `BuildViaDockerfile`, `PushImage`, `TagLatest` | `buildViaDockerfile` |
| `RunBuildContainer`, `CaptureArtifacts`, `Assemble`, `PushImage`, `Mutate`, `TagLatest` | `runBuildContainer`, `captureArtifacts`, `buildRuntimeImage` |
| `Finish`, `Dispatch`, `Connect`, `Deploy`, `Report` | success, and the three places that send its image to agents |
| `StepFails`, `WorkerEnds` | a command exits with an error, or the worker ends |

Abstractions. An image is the commit it was built from, the build that pushed it,
whether `crane mutate` has finished it, and the images it was built on. The layers
of an assembled image are one step, and so is `docker build`. Of a pipeline the
model keeps what the checks and the run look at. `expects` is the text a
save-and-deploy promised a build it queued, and `sure` that no other write of an
override came in between: nothing in the code, but what the property is about.

### BuildChain

| Model | Code |
| --- | --- |
| `PollStart`, `LsRemote`, `Compare`, `EnqueueBuild`, `PollEnds`, `PollServiceFails` | `runPollOnce`: each query of a pass is a step |
| `CatchUp`, `CatchUpEnqueue` | `runDependentCatchUp` |
| `Claim`, `RunDies`, `SweepOrphan` | the queue of `BuildQueue`, without workers, limit and stamps: both implement `BuildTable`; here a build is swept only when nobody runs it, which is `BuildingHoldsItsRow` there |
| `ResolveHead`, `UpdateServicePipelineMeta`, `UpdateMetaFails`, `ResolveDeps`, `ResolveFails`, `BuildFails`, `BuildSucceeds` | `runBuild`, with `resolveDeps` and the same-commit rule |
| `ListDependents`, `TriggerDependent`, `TriggerFails` | `triggerDependentBuilds` |

Abstractions. A commit is its position in the history of its branch, so a branch
never moves back. `dependsOn` is the same at every commit and acyclic in the runs
(the code neither checks nor promises anything about cycles; the proofs are for
any graph). A failing `ls-remote` equals passing to the next service. A worker
that dies loses its poll pass too, which is a pass whose services fail. The queue
has no limit here: the limit only delays. `New` are the services that never
built: those the poller treats like any other. The liveness run has none, the
safety theorems are for any `New`.

### AgentCommands

One agent, one API process, the pending list in Redis.

| Model | Code |
| --- | --- |
| `SendCommand`, `Lrange`, `Llen`, `Rpush`, `ToSocket` | `sendCommand`: each Redis call is a step |
| `Attach`, `DropFrame`, `Heartbeat`, `Close` | the `/realtime` handler: the listeners are attached after two awaits, and `Close` unregisters the agent, not the connection |
| `ReadPending`, `ReplayPending` | the replay of `registerAgent` |
| `AcknowledgeCommand` | `acknowledgeCommand`, `removePendingByCommandId` |
| `Dial`, `SendHeartbeat`, `Select`, `Cleanup`, `Wait` | `RunContext` and `runSession` |
| `HandleIncoming`, `ReadFails`, `ReadLoopEnds` | `readLoop`, `handleIncoming` |
| `ExecuteAndAck` | `executeAndAck`, one goroutine per command |
| `ApiRestart`, `AgentRestart`, `Break` | faults |

Abstractions. `lrange` and `lrem` of an ack are one step: the value lrem takes
out is there but for another ack of the same command. At most one heartbeat is in
transit; a second changes nothing. A command that was cancelled counts as run:
its handler returned. Left out: the results of commands and their awaiters, UI
subscribers, telemetry, disconnects by an administrator, and the mode without
Redis.

### Redeploy

One service, any number of agents. `rows` is `service_loadbalancer_status`,
`box` the containers or deployments on an agent's host, `cmds` the commands on
their way.

| Model | Code |
| --- | --- |
| `BuildSucceeds` | `dispatchRedeployToBoundAgents` after a build (`builds.ts`) |
| `Connect`, `Reconcile`, `Disconnect` | `/realtime` and `reconcileMissingDeploys` |
| `DeployBuild`, `ChangeEnvironment`, `Attach`, `Detach` | the routes of `server.ts`, with the rows they pop and the teardowns they send |
| `TickBegins`, `TickTearsDown`, `TickChooses`, `TickRedeploys` | `reconcileAllDeployments`: it reads all targets, then acts on each after an await |
| `Begin`, `List`, `Remove`, `ClearName`, `Create`, `StartReplica`, `AttachService`, `DetachService` | `redeployDocker`, `teardownDocker`: one step per call of Docker or of the proxy |
| `Apply`, `Drop` | `redeployKubernetes`, `teardownKubernetes` |
| `Report`, `HandleReport` | the status report and its upsert; reports are handled concurrently |
| `DockerCallFails`, `CallSkipped`, `Crash` | a failing call that ends the command or is only logged; the agent's end |

Abstractions. A handler of the platform is one step; only the scheduler keeps its
read-then-act steps, which is where it can be stale. Pulling an image is part of
the listing. Acks and replay are in `AgentCommands`: here a command is lost or
carried out. A Kubernetes deployment is one container. That the proxy container
is created again without its snippets is left out. `Patient` says that the
interval of the scheduler outlasts the commands sent before it: the run and
`Settles` need it, the theorems do not. Nothing in the code ensures it: the timer
fires every 60 s whatever is in progress (`server.ts:4908-4913`), which is
`Patient = FALSE`.

`SureIsTrue` is about `sure[a]`: the last command of agent `a`, kept only while
that command ran alone, had no failing call and nothing was sent since.

### Registry and ImageStore

| Model | Code |
| --- | --- |
| `UploadInit`, `UploadMonolithic`, `UploadPatch`, `UploadComplete`, `UploadCancel` with `InsertRegistryUpload`, `LoPut`, `UpdateRegistryUploadReceived`, `ComputeBlobDigest`, `LookUpExisting`, `InsertRegistryBlob`, `UnlinkBlobOid`, `DeleteRegistryUpload` | the upload handlers of `routes.ts`, one step per statement |
| `ManifestPut`, `CheckRef`, `InsertRegistryManifest`, `UpsertRegistryTag` | the PUT of a manifest: every reference is looked up before the insert |
| `ManifestDelete`, `ListRegistryTagsForRepo`, `DeleteRegistryTag`, `DeleteRegistryManifestIfUnreferenced`, `DeleteTag`, `Untag`, `OtherTags`, `DeleteManifest`, `BlobDelete` | the deletes of `routes.ts` and `admin.ts` |
| `ListExpiredRegistryUploads` ... `DeleteOrphan`, `CollectionEnds` | `runGc`: three lists, each read once and worked off |
| `RequestFails`, `StatementCaught`, `CollectionItemFails`, `CollectionDies` | a statement fails or the process ends anywhere |

Abstractions. An object's content is the set of sequences of chunks it may have
after writes that overlapped. One assumption is a constant: `Orderly` (a client
sends the requests of one session one after another). A manifest may be put at any
moment of a collection; `met` remembers the PUTs, and then the manifests they stored,
that referred to a blob on the collection's list of orphans: when the list was made,
or when the PUT looked the blob up. Those may lose it (section 4), the properties
except them and no others. Left out: mounts, the check of `Content-Range`, pulls, the
retention policy, visibility. That the children of an index stay is not claimed.

`ImageStore` has a store of whole images and a map from tags to them;
`ServesImages` is its specification under `stored <- {manifests that are whole or in
met}`.

### Enrollment and Operator

`Enrollment` holds the tokens, the Secret, the agent's pod and its session;
`Operator` extends it with the KaiadAgent `cr`, the informer `cache`, the granted
rules per place (cluster or namespace), the Deployment and a pass.

| Model | Code |
| --- | --- |
| `Create`, `Deactivate`, `Delete`, `Expire`, `Live`, `Consume` | the routes of tokens and `enrollmentStore.ts`: a used token stays valid after its expiry |
| `Dials`, `Accepted`, `Rejected`, `Exits`, `Restart`, `Disconnect` | `/realtime` and `RunContext`: the agent exits on `INVALID_TOKEN`, the kubelet starts it with the Secret of now |
| `Begin`, `Enroll`, `Sweep`, `Apply`, `ApplyConflicts`, `List`, `Deploy`, `CheckOnline`, `NoAnswer`, `Bump`, `Commit`, `UpdateConflicts` | `Reconcile`, one call of the Kubernetes or platform API per step |
| `NoticeAgent`, `NoticeNamespaces`, `Refresh` | the informers catch up |
| `CallFails`, `Crash`, `SessionFault` | any call fails; a new leader starts with a fresh cache; connections and containers fail |
| `Edit`, `Relabel`, `Release`, `TokenEvent`, `SecretEvent` | users, administrators, releases |

Abstractions. One KaiadAgent that is never deleted. Role and binding are one
grant per place. A rollout replaces the pod at once. The Secret and the Deployment
are read as they are: the code reads them through the cache too, which adds passes
that end early, conflicts and repeated passes. An accepted dial and its first
heartbeat are one step. Two leaders never overlap. `Polls` says that the
operator has an API client.

### LogShip and Incidents

One container of one service. A failure prints two lines: "error" opens a burst,
"cause" follows it.

| Model | Code |
| --- | --- |
| `Hello` | `streamExistingContainerLogs` on Docker, the streamer's pod loop on Kubernetes |
| `PullHistory`, `ShipLine`, `Follow`, `FollowLine`, `FollowEnds`, `StreamFails` | `tailPod`, `followKubectl` (`k8slog`), `StreamContainerLogs` (Docker) |
| `Collect`, `Flush`, `QuietEnds` | `SendLogEvent` and `flushLoop` of `logship/sender.go` |
| `Write`, `DetachBatch`, `SendAgentLog`, `Requeue` | `selflog/shipper.go`: the agent's own lines; the operator's sink is the same buffer over HTTP |
| `Receive`, `Select`, `UpdateOrInsert`, `HandlerFails` | the `app_log_error` branch of `/realtime` with the two statements of `upsertIncident` |
| `ResolveStaleIncidents`, `GetsOld` | the sweep, and time |
| `UpdateStatus`, `Delete` | the routes of users |
| `Break`, `AgentRestart`, `ApiRestart` | faults |

Abstractions. The error groups are used for their fingerprint only. `History`
stands for 200 lines, `quiet` for the two minutes of `incidentWindow`; `Flush` may
come any time after a burst opened. `MaxFrames` bounds the frames on their way and
in the hands of handlers, which work on them concurrently. A handler remembers the
last row there was when it looked (`seen`), and an inserted row whether one of its
failure came in between (`met`). `Varied` says that no two failures print the same
last line, `Alike` that a failure has one fingerprint whether its
cause came in time or not. A crash loop's back-off is assumed to outlast one cycle
of `tailPod`. The context ring, the filter of user input, event counts, threat
sniffing and tenant lookups are left out.

### Accounts

A call of a user is a record in `calls` that runs its statements one at a time.

| Model | Code |
| --- | --- |
| `StartSetup`, `SetupAdmin`, `WriteConfig` | `POST /api/v1/setup/complete` |
| `StartBoot`, `EnsureCoreSchema` | the part of the schema that seeds the built-in groups and backfills members: one transaction that writes what it read when it began |
| `StartPatch`, `UpdateRole`, `DropBuiltin`, `GrantBuiltin`, `ClearCustom`, `GrantCustom` | `PATCH /users/:userId`: `setMemberRole`, `setMemberCustomGroups` |
| `StartAdd`, `UpsertMember`, `Join` | `addTenantMemberByEmail` |
| `StartRemove`, `DeleteGroups`, `DeleteMembership` | `removeTenantMember` |
| `CreateGroup`, `DeleteGroup` | the routes of groups |
| `StartLogin`, `StartOAuth`, `CreateSession` | `loginWithDiagnostics`, the OAuth callback: the membership is read first |
| `StartSwitch`, `UpdateSessionTenant`, `CreateTenant`, `StartDelete`, `MoveSessions`, `DeleteTenant`, `DeletionEnds` | the routes of tenants; `Held` and `Referred` are the row and key locks the deletion's transaction waits for |
| `CallFails` | a statement fails or the process ends between two |

Abstractions. One custom group per tenant, which holds a permission a viewer lacks;
edits of a group are left out. Passwords, token hashes and expiry, OAuth states,
API credentials and the form of e-mail addresses are left out. `unsure` remembers
the members for whom two calls met, a call failed half way, or somebody was added
who was a member already; `left` the memberships that ended. Ids of sessions are
random in the code and few in the model, so `Unused` takes a row again only when no
switch in progress still holds its id.

## 3. What is checked

| Run | Config | Distinct states | Shows |
| --- | --- | --- | --- |
| `queue` | `BuildQueue.cfg` | 131k | heartbeats in time: `RunningWithinLimit`, `BuildingHoldsItsRow`, `ExclusiveBuilding`, `RetryDoesNotLoop`, `EveryBuildIsAnswered` |
| `queue_late` | `BuildQueueLate.cfg` | 351k | late heartbeats, a limit that changes: `TypeOK`, `GrowthWithinKnownLimit`, `InTurn` |
| `chain` | `BuildChain.cfg` | 128k | `TypeOK`, `QueuedOnce`, `DependentsCatchUp`, `InTurn` |
| `chain_commits` | `BuildChainCommits.cfg` | 1.0M | `SameCommit`, `PolledForward` |
| `chain_backfill` | `BuildChainBackFill.cfg` | - | `NoBackFill` violated |
| `agent` | `Agent.cfg` | 465k | Commands: `TypeOK`, `NothingIsLost`, `NoCommandBetweenTheTwo`, `DeliveredWhenConnected`; builds: `TagsServe`, `DeploysWhatWasSaved` |
| `agent_redial` | `AgentCommandsRedial.cfg` | - | `RedialsAfterSession` violated |
| `registry` | `Registry.cfg` | 1.2M | `TypeOK`, `ManifestsHaveBlobs`, `CommittedBytes`, `ServesImages` |
| `registry_recommit` | `RegistryRecommit.cfg` | - | `DropsNoCommitted` violated |
| `redeploy` | `Redeploy.cfg` | 108k | `TypeOK`, `SureIsTrue`, `Settles` |
| `operator` | `Operator.cfg` | 250k | `TypeOK`, `KeepsEdits`, `Converges`, `ComesOnline`, `StaysEnrolled` |
| `platform` | `Platform.cfg` | 224k | `TypesOK`; Incidents: `DropsOldest`, `OneActive`, `Reported`; Accounts: `GroupsFollowRole`, `SessionsResolve`, `AccessComesBack` |

**Bounds.** Constants named `Max...` bound what comes from outside; the steps of
the program are bounded by nothing else.

- *Queue*: two workers and two services are the fewest with a race for the limit
  and a race within a service. Two requests and two faults reach a retry whose
  worker dies again while another build waits. A limit of 1 is where one build
  too many shows; {1, 2} has a limit that is lowered and raised. A larger
  instance (three requests, safety only) was run by hand (786k states).
- *Chain*: two services at two commits have the order of commits, three services
  (one dependency in the repository, one in another) two triggers at once. With two
  commits there are two poll passes, as two worker processes have them or the pass
  started by `setImmediate`. `Bound` lets them meet while no build runs and none was
  started by hand, and after one overlooked a row of the other only polls and pushes
  follow. By hand, without this bound: `ForwardInv` and `PolledForward` (1.6M states).
- *Commands*: two calls and `MaxPending = 1` reach both races of `sendCommand`
  and its refusal; two connections and one fault reach a late close and a replay
  after either end restarted. By hand: two commands (1.6M states), three
  connections and two faults (12M), liveness with three connections and two
  faults for one call (717k).
- *Builds*: two services, of which the second is a Dockerfile on the image of the
  first, three builds of two commits, one failure: the fewest with a dependent
  that reads a tag while its dependency is built again. The editor is run apart
  from pushes and failures, with two builds and three things its user does, which
  reach a save that meets an override of a service.
- *Redeploy*: two environments, and two builds that between them change
  namespace, replicas and domains; two commands at once are the fewest that
  overtake each other; one event of an operator or failure anywhere. By hand:
  `Patient = FALSE` for safety (826k states), one build and two events with
  liveness (104k).
- *Registry*: one blob, an image of it and an index of the image, two requests
  beside a collection, one fault: the sharing of a blob by two pushes, and every
  pair of statements, also of a PUT with those of the collection that takes its blob.
  `Bound` lets, after the fault, requests beside a collection come one at a time.
- *Operator*: three specs (cluster and namespaces, namespaces only, not allowed),
  two tokens, two versions, one event and one fault. By hand, for safety: two
  events and one fault (10.8M), two events without faults (2.55M).
- *Incidents*: one edit and one fault beside any number of failures of the
  service; five own lines for a buffer of two. On Docker two frames are in progress at
  once, beside the fault or the edit, so that two handlers select before either
  inserts; on Kubernetes, where the stream is larger, one (`MCPlatform!Bound`): the
  platform treats both alike.
- *Accounts*: two users, two tenants, three sessions, two calls that may overlap
  and a boot at any time, one failure. The run starts before the setup, or with the
  first user owner or viewer of the default tenant and owner of the other one, where
  the second is a viewer. By hand: both users members of both tenants (199k), both
  owners (337k).

`MCPlatform` runs `Incidents` and `Accounts` side by side, `MCAgent` `AgentCommands`
and `BuildRun`: they share no state, so a behaviour moves one of them and the other
rests; each is fair when it does not rest. That is a choice of the run, not of the models.

**Deadlock** is checked for `BuildQueue` and `BuildChain`. The others set
`CHECK_DEADLOCK FALSE`: their connections, events and requests are bounded, a
registry without requests, a settled deployment and a platform without calls
rest, and the agent of `AgentCommands` really can stop: that is a finding.

**Fairness.** None of users, administrators, containers, crashes, failing
statements, breaks or late heartbeats.

- `BuildQueue`: each statement of a tick (an interval timer calls it), restart (a
  supervisor), the progress of runs (a build is assumed to end: the code has no
  time limit on it), time.
- `BuildChain`: each pass (timed), the queue (the previous line), runs.
- `AgentCommands`: the Redis calls in progress, the event loop for each connection
  (a dead connection is noticed at some time), and the three kinds of goroutine.
  `DeliveredWhenConnected` has `<>[]Connected` as its premise; it is not vacuous:
  the mutant in which the agent remembers across a restart what it saw violates
  it.
- `Redeploy`: the scheduler's timer, the goroutines of each command, reconnects.
- `Operator`: the work queue with its `RequeueAfter`, the informers, kubelet and
  agent.
- `Incidents`: goroutines, timers, the event loop. `Reported` has as its premises
  that the service goes on failing and that its stream did not end for good.
- `Accounts`: a call goes on to its end, and a process starts now and then: that
  is what `AccessComesBack` relies on, and all it can rely on.

**Premises inside properties.** Where the code has a race whose loss it does not
prevent, the run contains the race, a history variable remembers who lost it, and the
property speaks of the others: `met` of a polled row (another pass queued a row of the
service since this one compared; `PolledForward`), of a manifest (`ManifestsHaveBlobs`,
`ServesImages`) and of an incident (`OneActive`), `unsure` of a member, `sure` of an
agent and of a build. What happens to the losers is in section 4. Two premises are
constants: `Orderly` (for `CommittedBytes`) and `Patient` (for `Settles`).

## 4. What disagrees with the documents

Shown by a run that expects the violation:

1. **An older commit after a newer one** (`chain_backfill`). A manual build of a
   dependency pins the new head while the older commit is still queued behind it.
   The dependent is built at the new commit, then the older build of the
   dependency triggers it at the older one.
   `docs/reference/pipeline-dependencies.md:96-97` excludes this.
2. **An agent that does not come back** (`agent_redial`). An ack that could not
   be written fills `errCh`; the session leaves for a failed heartbeat and waits
   for the read loop, which blocks on the full channel.
   `apps/agent/ARCHITECTURE.md:49` says that the client redials.
3. **A repeated commit unlinks its own blob** (`registry_recommit`). When the last
   statement of a finished upload fails, the session row still points at the object
   that is now the blob's. The repeated PUT finds the digest, takes its object for a
   duplicate, unlinks it and answers 201. `routes.ts:1001-1002` and
   `packages/db/src/registry.ts:126-128` call the commit idempotent.

Shown by a hand run, with the constants named:

4. **Two builds of one service at once** (`BuildQueue` under the constants of
   `BuildQueueLate.cfg`, `ExclusiveBuilding`). The sweep takes a stale stamp for a
   dead worker (`queries.ts:1316`). A live build whose heartbeats are late is failed
   and retried while it runs, maybe by the same worker in the same tick; when it ends
   it overwrites its orphaned row. `docs/admin/build-settings.md:36-38` and
   `queries.ts:1247-1249` exclude this.
5. **A push during a collection** (`Registry`, `Registry.cfg`, `ManifestsHaveBlobs`
   for all manifests, `met` included). The collection lists an orphan blob, a manifest
   that refers to it is accepted, the blob is deleted, and a tag may point at the
   manifest. `gc.ts:21-24` says that at worst somebody sees a 404.
6. **Two agents of one environment** (`Redeploy`, two agents, no event, `Settles`).
   They share a status row; each report takes it over, the other agent's target has
   no deployment, and the scheduler redeploys on every pass.
   `schema.ts:499-501` and `docs/agent/binding-services.md:9-24` describe this use.
7. **A row left behind** (`Redeploy`, `Settles` without `LeftBehind`). When the
   environment of an agent changes and the namespaces are equal or unset, nothing
   removes the old row, and every pass redeploys, which `server.ts:4890-4901` and
   `queries.ts:2064-2068` say does not happen.
8. **Two incidents of one failure** (`Incidents`, `Platform.cfg`, `OneActive` without
   `met`). `upsertIncident` selects and then inserts, and no index forbids a second
   row: two frames handled at once, of one agent or of two, insert both.
9. **A crash loop that stays silent** (`Incidents`, `Varied = FALSE`, `Reported`). On
   Kubernetes a history with the signature of the last one is not shipped again; if
   the frame of that one was lost, no incident is ever made. The comment in `k8slog`
   calls the suppression politeness.
10. **No agent without API client** (`ComesOnline` without its premise `Polls`, with `Polls = FALSE`). `checkAgentOnline`
    answers "not online" for ever, so Ready stays False, while the header of the
    reconciler, `main.go:11-15` and `docs/admin/api-credentials.md:149` describe the
    agent as becoming Ready.
11. **A commit polled twice, or backwards** (`BuildChain`, `BuildChainCommits.cfg`,
    `PolledForward` without `met`). Two passes, of two workers or of one whose
    `setImmediate` pass is outside `pollBusy` (`builds.ts:414-437`, 484), both compare
    before either queues. The comment at `packages/db/src/schema.ts:484-487` says that
    the application layer looks first, "which is enough".
12. **An orphan that nothing retries** (`BuildQueue`, `BuildQueue.cfg`,
    `EveryBuildIsAnswered` with `OrphanedBefore` narrowed to the row the orphan
    retries). The sweep gives an orphan up when any other row of its service and commit
    was orphaned before (`queries.ts:1344-1351`), also one whose retry succeeded long
    ago: a build of the same commit asked for later and lost with its worker is
    dropped. `docs/admin/build-settings.md:69-72` says that it is queued again, and the
    comment in the code speaks of the retry itself. The property therefore excepts
    every orphan with an earlier one, as the code does.

Met while translating, and part of the models or their limits:

- *Pipelines, builds.* No part of the API looks at `kind`: a build of a supporting
  service is sent to agents on connect and by hand (`queries.ts:2112-2164`,
  `server.ts:4329-4392`, 4394), which `docs/reference/pipeline-dependencies.md:30-33`,
  `docs/agent/binding-services.md:22-24` and `schema.ts:178-181` exclude; in
  `BuildRun` `Connect` and `Deploy` have no such guard. The same comment says that
  the kind is that of the newest successful build; every build that parses writes it.
  After an override was built and cleared, the editor shows the override's text as
  that of the repository (`queries.ts:1378-1382`). A dependent may be assembled on
  an image between its `crane push` and `crane mutate`. `:sha` moves when a commit is
  built again. The timeout of a build step ends the docker client, not the
  container. `finally` deletes the captured artifacts that
  `docs/reference/api.md:79` offers for download. A redeploy by the API uses the text
  of the build with the pipeline name of now. A save for the repository is checked
  against the pipeline name of the page's service only, and a multi file skips the
  checks of environments and their names though `pipeline.ts:641` says "Same
  cross-field checks". `addMulti` may overwrite a pipeline named `service-N`; after
  invalid YAML an edit in the form overwrites the text; clearing one scope hides the
  other one.
- *Redeploy.* On Kubernetes the status report is sent when `kubectl apply` failed,
  too, and the scheduler, which compares rows, does not try again
  (`packages/contracts/src/realtime.ts:51-53`; `redeploy.go:1348` calls it the
  intent). A change of namespace sends teardown and redeploy, which run at once,
  contrary to `server.ts:4985-4990`. Of two overlapping redeploys the older may
  finish last, and reports may arrive the other way round. A late report brings back
  the row a detach removed. A manual deploy of an older build is undone by the
  scheduler. `server.ts:4944-4945` relies on the pass at connect, which only handles
  services without a row. The proxy container created again by `Ensure` has lost
  every snippet until the next redeploy (`nginx.go:139-146`).
- *Registry.* A blob row whose object is gone is never deleted (`gc.ts:103-107`).
  The administrator's delete of a tag deletes a manifest an index still lists
  (`admin.ts:211-219` against `docs/reference/registry.md:240-242`).
  `routes.ts:737-738` relies on the collection for dangling objects, which it does
  not look for. The object of an insert that lost against `ON CONFLICT` stays
  (`routes.ts:841`, `1007`).
- *Operator, enrollment.* Roles in namespaces that stop matching stay
  (`docs/reference/kaiad-agent-crd.md:80` and the comment at `reconciler:493-494`
  say they go), so `Converges` speaks of matching namespaces. Every matching
  namespace gets the union of all rules with a selector. An invalid spec keeps the
  old grants. Errors of the deletion of a ClusterRole are dropped. Deleting a token
  does not ask that it is inactive (`docs/reference/api.md:102`), and a used token
  can be deactivated though the message at `server.ts:2566` says otherwise. A used
  token stays valid (`deploy/operator/internal/kaiad/client.go:47-49` says consumed).
  A revocation does not end a session. Comments mention a token renewal that was
  removed.
- *Logs.* On Docker the first line printed without a connection ends the stream of
  its container, and containers that start after the first hello are not read
  (`logstreamer.go:53-55`, `main.go:320`). A lost frame opens the quiet window all
  the same. `PATCH` allows any status after any, so a reopened row may double an
  active one. An update by id may touch a row that was resolved meanwhile. The
  process supervisor says that it restarts what died (`main.go:353-354`); it does
  not.
- *Accounts.* `addTenantMemberByEmail` of a member changes the role and keeps the
  old built-in group, so that permissions are the union of both
  (`queries.ts:2561-2588` against `schema.ts:22-25`). `setMemberRole` is three
  statements without a transaction; what a second change, a boot or a failure leaves
  is never repaired, because the backfill only adds. New tenants have no groups
  before the next boot; until then a custom group *replaces* what the role may,
  against `schema.ts:75-76`. The OAuth callback does not insert a user, so a new one
  cannot sign in, though `queries.ts:2569` asks them to sign in once first; a user
  without a membership gets a session that does not resolve. The setup stores the
  e-mail as typed, the login looks for it in lower case. Two deletions of tenants
  may wait for each other, and one answers 500. Custom groups may be given to
  somebody who is not a member. A failed schema is remembered by
  `ensureCoreSchema` until the process ends.

## 5. What is proved

All theorems are for every value of the constants that the named assumption of the
module admits; none assumes anything else but what its statement says.

`BuildQueueProofs` proves, for all sets of workers, services and commits, all
limits and any number of requests and faults, from the assumptions of
`BuildQueue` (limits are in 1..8, `NoSha` is no commit):

- `QueueInvariant`: `Spec => []QueueInv`, the inductive invariant
  `TypeOK /\ RunsOfStartedRows /\ OneRunningPerService /\ NoOvertaking /\ BuildingIsFresh`.
  `NoOvertaking` is not inductive alone: a claim starts the oldest *claimable*
  row, which is the oldest queued row of its service only because no build of
  the service runs, and a run may write to a row of any status, which keeps the
  order only because the row of a run has started (`RunsOfStartedRows`).
- `TypeCorrect`, `OneRunning`, `Fifo`: its conjuncts.
- `BuildsRunInTurn`: `Spec => InTurn`, the refinement of `BuildTable`. The mapping
  shows of a row its service and whether it is queued, running or ended. A claim is
  `Start`, whose guard (nothing of the service runs, nothing older waits) follows
  from that of `Claims`; a result is `End` if the row still runs, and does not show
  if a sweep ended it before; a sweep is one `Recover` of all orphans at once,
  with the enumeration the transaction chose as its witness. `OneRunning` and `Fifo`
  also follow from it: the runs check `InTurn` in their place.
- `HoldsItsRow`, `Exclusive`: if heartbeats are never late, a build in progress
  holds its row and no two builds of a service are in progress. This needs
  `BuildingIsFresh`: the row of a live build is running with a fresh stamp, so no
  sweep takes it. Item 4 above shows that the hypothesis is needed.
- `WithinLimit`, `GrowthWithinLimit`: the limit, as a state invariant and as an
  action property, from `CountInv = QueueInv /\ DownIsIdle /\ RunningWithinLimit`.
  A claim adds one running row below the limit; every other step starts none.
- `NoRetryLoop`: if heartbeats are never late, an orphan that was itself a retry at
  the same commit is not retried. `RetryInv` adds to `QueueInv` that a retry is
  newer than the orphan it replaces, of its service, and that the orphan still is
  what the sweep made of it. It is inductive because a failed row is never written
  again, which a late heartbeat would break: the run of an orphaned row would
  finish it.

`BuildChainProofs` proves, for every dependency graph (also one with cycles), any
repositories, number of poll passes, commits, manual builds and faults:

- `ChainTypeCorrect`, `BuiltAtSameCommit`, `DependentsQueuedOnce`: from `ChainInv`,
  which adds to `TypeOK`, `SameCommit` and `QueuedOnce` that every run works on a
  row of its own, running up to its end, and that what it found of its
  dependencies still holds (`RunsOfRows`); that a pass polls no service it knows
  for a dependent (`PassesKnow`); and that what is polled, triggered or built is
  pinned and a blocked build has failed (`RowsSound`). `SameCommit` is not
  inductive alone: the check of the dependencies and the success are steps apart,
  and it is the rows that never change after their end that carry it over.
- `ChainRunsInTurn`: `Spec => InTurn` for the same `BuildTable`. A sweep is a
  `Recover` of one orphan. With `BuildsRunInTurn` this says that the order of builds
  the poller and the triggers rely on is what the statements of the workers keep.
- `PollsForward`: `PolledForward` for any number of passes at once, from
  `ForwardInv = GraphKnown /\ RowsForward /\ \A p : PassAhead(p)` beside `ChainInv`.
  `RowsForward` is the property (`InOrder`), with the head of the branch as a bound
  for every polled row. `PassAhead` says of a pass that has read the head of a
  service: the commit in its hands is no newer than the head, and while no row was
  polled since it looked it is no older than the newest one, and newer once it has
  compared (`Ahead`). A row inserted after somebody else's carries `met`, and a chain
  of rows without `met` is in order from one to the next.

`AgentProofs` proves, for all commands, any number of calls, connections and faults,
and any `MaxPending`:

- `DeliveryTypeCorrect`, `NeverLost`: from `DeliveryInv`, which adds to
  `NothingIsLost` that only dialled connections are used (`Dialled`), that a call
  at its socket write has its command in the list or run (`CallsAtSocket`), and
  that an ack in transit is of a command that ran (`AcksOfRun`): only such an ack
  takes a command out of the list.
- `NoneBetweenTheTwo`: from `ReplayCovers`: once the replay of the session has read
  the list, every command in the list was sent on it, is left to replay, or is in
  the hands of a call about to write it to the socket.

and of the builds, from the assumption of `BuildRun` (0 is no commit), for any
services, pipelines, commits, pages, texts, edits, builds and failures:

- `TagsAlwaysServe`: `TagsServe`, from `TagsInv`. `RowsRely` says, place by place of a
  run, what it has from the registry: the images it is about to be built on are tagged
  (after `ResolveDependencies` they are looked up by tag, so it matters that a tag
  never goes and always holds an image of the commit it is named after), and from
  `crane push` on its own tag. `TagsHold` says what a tag may hold: an unfinished image
  only while the build that pushed it is before its `crane mutate`, or when it failed.
  The property is not inductive without it, since a build that succeeds makes a claim
  about a tag it last wrote several commands ago; and not without `OneRuns`, by which
  no other build of the service pushes between `mutate` and `crane tag`.
- `BuildsRunWhatWasSaved`: `DeploysWhatWasSaved`, from `SavedInv`. The saved text is
  followed through four places: the override (`SavedBy`, for a page between its save
  and its last build), the override still at the claim and what the row took of it
  (`Expects`), and `pipeline_yaml`. A page names only services for which the text
  `Counts`; a write in between takes the promise from every other page and from every
  build that has not read its pipeline, in the step that writes.

`RedeployProofs` proves, for any agents, environments, namespaces, configurations,
number of commands at once, events, and whether or not the scheduler is patient:

- `RedeployTypeCorrect`: the types, and one status row per environment.
- `SureCommandsHold`: `SureIsTrue`. The invariant `SureInv` says how far a command
  known to be alone has come (`SoloGood`, by the step it is at: what it listed and
  removed, how many replicas stand), that no other command runs beside it
  (`Alone`), and that an agent is vouched for only while nothing runs there
  (`Quiet`). It is needed because the property speaks of the end of a command and
  every step before it must have set the stage.

`RegistryProofs` proves, for any blobs, manifests, tags, requests and faults:

- `RegistryTypeCorrect`.
- `ManifestsKeepBlobs`: `ManifestsHaveBlobs`, while manifests are put and collections
  run as they come. `RegistryInv` says what is `Held`: a reference that is there (or
  whose blob a client deleted itself) and on no list the collection is working off.
  What a PUT has looked up is held and what a manifest refers to is held, but for the
  PUTs and manifests in `met`. The list only has what no manifest refers to when it is
  made, and a PUT that passes it with a blob on it enters `met` at that statement: so
  nothing else can lose a blob.
- `RegistryServesImages`: the registry implements `ImageStore`: the initial states
  map to its initial states and every step, faults included, stores, points, untags,
  forgets or does not show.
- `BlobsLead`: if clients send the requests of a session one after the other
  (`Orderly`), `CommittedBytes`, from `BytesInv = (faults = 0 => LeadInv)`. An object is
  `Closed` when no request can write to it or drop it any more. `LeadInv` says what
  each statement is part of (`OpsSound`), that a session has one request at a time and
  none after it expired (`Senders`, `ExpiredListed`), that the object a row, a delete
  or the collection holds is closed and of no other row (`RowsClosed`, `DeletesSound`,
  `CollectsSound`), that who is about to commit has compared the bytes (`Verified`),
  and that a row leads to them (`RowsLead`).

`OperatorProofs` proves, for any specs, policies, namespaces, tokens, versions and
faults:

- `OperatorTypeCorrect`: in particular only rules of the allow-list are ever
  granted, and who has a session used a token.
- `EditsKept`: `KeepsEdits`. The invariant `OperatorInv` says that a copy of the
  spec, in the cache or in the hands of a pass, is older than the spec or is the
  spec (`CopyOf`), but for the image a pass is about to write (`PassCopies`): the
  conflict check of the API server then refuses every copy that an edit overtook.

`PlatformProofs` proves, for any bounds, users, tenants, roles, sessions, failures of
the service and of calls:

- `DropsTheOldest`: `DropsOldest`, from `OwnInv`: the buffer is the last lines written
  (`EndsAt`), and a batch on its way ends just before the buffer, or lines were
  dropped since and the buffer is full (`BatchFits`), so that a batch that comes back
  loses its oldest lines only; nothing sent is in the batch or the buffer
  (`SentFirst`).
- `OneIncidentPerFailure`: `OneActive`, for any number of frames handled at once.
  `OneInv` adds that of the rows a handler looked at (`seen`) none of its failure is
  active when it inserts, unless a user brought it back (`StillMissing`): an active row
  it doubles is newer than its look, which is `met`. Item 8 above shows that `met`
  cannot go.
- `IncidentsTypeCorrect`: `IncidentsTypeOK`, with any number of frames in flight. In
  `TypesInv`, what the goroutine has in hand fits its place in the code and the
  backend (`TailTyped`), frames and handlers together stay within the bound and a
  handler's row exists (`QueuesTyped`), and a batch holds numbers of lines that were
  written (`NumbersTyped`).
- `AccountsTypeCorrect`: `TypeOK` of `Accounts`, in particular no membership, group or
  session of a tenant that is gone. `AccountsTyped` adds what each call holds
  (`CallTyped`), that the sessions a deletion has moved are still of its tenant
  (`MoveSound`) and that no two deletions have moved one session (`HeldOnce`).
- `GroupsFollow`: `GroupsFollowRole`. `GroupsInv` says, call by call, what one that met
  no other has reached (`AloneSound`: after the old group was dropped there is none,
  before the new one is granted the role is set), that who meets another is not alone
  (`Meets`), and that what a boot has read is still the role of everybody nobody works
  on (`ReadSound`). The property itself speaks of idle members only and says nothing
  about the steps between.
- `SessionsFollow`: `SessionsResolve`, from `SessionsInv`. A membership that was `Seen`
  is there or in the history for ever (`SeenKept`); every tenant a session has, is
  switched to or is moved to is of a membership its user was seen to have, and the
  session a switch holds is still of the user who asked (`SwitchSound`).

- `TypesCorrect`: `TypesOK` of `Platform`, from the two, since the parts share no state.

The prover has no induction over data. Where a least element is needed,
`DataLemmas!LeastExists` has it for a given set of naturals.

**Only model-checked:** all liveness properties (`EveryBuildIsAnswered`,
`DependentsCatchUp`, `DeliveredWhenConnected`, `Settles`, `Converges`, `ComesOnline`,
`StaysEnrolled`, `Reported`, `AccessComesBack`): the prover does neither liveness
under fairness nor ENABLED. Every other invariant and action property of a passing run
is the subject of a theorem.
The violated properties of section 4 are counterexamples and have no proof.

## 6. Plan

1. The deletion of a service in `BuildQueue`: its rows go under a build in progress,
   whose slot is given away.
2. The deletion of a KaiadAgent in `Operator`, of agents in `Redeploy`, results and
   awaiters in `AgentCommands`.

## 7. What is not modelled, and why

- *The rest of the web UI, MCP server, contracts, configuration, clients of GitHub and of the
  queue*: presentation, schemas and request-response calls; the MCP server's tools
  call the same functions as the routes. The web UI is a third of the code and
  keeps no state that another process relies on.
- *Domain store, API credentials, listings*: single SQL statements.
- *Registry tokens and paths, YAML and nginx text*: functions without
  state: cryptography, parsing, rendering.
- *Process supervisor and inventory*: nothing in the repository sends the
  desired state they act on.
- *Error groups, threat detection, telemetry, UI subscribers*: caches in memory
  that are lost with their process and promise nothing.
- *Docker, git, Kubernetes, PostgreSQL, Redis*: outside. What they do to the program
  is the nondeterminism of its steps; of PostgreSQL the models use that a statement
  is atomic, that a transaction's effects appear at its commit, advisory, row and
  key locks, and nothing of the isolation levels beyond READ COMMITTED.
