----------------------------- MODULE BuildChain -----------------------------
(***************************************************************************)
(* Which builds are queued, at which commit: the poller, the trigger that  *)
(* a successful build fires for the services that depend on it, the catch- *)
(* up pass, and the same-commit rule of dependency resolution.             *)
(*                                                                         *)
(* apps/worker/src/builds.ts (runPollOnce, runDependentCatchUp,            *)
(* triggerDependentBuilds, runBuild), builddeps.ts and samerepo.ts, over   *)
(* the queries of packages/db/src/queries.ts.  The queue is the one of     *)
(* module BuildQueue, seen from outside (both implement BuildTable): a     *)
(* service runs one build at a time, its builds start in order, and a      *)
(* build whose worker dies is swept and retried.  Every query is an        *)
(* action of its own: poll passes (several workers; the immediate pass of  *)
(* a start and the timed ones) and runs interleave between them.           *)
(*                                                                         *)
(* A commit is its position in the history of its branch; a service        *)
(* depends on the same services at every commit.                           *)
(***************************************************************************)
EXTENDS Integers, Sequences, FiniteSets

CONSTANTS
  Service,     \* monitored services
  Deps,        \* [Service -> SUBSET Service]: dependsOn in kaiad.yaml
  Repo,        \* [Service -> ...]: repository and branch of a service
  Locked,      \* services on a manual release cadence
  New,         \* services without a cached dependsOn: they never built
  Pass,        \* poll passes that may be in progress at once
  MaxCommit,   \* bound: commits of a branch
  MaxManual,   \* bound: builds started by hand
  MaxFaults    \* bound: crashes and failed calls

ASSUME GraphAssumption ==
  /\ Deps \in [Service -> SUBSET Service]
  /\ \A s \in Service : s \notin Deps[s]
  /\ Locked \subseteq Service /\ New \subseteq Service
ASSUME ChainBounds == MaxCommit \in Nat \ {0} /\ MaxManual \in Nat /\ MaxFaults \in Nat

VARIABLES
  head,     \* head[g]: the commit at the head of branch g, of the outside world
  builds,   \* service_builds in the order of created_at
  meta,     \* monitored_services.depends_on, cached by the last build
  runs,     \* builds some worker is working on, up to the end of the trigger
  passes,   \* poll passes
  manual,   \* builds started by hand so far
  faults    \* faults so far

vars == <<head, builds, meta, runs, passes, manual, faults>>

Commit == 1..MaxCommit
Unpinned == 0   \* git_sha = '': the head is resolved when the build runs

Row == [service : Service, sha : Commit \cup {Unpinned}, triggeredBy : {"poll", "manual"},
        status : {"queued", "running", "success", "failed", "no_pipeline"},
        reason : {"none", "error", "blocked", "orphaned"},
        retryOf : Nat,   \* no column: the orphan this row replaces, 0 if none
        met : BOOLEAN]   \* no column, history: the pass that queued this row met another one

Run == [build : Nat, at : {"pipeline", "resolve", "build", "list", "trigger"},
        todo : SUBSET Service]

\* job: the service in hand and the commit found for it, <<>> between two.
\* look: history, the polled builds of that service when its branch was looked at.
PassState == [at : {"idle", "poll", "compare", "insert", "pinned"},
              job : {<<>>} \cup (Service \X Commit), look : SUBSET Nat,
              roots : SUBSET Service, dependents : SUBSET Service]

TypeOK ==
  /\ head \in [{Repo[s] : s \in Service} -> Commit]
  /\ builds \in Seq(Row)
  /\ meta \in [Service -> SUBSET Service]
  /\ runs \subseteq Run
  /\ passes \in [Pass -> PassState]
  /\ manual \in 0..MaxManual
  /\ faults \in 0..MaxFaults

Ids == 1..Len(builds)

Fault == faults < MaxFaults /\ faults' = faults + 1

-----------------------------------------------------------------------------
(***************************************************************************)
(* What the queries return.                                                *)
(***************************************************************************)
SameRepo(a, b) == Repo[a] = Repo[b]

\* sameRepoDependencies, of a cached or of a declared dependsOn.
SameRepoDeps(s, deps) == {d \in deps[s] : SameRepo(d, s)}

BuiltAt(s, c) ==
  \E b \in Ids : builds[b].service = s /\ builds[b].sha = c /\ builds[b].status = "success"

\* Mutant: what is queued or building does not count.
LatestSuccessfulSha(s) ==
  LET built == {b \in Ids : builds[b].service = s /\ builds[b].status = "success"}
  IN IF built = {} THEN Unpinned ELSE builds[CHOOSE b \in built : \A c \in built : c <= b].sha

\* getLatestBuildSha: only what the poller queued, Unpinned if nothing.
LatestBuildSha(s) ==
  LET polled == {b \in Ids : /\ builds[b].service = s
                             /\ builds[b].triggeredBy = "poll"
                             /\ builds[b].sha # Unpinned}
  IN IF polled = {} THEN Unpinned
     ELSE builds[CHOOSE b \in polled : \A c \in polled : c <= b].sha

\* What the passes queued of s; a retry is no poll.
PolledBuilds(s) ==
  {b \in Ids : builds[b].service = s /\ builds[b].triggeredBy = "poll" /\ builds[b].retryOf = 0}

\* getLatestCommonSuccessfulSha: among the commits every dep built, the one
\* with the newest successful row; Unpinned if there is none.
LatestCommonSha(ds) ==
  LET common == {b \in Ids : /\ builds[b].service \in ds
                             /\ builds[b].status = "success"
                             /\ \A d \in ds : BuiltAt(d, builds[b].sha)}
  IN IF common = {} THEN Unpinned
     ELSE builds[CHOOSE b \in common : \A c \in common : c <= b].sha

NewRow(s, c, by, met) ==
  [service |-> s, sha |-> c, triggeredBy |-> by, status |-> "queued", reason |-> "none",
   retryOf |-> 0, met |-> met]
Queue(s, c, by) == builds' = Append(builds, NewRow(s, c, by, FALSE))

\* Mutant: a blocked build counts as a build.
CoveredByAny(s, c) == \E b \in Ids : builds[b].service = s /\ builds[b].sha = c

\* A build of s at c in any status, but for the blocked ones.
Covered(s, c) ==
  \E b \in Ids : builds[b].service = s /\ builds[b].sha = c /\ builds[b].reason # "blocked"

\* Mutant: plain enqueue.
EnqueueAgain(s, c) == Queue(s, c, "poll")

\* enqueueBuildAtShaIfMissing: one transaction under an advisory lock.
EnqueueBuildAtShaIfMissing(s, c) ==
  IF Covered(s, c) THEN UNCHANGED builds ELSE Queue(s, c, "poll")

-----------------------------------------------------------------------------
(***************************************************************************)
(* Outside: commits are pushed, and a user starts a build by hand.         *)
(***************************************************************************)
Push(g) ==
  /\ head[g] < MaxCommit
  /\ head' = [head EXCEPT ![g] = @ + 1]
  /\ UNCHANGED <<builds, meta, runs, passes, manual, faults>>

StartBuild(s) ==
  /\ manual < MaxManual
  /\ manual' = manual + 1
  /\ Queue(s, Unpinned, "manual")
  /\ UNCHANGED <<head, meta, runs, passes, faults>>

-----------------------------------------------------------------------------
(***************************************************************************)
(* runPollOnce.  A pass works on the list of services it read first; the   *)
(* query has no order, so neither have the steps.                          *)
(***************************************************************************)
PollStart(p) ==
  /\ passes[p].at = "idle"
  /\ LET dependents == {s \in Service \ Locked : SameRepoDeps(s, meta) # {}}
     IN passes' = [passes EXCEPT ![p] = [@ EXCEPT
                     !.at = "poll", !.dependents = dependents,
                     !.roots = (Service \ Locked) \ dependents]]
  /\ UNCHANGED <<head, builds, meta, runs, manual, faults>>

NextService(p) ==
  passes' = [passes EXCEPT ![p] = [@ EXCEPT !.at = "poll", !.job = <<>>, !.look = {}]]

\* git ls-remote ...
LsRemote(p, s) ==
  /\ passes[p].at = "poll" /\ s \in passes[p].roots
  /\ passes' = [passes EXCEPT ![p] = [passes[p] EXCEPT
                  !.at = "compare", !.job = <<s, head[Repo[s]]>>, !.look = PolledBuilds(s),
                  !.roots = @ \ {s}]]
  /\ UNCHANGED <<head, builds, meta, runs, manual, faults>>

\* ... getLatestBuildSha ...
Compare(p) ==
  /\ passes[p].at = "compare"
  /\ IF LatestBuildSha(passes[p].job[1]) = passes[p].job[2]
     THEN NextService(p)
     ELSE passes' = [passes EXCEPT ![p].at = "insert"]
  /\ UNCHANGED <<head, builds, meta, runs, manual, faults>>

\* ... enqueueBuild, whatever another pass queued since.
EnqueueBuild(p) ==
  LET s == passes[p].job[1] IN
  /\ passes[p].at = "insert"
  /\ builds' = Append(builds, NewRow(s, passes[p].job[2], "poll",
                                    PolledBuilds(s) # passes[p].look))
  /\ NextService(p)
  /\ UNCHANGED <<head, meta, runs, manual, faults>>

\* Mutant: no commit common to all deps goes on as the empty commit.
CatchUpUnchecked(p, s) ==
  /\ passes[p].at = "poll" /\ passes[p].roots = {} /\ s \in passes[p].dependents
  /\ passes' = [passes EXCEPT ![p] = [passes[p] EXCEPT
        !.at = "pinned", !.job = <<s, LatestCommonSha(SameRepoDeps(s, meta))>>,
        !.dependents = @ \ {s}]]
  /\ UNCHANGED <<head, builds, meta, runs, manual, faults>>

\* runDependentCatchUp, after the last service polled.
CatchUp(p, s) ==
  /\ passes[p].at = "poll" /\ passes[p].roots = {} /\ s \in passes[p].dependents
  /\ LET c == LatestCommonSha(SameRepoDeps(s, meta))
         rest == passes[p].dependents \ {s}
     IN passes' = [passes EXCEPT ![p] =
                     IF c = Unpinned THEN [@ EXCEPT !.dependents = rest]
                     ELSE [@ EXCEPT !.at = "pinned", !.job = <<s, c>>, !.dependents = rest]]
  /\ UNCHANGED <<head, builds, meta, runs, manual, faults>>

CatchUpEnqueue(p) ==
  /\ passes[p].at = "pinned"
  /\ EnqueueBuildAtShaIfMissing(passes[p].job[1], passes[p].job[2])
  /\ NextService(p)
  /\ UNCHANGED <<head, meta, runs, manual, faults>>

PollEnds(p) ==
  /\ passes[p].at = "poll" /\ passes[p].roots = {} /\ passes[p].dependents = {}
  /\ passes' = [passes EXCEPT ![p].at = "idle"]
  /\ UNCHANGED <<head, builds, meta, runs, manual, faults>>

\* A call fails: the pass goes on with the next service.
PollServiceFails(p) ==
  /\ passes[p].at \in {"compare", "insert", "pinned"}
  /\ NextService(p)
  /\ Fault
  /\ UNCHANGED <<head, builds, meta, runs, manual>>

-----------------------------------------------------------------------------
(***************************************************************************)
(* The queue, abstracted: claim, crash, sweep.                             *)
(***************************************************************************)
OfService(s, st) == {b \in Ids : builds[b].service = s /\ builds[b].status = st}

Claim(b) ==
  LET s == builds[b].service IN
  /\ b \in OfService(s, "queued") /\ OfService(s, "running") = {}
  /\ \A c \in OfService(s, "queued") : b <= c
  /\ builds' = [builds EXCEPT ![b].status = "running"]
  /\ runs' = runs \cup {[build |-> b, at |-> "pipeline", todo |-> {}]}
  /\ UNCHANGED <<head, meta, passes, manual, faults>>

\* The worker dies: a build before its end, or the trigger after it.
RunDies(r) ==
  /\ runs' = runs \ {r}
  /\ Fault
  /\ UNCHANGED <<head, builds, meta, passes, manual>>

\* Mutant: a newer build of the service does not count.
NeverSuperseded(o) == FALSE
Superseded(o) == \E n \in Ids : n > o /\ builds[n].service = builds[o].service

RetryDied(o) ==
  \E p \in Ids \ {o} : /\ builds[p].service = builds[o].service
                       /\ builds[p].sha = builds[o].sha
                       /\ builds[p].reason = "orphaned"

SweepOrphan(o) ==
  /\ builds[o].status = "running"
  /\ ~ \E r \in runs : r.build = o
  /\ LET row == [builds[o] EXCEPT !.status = "failed", !.reason = "orphaned"]
         failed == [builds EXCEPT ![o] = row]
     IN builds' = IF Superseded(o) \/ RetryDied(o) THEN failed
                  ELSE Append(failed, [row EXCEPT !.status = "queued", !.reason = "none",
                                                  !.retryOf = o, !.met = FALSE])
  /\ UNCHANGED <<head, meta, runs, passes, manual, faults>>

-----------------------------------------------------------------------------
(***************************************************************************)
(* runBuild of one claimed build.                                          *)
(***************************************************************************)
Goes(r, to) == runs' = (runs \ {r}) \cup {[r EXCEPT !.at = to]}

FinishBuild(r, st, re) ==
  builds' = [builds EXCEPT ![r.build] = [@ EXCEPT !.status = st, !.reason = re]]

Fails(r, st, re) == FinishBuild(r, st, re) /\ runs' = runs \ {r}

\* An unpinned build pins the head of its branch first.
ResolveHead(r) ==
  /\ r.at = "pipeline" /\ builds[r.build].sha = Unpinned
  /\ builds' = [builds EXCEPT ![r.build].sha = head[Repo[builds[r.build].service]]]
  /\ UNCHANGED <<head, meta, runs, passes, manual, faults>>

\* Clone, read kaiad.yaml, cache its dependsOn.
UpdateServicePipelineMeta(r) ==
  LET s == builds[r.build].service IN
  /\ r.at = "pipeline" /\ builds[r.build].sha # Unpinned
  /\ meta' = [meta EXCEPT ![s] = Deps[s]]
  /\ Goes(r, "resolve")
  /\ UNCHANGED <<head, builds, passes, manual, faults>>

\* The update of the cache fails: it is logged, and the build goes on.
UpdateMetaFails(r) ==
  /\ r.at = "pipeline" /\ builds[r.build].sha # Unpinned
  /\ Goes(r, "resolve")
  /\ Fault
  /\ UNCHANGED <<head, builds, meta, passes, manual>>

\* Mutant: the latest image of the dep will do.
DepsNeverBuilt(r) ==
  LET s == builds[r.build].service
  IN \E d \in SameRepoDeps(s, Deps) :
       ~ \E b \in Ids : builds[b].service = d /\ builds[b].status = "success"

\* resolveDeps.  A dep of this repository must have built this very commit;
\* any other must have built some commit.
DepsBlocked(r) ==
  LET s == builds[r.build].service
  IN \E d \in SameRepoDeps(s, Deps) : ~ BuiltAt(d, builds[r.build].sha)

DepsMissing(r) ==
  LET s == builds[r.build].service
  IN \E d \in Deps[s] : ~ SameRepo(d, s) /\ OfService(d, "success") = {}

ResolveDeps(r) ==
  /\ r.at = "resolve"
  /\ ~ DepsBlocked(r) /\ ~ DepsMissing(r)
  /\ Goes(r, "build")
  /\ UNCHANGED <<head, builds, meta, passes, manual, faults>>

ResolveFails(r) ==
  /\ r.at = "resolve"
  /\ \/ DepsBlocked(r) /\ Fails(r, "failed", "blocked")
     \/ DepsMissing(r) /\ Fails(r, "failed", "error")
  /\ UNCHANGED <<head, meta, passes, manual, faults>>

\* ls-remote, the clone, the pipeline or the build fails, or there is no
\* kaiad.yaml.
BuildFails(r) ==
  /\ \/ r.at \in {"pipeline", "resolve", "build"} /\ Fails(r, "failed", "error")
     \/ /\ r.at = "pipeline" /\ builds[r.build].sha # Unpinned
        /\ Fails(r, "no_pipeline", "none")
  /\ UNCHANGED <<head, meta, passes, manual, faults>>

\* The build is a success in the table; the redeploys are dispatched next.
BuildSucceeds(r) ==
  /\ r.at = "build"
  /\ FinishBuild(r, "success", "none")
  /\ Goes(r, "list")
  /\ UNCHANGED <<head, meta, passes, manual, faults>>

\* The run is over when no dependent is left.
Triggers(r, todo) ==
  runs' = (runs \ {r}) \cup
            (IF todo = {} THEN {} ELSE {[r EXCEPT !.at = "trigger", !.todo = todo]})

\* triggerDependentBuilds reads the graph ...
ListDependents(r) ==
  /\ r.at = "list"
  /\ Triggers(r, {d \in Service \ Locked : builds[r.build].service \in meta[d]})
  /\ UNCHANGED <<head, builds, meta, passes, manual, faults>>

\* ... and takes the dependents one by one.  A commit that was built stays
\* built, so looking (listServicesWithSuccessfulBuildAtSha) and queueing are
\* one step.
TriggerDependent(r, d) ==
  LET dep == builds[r.build] IN
  /\ r.at = "trigger" /\ d \in r.todo
  /\ IF ~ SameRepo(d, dep.service) THEN Queue(d, Unpinned, "manual")
     ELSE IF \A e \in SameRepoDeps(d, meta) : BuiltAt(e, dep.sha)
     THEN EnqueueBuildAtShaIfMissing(d, dep.sha)
     ELSE UNCHANGED builds
  /\ Triggers(r, r.todo \ {d})
  /\ UNCHANGED <<head, meta, passes, manual, faults>>

\* The enqueue of one dependent fails: it is logged, the next one follows.
TriggerFails(r, d) ==
  /\ r.at = "trigger" /\ d \in r.todo
  /\ Triggers(r, r.todo \ {d})
  /\ Fault
  /\ UNCHANGED <<head, builds, meta, passes, manual>>

-----------------------------------------------------------------------------
Init ==
  /\ head = [g \in {Repo[s] : s \in Service} |-> 1]
  /\ builds = <<>>
  /\ meta = [s \in Service |-> IF s \in New THEN {} ELSE Deps[s]]
  /\ runs = {}
  /\ passes = [p \in Pass |-> [at |-> "idle", job |-> <<>>, look |-> {},
                             roots |-> {}, dependents |-> {}]]
  /\ manual = 0
  /\ faults = 0

Poll(p) ==
  \/ PollStart(p) \/ Compare(p) \/ EnqueueBuild(p) \/ CatchUpEnqueue(p) \/ PollEnds(p)
  \/ \E s \in Service : LsRemote(p, s) \/ CatchUp(p, s)

Progress(r) ==
  \/ ResolveHead(r) \/ UpdateServicePipelineMeta(r)
  \/ ResolveDeps(r) \/ ResolveFails(r) \/ BuildFails(r) \/ BuildSucceeds(r)
  \/ ListDependents(r)
  \/ \E d \in Service : TriggerDependent(r, d)

Next ==
  \/ \E g \in DOMAIN head : Push(g)
  \/ \E s \in Service : StartBuild(s)
  \/ \E p \in Pass : Poll(p) \/ PollServiceFails(p)
  \/ \E b \in Ids : Claim(b) \/ SweepOrphan(b)
  \/ \E r \in runs :
       \/ Progress(r) \/ RunDies(r) \/ UpdateMetaFails(r)
       \/ \E d \in Service : TriggerFails(r, d)

Spec == Init /\ [][Next]_vars

\* Passes are timed, the queue is fair (see BuildQueue), and runs end.
FairSpec ==
  /\ Spec
  /\ \A p \in Pass : WF_vars(Poll(p))
  /\ WF_vars(\E b \in Ids : Claim(b) \/ SweepOrphan(b))
  /\ WF_vars(\E r \in runs : Progress(r))

-----------------------------------------------------------------------------
\* docs/reference/pipeline-dependencies.md, the same-commit rule: "the image
\* you consume must come from the same commit you are building, never an
\* older one".  Whatever was retried, triggered twice or started by hand, a
\* dependent that built a commit has deps that built it.
SameCommit ==
  \A b \in Ids : builds[b].status = "success" =>
    \A d \in SameRepoDeps(builds[b].service, Deps) : BuiltAt(d, builds[b].sha)

\* "Queueing is idempotent: concurrent triggers for the same service and SHA
\* produce one build": whoever queues it, two poll passes and the triggers
\* of two deps at once, a dependent gets one build per commit.  (Until it has
\* built once, a dependent is polled like any other service.)
QueuedOnce ==
  \A a, b \in Ids :
    /\ builds[a].service = builds[b].service /\ builds[a].sha = builds[b].sha
    /\ builds[a].service \notin New /\ SameRepoDeps(builds[a].service, Deps) # {}
    /\ \A i \in {a, b} : /\ builds[i].triggeredBy = "poll" /\ builds[i].retryOf = 0
                         /\ builds[i].reason # "blocked"
    => a = b

\* schema.ts on the dropped unique index: the poller dedupes in app code (read
\* the last SHA, then insert), "which is enough".  It is, unless a pass met
\* another one: between two polls of a service that each queued on what it saw,
\* the poller queues a commit once and never an older one, whatever is pushed,
\* started by hand, swept and retried.  A row whose pass overlooked what another
\* pass queued since (met) may repeat a commit or go back: passes of two workers,
\* and the first pass of a worker, are not kept apart.
PolledForward ==
  \A a, b \in Ids :
    /\ a < b
    /\ builds[a].service = builds[b].service
    /\ SameRepoDeps(builds[a].service, Deps) = {}
    /\ \A i \in {a, b} : builds[i].triggeredBy = "poll" /\ builds[i].retryOf = 0
    /\ \A n \in a+1..b : builds[n].service = builds[a].service => ~ builds[n].met
    => builds[a].sha < builds[b].sha

\* runDependentCatchUp: "back-filling older commits would deploy older code
\* after newer code".  No build of a dependent is queued at an older commit
\* than one queued before it.
NoBackFill ==
  \A a, b \in Ids :
    /\ a < b
    /\ builds[a].service = builds[b].service
    /\ builds[a].service \notin New /\ SameRepoDeps(builds[a].service, Deps) # {}
    /\ \A i \in {a, b} : builds[i].triggeredBy = "poll" /\ builds[i].retryOf = 0
    => builds[a].sha <= builds[b].sha

\* A queue that forgets nobody: once all the deps of a service have built a
\* commit, and no newer one, the service gets a build there that is not
\* blocked, though the trigger was lost or the service was blocked before.
Dependents == {s \in Service \ Locked : SameRepoDeps(s, Deps) # {}}

CaughtUp(s) ==
  \/ meta[s] # Deps[s]
  \/ \E b \in Ids : /\ builds[b].service = s /\ builds[b].reason # "blocked"
                    /\ builds[b].sha = LatestCommonSha(SameRepoDeps(s, Deps))

DependentsCatchUp ==
  \A s \in Dependents : \A c \in Commit :
    LatestCommonSha(SameRepoDeps(s, Deps)) = c
      ~> \/ LatestCommonSha(SameRepoDeps(s, Deps)) > c
         \/ CaughtUp(s)

-----------------------------------------------------------------------------
(***************************************************************************)
(* What of a row the table shows.                                          *)
(***************************************************************************)
Shown(row) ==
  [service |-> row.service,
   at |-> IF row.status \in {"queued", "running"} THEN row.status ELSE "ended"]

Table == INSTANCE BuildTable WITH rows <- [b \in Ids |-> Shown(builds[b])]

\* The queue of this module is the one of BuildQueue, seen from outside: whatever the
\* poller and the triggers queue, and whichever runs die, a build starts in its turn and
\* alone of its service, is over once, and is only asked for again when nothing newer
\* was (claimNextBuildWithinLimit, finishBuild, sweepOrphanedBuilds).
InTurn == Table!Spec
=============================================================================
