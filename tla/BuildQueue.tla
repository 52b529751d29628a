----------------------------- MODULE BuildQueue -----------------------------
(***************************************************************************)
(* The build queue of kaiad: the table service_builds, the workers that    *)
(* claim rows from it, and the sweep that recovers the builds of a worker  *)
(* that died.                                                              *)
(*                                                                         *)
(* packages/db/src/queries.ts holds the SQL, apps/worker/src/builds.ts the *)
(* scheduler of one worker process (createDrainScheduler) and the run of   *)
(* one claimed build (runClaimedBuild, runBuild).  Any number of worker    *)
(* processes share the table.  Every SQL statement, and every transaction  *)
(* of withTransaction, is one action; whatever runs between two awaits of  *)
(* a worker interleaves with everything else.                              *)
(*                                                                         *)
(* A row is identified by its position in the order of created_at.  Time   *)
(* is abstracted to what the sweep tests: the liveness stamp of a running  *)
(* row is "fresh", or older than BUILD_ORPHAN_STALE_SECONDS ("stale").     *)
(***************************************************************************)
EXTENDS Integers, FiniteSets, Functions

CONSTANTS
  Worker,          \* worker processes
  Service,         \* monitored services
  Sha,             \* commits a build can be pinned to
  NoSha,           \* git_sha = '': a manual build before it resolved HEAD
  Limits,          \* values max_concurrent_builds takes, a subset of 1..8
  LateHeartbeats,  \* may a live worker miss its heartbeats for longer than
                   \* the stale time (event loop stalled, database away)?
  MaxRequests,     \* bound: builds asked for from outside
  MaxFaults        \* bound: crashes, stops, late heartbeats, failed queries

ASSUME LimitsAssumption == Limits \subseteq 1..8 /\ Limits # {}
ASSUME ShaAssumption == NoSha \notin Sha
ASSUME LateAssumption == LateHeartbeats \in BOOLEAN
ASSUME BoundsAssumption == MaxRequests \in Nat /\ MaxFaults \in Nat

VARIABLES
  created,   \* number of rows ever inserted in service_builds
  builds,    \* builds[b]: the b-th row, in the order of created_at
  runs,      \* runClaimedBuild calls in progress, over all processes
  worker,    \* the scheduler state of each worker process
  setting,   \* build_worker_settings.max_concurrent_builds
  requests,  \* builds asked for so far (bounded by MaxRequests)
  faults     \* faults so far (bounded by MaxFaults)

vars == <<created, builds, runs, worker, setting, requests, faults>>

Ids == 1..created

Status == {"queued", "running", "success", "failed", "no_pipeline"}

\* failure_reason, as far as the code looks at it.
Reason == {"none", "orphaned", "blocked", "error"}

\* "retryOf" is no column: it names the orphan a row was inserted to replace,
\* 0 for a row that was asked for.  The branch and triggered_by, which a
\* replacement copies too, decide nothing here.
Row == [service : Service, sha : Sha \cup {NoSha},
        status : Status, reason : Reason, stamp : {"fresh", "stale"},
        retryOf : Nat]

\* A run holds an entry of the inFlight map of its process until it settles:
\* "build" up to finishBuild, "dispatch" from there on.
Run == [build : Nat, worker : Worker, phase : {"build", "dispatch"}]

\* state: "stopping" is the flag of the same name; "down" is no process.
\* tick: where the one tick in progress is ("idle" is ticking = FALSE).
Scheduler == [state : {"up", "stopping", "down"},
              tick : {"idle", "limit", "claiming"},
              limit : Limits]

TypeOK ==
  /\ created \in Nat
  /\ builds \in [Ids -> Row]
  /\ runs \subseteq Run
  /\ worker \in [Worker -> Scheduler]
  /\ setting \in Limits
  /\ requests \in 0..MaxRequests
  /\ faults \in 0..MaxFaults

Running == {b \in Ids : builds[b].status = "running"}
Queued == {b \in Ids : builds[b].status = "queued"}
InFlight(w) == {r \in runs : r.worker = w}
SameService(a, b) == builds[a].service = builds[b].service

-----------------------------------------------------------------------------
\* A fresh queued row, as every INSERT of the code writes it.
QueuedRow(s, x, o) ==
  [service |-> s, sha |-> x, status |-> "queued",
   reason |-> "none", stamp |-> "fresh", retryOf |-> o]

Insert(r) ==
  /\ created' = created + 1
  /\ builds' = [b \in 1..(created + 1) |-> IF b = created + 1 THEN r ELSE builds[b]]

Request(r) ==
  /\ requests < MaxRequests
  /\ requests' = requests + 1
  /\ Insert(r)
  /\ UNCHANGED <<runs, worker, setting, faults>>

\* The poller: it has compared the head with getLatestBuildSha before.
EnqueueBuild(s, x) == Request(QueuedRow(s, x, 0))

\* "Start build", and dependents in another repository.
EnqueueManualBuild(s) == Request(QueuedRow(s, NoSha, 0))

\* Same-repository dependents: lock, look, insert, in one transaction.
EnqueueBuildAtShaIfMissing(s, x) ==
  /\ ~ \E b \in Ids : /\ builds[b].service = s
                      /\ builds[b].sha = x
                      /\ ~ (builds[b].status = "failed" /\ builds[b].reason = "blocked")
  /\ Request(QueuedRow(s, x, 0))

\* Mutant: the range of the value is not checked.
UnvalidatedSettings(n) ==
  /\ setting' = n - 1
  /\ UNCHANGED <<created, builds, runs, worker, requests, faults>>

UpdateBuildWorkerSettings(n) ==
  /\ setting' = n
  /\ UNCHANGED <<created, builds, runs, worker, requests, faults>>

-----------------------------------------------------------------------------
(***************************************************************************)
(* tick(): sweep the orphans, read the limit, then claim and launch while  *)
(* the process has a free slot.  Each of these awaits the database once;   *)
(* the test of the loop runs in the same turn as what precedes it, and an  *)
(* await later the claim follows.                                          *)
(***************************************************************************)
Step(w, from, to) ==
  /\ worker[w].tick = from
  /\ worker' = [worker EXCEPT ![w].tick = to]

\* Mutant: the sweep does not look at the liveness stamp.
AllRunning == Running

\* Running rows whose stamp is older than the stale time.
Orphans == {b \in Running : builds[b].stamp = "stale"}

\* The UPDATE of the sweep.
MarkOrphans ==
  [b \in Ids |-> IF b \in Orphans
                 THEN [builds[b] EXCEPT !.status = "failed", !.reason = "orphaned"]
                 ELSE builds[b]]

\* Mutant: the build supersedes itself, so no orphan is retried.
NeverRetried(o) == \E n \in Ids : n >= o /\ SameService(n, o)

\* NOT EXISTS a build of the service created after the orphan ...
Superseded(o) == \E n \in Ids : n > o /\ SameService(n, o)

\* ... and NOT EXISTS another orphan of the service at the same sha.
RetryDied(o) ==
  \E p \in Ids \ {o} : /\ SameService(p, o)
                       /\ builds[p].sha = builds[o].sha
                       /\ MarkOrphans[p].status = "failed"
                       /\ MarkOrphans[p].reason = "orphaned"

\* Mutant: a retry is retried.
RetriedAgain == {o \in Orphans : ~ Superseded(o)}

Retried == {o \in Orphans : ~ Superseded(o) /\ ~ RetryDied(o)}

\* The transaction fails the orphans and inserts one row for each of those
\* it retries.  RETURNING gives them in no particular order, and they share
\* their created_at: src is any enumeration.  Each orphan is of a service of
\* its own (OneRunningPerService), so no insert decides another's NOT EXISTS.
SweepOrphans(w) ==
  /\ worker[w].state = "up"
  /\ Step(w, "idle", "limit")
  /\ LET n == created + Cardinality(Retried)
     IN /\ created' = n
        /\ \E src \in Bijection((created + 1)..n, Retried) :
             builds' = [b \in 1..n |->
                IF b \in Ids THEN MarkOrphans[b]
                ELSE LET o == builds[src[b]]
                     IN QueuedRow(o.service, o.sha, src[b])]
  /\ UNCHANGED <<runs, setting, requests, faults>>

Fault == faults < MaxFaults /\ faults' = faults + 1

\* A sweep that fails is logged and the tick goes on.
SweepFails(w) ==
  /\ worker[w].state = "up"
  /\ Step(w, "idle", "limit")
  /\ Fault
  /\ UNCHANGED <<created, builds, runs, setting, requests>>

\* while (!stopping && inFlight.size < max): the next claim, or the end.
Loop(w, n, inFlight) ==
  IF worker[w].state = "up" /\ Cardinality(inFlight) < n THEN "claiming" ELSE "idle"

\* readLimit: the cached value if it is recent, else the row of the settings.
ReadLimit(w) ==
  /\ worker[w].tick = "limit"
  /\ \E n \in {worker[w].limit, setting} :
        worker' = [worker EXCEPT ![w].limit = n, ![w].tick = Loop(w, n, InFlight(w))]
  /\ UNCHANGED <<created, builds, runs, setting, requests, faults>>

Claimable(b) == b \in Queued /\ ~ \E r \in Running : SameService(r, b)

\* Mutant: one build too many.
UpToCap(w) == Cardinality(Running) <= worker[w].limit

BelowCap(w) == Cardinality(Running) < worker[w].limit

\* Mutant: ORDER BY created_at is missing.
ClaimsAny(w, b) == BelowCap(w) /\ Claimable(b)

\* The oldest claimable row, if the count allows one.
Claims(w, b) ==
  /\ BelowCap(w)
  /\ Claimable(b)
  /\ \A c \in Ids : Claimable(c) => b <= c

SetRunning(b) ==
  builds' = [builds EXCEPT ![b] = [@ EXCEPT !.status = "running", !.stamp = "fresh"]]

NewRun(w, b) == [build |-> b, worker |-> w, phase |-> "build"]

\* claimNextBuildWithinLimit commits a row, launch starts its run, and the
\* loop goes round.
ClaimAndLaunch(w) ==
  /\ \E b \in Ids :
       /\ Claims(w, b)
       /\ SetRunning(b)
       /\ runs' = runs \cup {NewRun(w, b)}
       /\ Step(w, "claiming", Loop(w, worker[w].limit, InFlight(w) \cup {NewRun(w, b)}))
  /\ UNCHANGED <<created, setting, requests, faults>>

\* It returns null: the cap is reached or nothing is claimable.
ClaimNothing(w) ==
  /\ Step(w, "claiming", "idle")
  /\ ~ \E b \in Ids : Claims(w, b)
  /\ UNCHANGED <<created, builds, runs, setting, requests, faults>>

\* The settings query or the transaction throws, before the commit took
\* effect or after it: the tick ends, and a committed claim has no run.
TickThrows(w) ==
  /\ \/ Step(w, "limit", "idle") /\ UNCHANGED builds
     \/ Step(w, "claiming", "idle") /\ UNCHANGED builds
     \/ Step(w, "claiming", "idle") /\ \E b \in Ids : Claims(w, b) /\ SetRunning(b)
  /\ Fault
  /\ UNCHANGED <<created, runs, setting, requests>>

-----------------------------------------------------------------------------
(***************************************************************************)
(* The run of one claimed build.  finishBuild updates the row by its id,   *)
(* whatever its status is by then; COALESCE keeps an earlier reason.       *)
(***************************************************************************)
FinishBuild(b, st, re) ==
  LET reason == IF re = "none" THEN builds[b].reason ELSE re
  IN builds' = [builds EXCEPT ![b] = [@ EXCEPT !.status = st, !.reason = reason]]

\* A manual build pins the head of its branch first.
ResolveHead(r, x) ==
  /\ r.phase = "build" /\ builds[r.build].sha = NoSha
  /\ builds' = [builds EXCEPT ![r.build].sha = x]
  /\ UNCHANGED <<created, runs, worker, setting, requests, faults>>

\* Success frees the row, but the run goes on: redeploy dispatch and the
\* trigger of the dependents.
BuildSucceeds(r) ==
  /\ r.phase = "build" /\ builds[r.build].sha # NoSha
  /\ FinishBuild(r.build, "success", "none")
  /\ runs' = (runs \ {r}) \cup {[r EXCEPT !.phase = "dispatch"]}
  /\ UNCHANGED <<created, worker, setting, requests, faults>>

\* failBuild and safelyFailBuild, a blocked dependency, a missing pipeline.
BuildEnds(r) ==
  /\ r.phase = "build"
  /\ \/ FinishBuild(r.build, "failed", "error")
     \/ /\ builds[r.build].sha # NoSha
        /\ \/ FinishBuild(r.build, "failed", "blocked")
           \/ FinishBuild(r.build, "no_pipeline", "none")
  /\ runs' = runs \ {r}
  /\ UNCHANGED <<created, worker, setting, requests, faults>>

\* The dispatch and the trigger are over (their errors are caught); the
\* rows the trigger inserts are Enqueue... steps.
RunSettles(r) ==
  /\ r.phase = "dispatch"
  /\ runs' = runs \ {r}
  /\ UNCHANGED <<created, builds, worker, setting, requests, faults>>

\* The run throws and safelyFailBuild cannot write either: it gives up.
RunGivesUp(r) ==
  /\ r.phase = "build"
  /\ runs' = runs \ {r}
  /\ Fault
  /\ UNCHANGED <<created, builds, worker, setting, requests>>

HeartbeatBuild(r) ==
  /\ builds[r.build].status = "running"
  /\ builds[r.build].stamp = "stale"
  /\ builds' = [builds EXCEPT ![r.build].stamp = "fresh"]
  /\ UNCHANGED <<created, runs, worker, setting, requests, faults>>

\* The stale time passes with no heartbeat on a running row.  A live run
\* stamps its row in time unless its heartbeats are late.
StampExpires(b) ==
  /\ b \in Running /\ builds[b].stamp = "fresh"
  /\ builds' = [builds EXCEPT ![b].stamp = "stale"]
  /\ IF \E r \in runs : r.build = b THEN LateHeartbeats /\ Fault ELSE UNCHANGED faults
  /\ UNCHANGED <<created, runs, worker, setting, requests>>

-----------------------------------------------------------------------------
(***************************************************************************)
(* The process.  stop() only sets the flag and waits for the runs, at most *)
(* BUILD_STOP_TIMEOUT_MS; then the process ends, as a crash ends it.       *)
(***************************************************************************)
StopScheduler(w) ==
  /\ worker[w].state = "up"
  /\ worker' = [worker EXCEPT ![w].state = "stopping"]
  /\ Fault
  /\ UNCHANGED <<created, builds, runs, setting, requests>>

ProcessEnds(w) ==
  /\ worker' = [worker EXCEPT ![w].state = "down", ![w].tick = "idle"]
  /\ runs' = runs \ InFlight(w)
  /\ UNCHANGED <<created, builds, setting, requests>>

Exit(w) == worker[w].state = "stopping" /\ ProcessEnds(w) /\ UNCHANGED faults
Crash(w) == worker[w].state = "up" /\ ProcessEnds(w) /\ Fault

\* startBuildLoops reads the settings before it starts the scheduler.
StartBuildLoops(w) ==
  /\ worker[w].state = "down"
  /\ worker' = [worker EXCEPT ![w] = [state |-> "up", tick |-> "idle", limit |-> setting]]
  /\ UNCHANGED <<created, builds, runs, setting, requests, faults>>

-----------------------------------------------------------------------------
Init ==
  /\ created = 0
  /\ builds = [b \in Ids |-> {}]
  /\ runs = {}
  /\ setting \in Limits
  /\ worker = [w \in Worker |-> [state |-> "up", tick |-> "idle", limit |-> setting]]
  /\ requests = 0
  /\ faults = 0

Tick(w) ==
  \/ SweepOrphans(w) \/ SweepFails(w)
  \/ ReadLimit(w)
  \/ ClaimAndLaunch(w) \/ ClaimNothing(w) \/ TickThrows(w)

RunStep(r) ==
  \/ \E x \in Sha : ResolveHead(r, x)
  \/ BuildSucceeds(r) \/ BuildEnds(r) \/ RunSettles(r) \/ RunGivesUp(r)
  \/ HeartbeatBuild(r)

Process(w) == StopScheduler(w) \/ Exit(w) \/ Crash(w) \/ StartBuildLoops(w)

Outside ==
  \/ \E s \in Service :
       \/ EnqueueManualBuild(s)
       \/ \E x \in Sha : EnqueueBuild(s, x) \/ EnqueueBuildAtShaIfMissing(s, x)
  \/ \E n \in Limits : UpdateBuildWorkerSettings(n)

Next ==
  \/ Outside
  \/ \E w \in Worker : Tick(w) \/ Process(w)
  \/ \E r \in runs : RunStep(r)
  \/ \E b \in Ids : StampExpires(b)

Spec == Init /\ [][Next]_vars

(***************************************************************************)
(* Timers drive the ticks, a supervisor restarts a process that ended, and *)
(* a build container ends: its run resolves the head, builds, dispatches.  *)
(* Heartbeats and time go on.  Requests and faults are not fair.           *)
(***************************************************************************)
Progress(r) ==
  \/ \E x \in Sha : ResolveHead(r, x)
  \/ BuildSucceeds(r) \/ BuildEnds(r) \/ RunSettles(r)

Fairness ==
  /\ \A w \in Worker :
       /\ WF_vars(SweepOrphans(w))
       /\ WF_vars(ReadLimit(w))
       /\ WF_vars(ClaimAndLaunch(w))
       /\ WF_vars(ClaimNothing(w))
       /\ WF_vars(Exit(w) \/ StartBuildLoops(w))
  /\ WF_vars(\E r \in runs : Progress(r))
  /\ WF_vars(\E b \in Ids : StampExpires(b))

FairSpec == Spec /\ Fairness
-----------------------------------------------------------------------------
(***************************************************************************)
(* What the queue promises.                                                *)
(***************************************************************************)

MaxLimit == CHOOSE n \in Limits : \A m \in Limits : m <= n

\* docs/admin/build-settings.md: several worker processes never exceed the
\* limit together, even when they race.  (The limit may be lowered while
\* builds run, so the bound is the largest limit in use.)
RunningWithinLimit == Cardinality(Running) <= MaxLimit

\* The claim skips a row while another build of its service is running.
OneRunningPerService ==
  \A a, b \in Running : SameService(a, b) => a = b

\* "The newer one waits; otherwise FIFO": within a service no build starts
\* while an older one is still queued, whatever was swept and retried.
NoOvertaking ==
  \A a, b \in Ids :
    /\ a < b
    /\ SameService(a, b)
    /\ builds[a].status = "queued"
    => builds[b].status = "queued"

\* "Lowering the limit ...: the worker simply stops claiming until enough of
\* them complete": whenever the number of running builds grows, the new
\* number is within the limit that some live process knows.
GrowthWithinKnownLimit ==
  [][Cardinality(Running') > Cardinality(Running)
     => \E w \in Worker : /\ worker[w].state # "down"
                          /\ Cardinality(Running') <= worker[w].limit]_vars

\* A run that is still building holds the row it claimed: a build is only
\* retried, and its slot only given away, when nobody works on it any more.
BuildingHoldsItsRow ==
  \A r \in runs : r.phase = "build" => r.build \in Running

\* "Two commits of one service never build concurrently", for the builds that
\* are really in progress, not for the rows that say so.
ExclusiveBuilding ==
  \A q, r \in runs :
    /\ q.phase = "build" /\ r.phase = "build"
    /\ SameService(q.build, r.build)
    => q = r

\* sweepOrphanedBuilds: a retry that dies at the commit of the build it
\* replaced is not retried again, so a build that kills its worker cannot
\* loop.
RetryDoesNotLoop ==
  \A a \in Ids :
    LET o == builds[a].retryOf IN
    (o # 0 /\ builds[o].retryOf # 0) =>
        builds[o].sha # builds[builds[o].retryOf].sha

\* A build that lost its worker is answered: the row ends, and a build of the
\* service as new as it ends with a result of its own.  Except where an orphan n
\* is not the first one of its service and commit: sweepOrphanedBuilds takes n
\* for the retry that "itself died" and asks for nothing, though the earlier
\* orphan's retry may have succeeded and n be a request of its own (build-settings.md
\* has one replacement queued unless a newer build supersedes the orphan).
Ended(b) == b \in Ids /\ builds[b].status \notin {"queued", "running"}

OrphanedBefore(n) ==
  \E p \in Ids : /\ p < n /\ SameService(p, n)
                 /\ builds[p].sha = builds[n].sha
                 /\ builds[p].reason = "orphaned"

AnsweredBy(b, n) ==
  /\ Ended(n) /\ n >= b /\ SameService(n, b)
  /\ builds[n].reason = "orphaned" => OrphanedBefore(n)

EveryBuildIsAnswered ==
  \A b \in 1..(MaxRequests + MaxFaults) :
    b \in Ids ~> Ended(b) /\ \E n \in Ids : AnsweredBy(b, n)

-----------------------------------------------------------------------------
(***************************************************************************)
(* What of a row the table shows.                                          *)
(***************************************************************************)
Shown(row) ==
  [service |-> row.service,
   at |-> IF row.status \in {"queued", "running"} THEN row.status ELSE "ended"]

Table == INSTANCE BuildTable WITH rows <- [b \in Ids |-> Shown(builds[b])]

\* Whoever claims, dies and sweeps at once, and however late a heartbeat is: a build
\* starts in its turn and alone of its service, is over once, and is only asked for
\* again when nothing newer was (claimNextBuildWithinLimit, finishBuild,
\* sweepOrphanedBuilds).
InTurn == Table!Spec
=============================================================================
