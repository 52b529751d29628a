-------------------------- MODULE BuildQueueProofs --------------------------
(***************************************************************************)
(* Proofs about the build queue, for any number of workers, services,      *)
(* commits, builds and faults, and that it implements BuildTable.          *)
(***************************************************************************)
EXTENDS BuildQueue, FiniteSetTheorems, DataLemmas

\* Every run belongs to a row that left the queue, and no row has two runs.
RunsOfStartedRows ==
  /\ \A r \in runs : r.build \in Ids /\ builds[r.build].status # "queued"
  /\ \A q, r \in runs : q.build = r.build => q = r

\* When heartbeats are never late, the sweep finds no row somebody works on.
BuildingIsFresh ==
  ~ LateHeartbeats =>
      \A r \in runs : r.phase = "build" =>
          r.build \in Running /\ builds[r.build].stamp = "fresh"

\* The inductive invariant of the queue.
QueueInv ==
  /\ TypeOK
  /\ RunsOfStartedRows
  /\ OneRunningPerService
  /\ NoOvertaking
  /\ BuildingIsFresh

-----------------------------------------------------------------------------
\* Type correctness, one lemma for each kind of step: the initial state.
LEMMA InitType == Init => TypeOK
<1> SUFFICES ASSUME Init PROVE TypeOK
  OBVIOUS
<1>1. Ids = {}
  BY DEF Init, Ids
<1>2. builds \in [Ids -> Row]
  BY <1>1 DEF Init
<1>3. worker \in [Worker -> Scheduler]
  BY DEF Init, Scheduler
<1> QED
  BY <1>2, <1>3, BoundsAssumption DEF Init, TypeOK

\* A request, or a change of the settings, keeps the state well typed.
LEMMA RequestType ==
  ASSUME TypeOK, Outside
  PROVE  TypeOK'
<1>1. CASE \E r \in Row : Request(r)
  <2> PICK r \in Row : Request(r)
    BY <1>1
  <2>1. created' = created + 1 /\ created' \in Nat
    BY DEF Request, Insert, TypeOK
  <2>2. builds' \in [Ids' -> Row]
    BY <2>1 DEF Request, Insert, TypeOK, Ids
  <2>3. requests' \in 0..MaxRequests
    BY BoundsAssumption DEF Request, TypeOK
  <2> QED
    BY <2>1, <2>2, <2>3 DEF Request, TypeOK
<1>2. \A s \in Service, x \in Sha \cup {NoSha} : QueuedRow(s, x, 0) \in Row
  BY DEF QueuedRow, Row, Status, Reason
<1>3. CASE \E n \in Limits : UpdateBuildWorkerSettings(n)
  BY <1>3 DEF UpdateBuildWorkerSettings, TypeOK, Ids
<1> QED
  BY <1>1, <1>2, <1>3
  DEF Outside, EnqueueManualBuild, EnqueueBuild, EnqueueBuildAtShaIfMissing

\* What the sweep writes: it keeps the rows, but for the mark of the orphans,
\* and appends one queued row for each orphan it retries.
LEMMA SweepType ==
  ASSUME TypeOK, NEW w \in Worker, SweepOrphans(w)
  PROVE  /\ TypeOK'
         /\ created <= created'
         /\ Retried \subseteq Ids
         /\ \A b \in Ids : builds'[b] = MarkOrphans[b]
         /\ \A b \in Ids' \ Ids : \E o \in Retried :
              builds'[b] = QueuedRow(builds[o].service, builds[o].sha, o)
<1>1. IsFiniteSet(Retried) /\ Cardinality(Retried) \in Nat
  <2>1. IsFiniteSet(Ids)
    BY FS_Interval DEF TypeOK, Ids
  <2>2. Retried \subseteq Ids
    BY DEF Retried, Orphans, Running
  <2> QED
    BY <2>1, <2>2, FS_Subset, FS_CardinalityType
<1>2. /\ created' = created + Cardinality(Retried)
      /\ created' \in Nat /\ created <= created'
  BY <1>1 DEF SweepOrphans, TypeOK
<1>3. PICK src \in Bijection((created + 1)..created', Retried) :
         builds' = [b \in 1..created' |->
                IF b \in Ids THEN MarkOrphans[b]
                ELSE LET o == builds[src[b]]
                     IN QueuedRow(o.service, o.sha, src[b])]
  BY <1>2 DEF SweepOrphans
<1>4. src \in [(created + 1)..created' -> Retried]
  BY DEF Bijection, Injection, Surjection
<1>5. Retried \subseteq Ids /\ Ids \subseteq Ids'
  <2>1. Retried \subseteq Ids
    BY DEF Retried, Orphans, Running
  <2>2. Ids \subseteq Ids'
    BY <1>2 DEF Ids, TypeOK
  <2> QED
    BY <2>1, <2>2
<1>6. \A b \in Ids : builds'[b] = MarkOrphans[b] /\ builds'[b] \in Row
  <2>1. \A b \in Ids : builds'[b] = MarkOrphans[b]
    BY <1>3, <1>5 DEF Ids
  <2>2. \A b \in Ids : MarkOrphans[b] \in Row
    BY DEF MarkOrphans, TypeOK, Row, Status, Reason
  <2> QED
    BY <2>1, <2>2
<1>7. ASSUME NEW b \in Ids' \ Ids
      PROVE  /\ src[b] \in Retried
             /\ builds'[b] = QueuedRow(builds[src[b]].service, builds[src[b]].sha, src[b])
             /\ builds'[b] \in Row
  <2>1. b \in (created + 1)..created' /\ src[b] \in Retried
    BY <1>2, <1>4, <1>7 DEF Ids, TypeOK
  <2>2. builds'[b] = QueuedRow(builds[src[b]].service, builds[src[b]].sha, src[b])
    BY <1>3, <1>7 DEF Ids
  <2>3. src[b] \in Ids
    BY <2>1, <1>5
  <2>4. builds[src[b]] \in Row
    BY <2>3 DEF TypeOK
  <2>5. src[b] \in Nat
    BY <2>3 DEF TypeOK, Ids
  <2> QED
    BY <2>1, <2>2, <2>4, <2>5 DEF QueuedRow, Row, Status, Reason
<1>8. builds' \in [Ids' -> Row]
  BY <1>3, <1>6, <1>7 DEF Ids
<1>9. worker' \in [Worker -> Scheduler]
  BY DEF SweepOrphans, Step, TypeOK, Scheduler
<1> QED
  BY <1>2, <1>5, <1>6, <1>7, <1>8, <1>9 DEF SweepOrphans, TypeOK

\* Each step of a tick keeps the state well typed.
LEMMA TickType ==
  ASSUME TypeOK, NEW w \in Worker, Tick(w)
  PROVE  TypeOK'
<1>1. CASE SweepOrphans(w)
  BY <1>1, SweepType
<1>2. CASE SweepFails(w)
  BY <1>2, BoundsAssumption
  DEF SweepFails, Step, Fault, TypeOK, Scheduler, Ids
<1>3. CASE ReadLimit(w)
  BY <1>3 DEF ReadLimit, Loop, TypeOK, Scheduler, Ids
<1>4. CASE ClaimAndLaunch(w)
  <2> PICK b \in Ids :
        /\ SetRunning(b)
        /\ runs' = runs \cup {NewRun(w, b)}
        /\ Step(w, "claiming", Loop(w, worker[w].limit, InFlight(w) \cup {NewRun(w, b)}))
    BY <1>4 DEF ClaimAndLaunch
  <2>1. builds' \in [Ids' -> Row]
    <3>1. [builds[b] EXCEPT !.status = "running", !.stamp = "fresh"] \in Row
      BY DEF TypeOK, Row, Status
    <3> QED
      BY <1>4, <3>1 DEF ClaimAndLaunch, SetRunning, TypeOK, Ids
  <2>2. runs' \subseteq Run
    BY DEF NewRun, Run, TypeOK, Ids
  <2>3. worker' \in [Worker -> Scheduler]
    BY DEF Step, Loop, TypeOK, Scheduler
  <2> QED
    BY <1>4, <2>1, <2>2, <2>3 DEF ClaimAndLaunch, TypeOK
<1>5. CASE ClaimNothing(w)
  BY <1>5 DEF ClaimNothing, Step, TypeOK, Scheduler, Ids
<1>6. CASE TickThrows(w)
  <2>1. builds' \in [Ids' -> Row]
    <3>1. \A b \in Ids : [builds[b] EXCEPT !.status = "running", !.stamp = "fresh"] \in Row
      BY DEF TypeOK, Row, Status
    <3> QED
      BY <1>6, <3>1 DEF TickThrows, SetRunning, TypeOK, Ids
  <2>2. worker' \in [Worker -> Scheduler]
    BY <1>6 DEF TickThrows, Step, TypeOK, Scheduler
  <2> QED
    BY <1>6, <2>1, <2>2, BoundsAssumption DEF TickThrows, Fault, TypeOK
<1> QED
  BY <1>1, <1>2, <1>3, <1>4, <1>5, <1>6 DEF Tick

\* Each step of a run keeps the state well typed.
LEMMA RunType ==
  ASSUME TypeOK, RunsOfStartedRows, NEW r \in runs, RunStep(r)
  PROVE  TypeOK'
<1> r.build \in Ids /\ r \in Run
  BY DEF RunsOfStartedRows, TypeOK
<1>1. ASSUME NEW x \in Sha, ResolveHead(r, x) PROVE TypeOK'
  <2>1. builds' \in [Ids' -> Row]
    <3>1. [builds[r.build] EXCEPT !.sha = x] \in Row
      BY DEF TypeOK, Row
    <3> QED
      BY <1>1, <3>1 DEF ResolveHead, TypeOK, Ids
  <2> QED
    BY <1>1, <2>1 DEF ResolveHead, TypeOK
<1>2. ASSUME NEW st \in Status, NEW re \in Reason, FinishBuild(r.build, st, re),
             created' = created
      PROVE  builds' \in [Ids' -> Row]
  <2> DEFINE reason == IF re = "none" THEN builds[r.build].reason ELSE re
  <2>1. reason \in Reason
    BY DEF TypeOK, Row
  <2>2. [builds[r.build] EXCEPT !.status = st, !.reason = reason] \in Row
    BY <2>1 DEF TypeOK, Row
  <2> QED
    BY <1>2, <2>2 DEF FinishBuild, TypeOK, Ids
<1>3. CASE BuildSucceeds(r)
  <2>1. builds' \in [Ids' -> Row]
    BY <1>2, <1>3 DEF BuildSucceeds, Status, Reason
  <2>2. runs' \subseteq Run
    BY <1>3 DEF BuildSucceeds, TypeOK, Run
  <2> QED
    BY <1>3, <2>1, <2>2 DEF BuildSucceeds, TypeOK
<1>4. CASE BuildEnds(r)
  <2>1. builds' \in [Ids' -> Row]
    BY <1>2, <1>4 DEF BuildEnds, Status, Reason
  <2> QED
    BY <1>4, <2>1 DEF BuildEnds, TypeOK
<1>5. CASE RunSettles(r)
  BY <1>5 DEF RunSettles, TypeOK, Ids
<1>6. CASE RunGivesUp(r)
  BY <1>6, BoundsAssumption DEF RunGivesUp, Fault, TypeOK, Ids
<1>7. CASE HeartbeatBuild(r)
  <2>1. builds' \in [Ids' -> Row]
    BY <1>7 DEF HeartbeatBuild, TypeOK, Ids, Row
  <2> QED
    BY <1>7, <2>1 DEF HeartbeatBuild, TypeOK
<1> QED
  BY <1>1, <1>3, <1>4, <1>5, <1>6, <1>7 DEF RunStep

\* So do the start and the end of a process ...
LEMMA ProcessType ==
  ASSUME TypeOK, NEW w \in Worker, Process(w)
  PROVE  TypeOK'
<1>1. worker' \in [Worker -> Scheduler]
  BY DEF Process, StopScheduler, Exit, Crash, ProcessEnds, StartBuildLoops,
         TypeOK, Scheduler
<1>2. runs' \subseteq Run /\ created' = created /\ builds' = builds
      /\ setting' = setting /\ requests' = requests
  BY DEF Process, StopScheduler, Exit, Crash, ProcessEnds, StartBuildLoops, TypeOK
<1>3. faults' \in 0..MaxFaults
  BY BoundsAssumption
  DEF Process, StopScheduler, Exit, Crash, ProcessEnds, StartBuildLoops, Fault, TypeOK
<1> QED
  BY <1>1, <1>2, <1>3 DEF TypeOK, Ids

\* ... and the expiry of a stamp.
LEMMA ExpiryType ==
  ASSUME TypeOK, NEW b \in Ids, StampExpires(b)
  PROVE  TypeOK'
<1>1. builds' \in [Ids' -> Row]
  BY DEF StampExpires, TypeOK, Ids, Row
<1>2. faults' \in 0..MaxFaults
  BY BoundsAssumption DEF StampExpires, Fault, TypeOK
<1> QED
  BY <1>1, <1>2 DEF StampExpires, TypeOK

-----------------------------------------------------------------------------
(***************************************************************************)
(* The rest of the invariant.  Apart from inserts, the sweep and the claim *)
(* a step leaves the rows alone or rewrites one started row.               *)
(***************************************************************************)
\* A step that leaves the table alone and starts no run keeps the invariant.
LEMMA QuietStep ==
  ASSUME QueueInv, TypeOK', created' = created, builds' = builds, runs' \subseteq runs
  PROVE  QueueInv'
BY DEF QueueInv, RunsOfStartedRows, OneRunningPerService, NoOvertaking,
       BuildingIsFresh, Running, SameService, Ids

\* A started row is rewritten: it does not start again, nor change its service.
LEMMA StartedRowStep ==
  ASSUME QueueInv, TypeOK', created' = created,
         NEW b \in Ids, NEW row \in Row,
         builds' = [builds EXCEPT ![b] = row],
         row.service = builds[b].service,
         builds[b].status # "queued", row.status # "queued",
         row.status = "running" => builds[b].status = "running",
         \A q \in runs' : \E p \in runs : q.build = p.build,
         \A p, q \in runs' : p.build = q.build => p = q,
         ~ LateHeartbeats =>
            \A q \in runs' : q.phase = "build" =>
               /\ q \in runs
               /\ q.build = b => (row.status = "running" /\ row.stamp = "fresh")
  PROVE  QueueInv'
<1> USE DEF QueueInv
<1>1. /\ Ids' = Ids
      /\ \A c \in Ids : builds'[c] = IF c = b THEN row ELSE builds[c]
  BY DEF TypeOK, Ids
<1>2. RunsOfStartedRows'
  BY <1>1 DEF RunsOfStartedRows
<1>3. OneRunningPerService'
  BY <1>1 DEF OneRunningPerService, Running, SameService
<1>4. NoOvertaking'
  BY <1>1 DEF NoOvertaking, SameService
<1>5. BuildingIsFresh'
  BY <1>1 DEF BuildingIsFresh, Running
<1> QED
  BY <1>2, <1>3, <1>4, <1>5

\* A row asked for from outside is the newest of its service, and queued.
LEMMA InsertInv ==
  ASSUME QueueInv, TypeOK', NEW r \in Row, r.status = "queued", Request(r)
  PROVE  QueueInv'
<1> USE DEF QueueInv
<1>1. /\ created \in Nat /\ created' = created + 1
      /\ Ids' = Ids \cup {created'}
      /\ created' \notin Ids /\ \A c \in Ids : c < created'
      /\ \A c \in Ids : builds'[c] = builds[c]
      /\ builds'[created'] = r
      /\ runs' = runs
  BY DEF Request, Insert, TypeOK, Ids
<1>2. RunsOfStartedRows'
  BY <1>1 DEF RunsOfStartedRows
<1>3. OneRunningPerService'
  BY <1>1 DEF OneRunningPerService, Running, SameService
<1>4. NoOvertaking'
  BY <1>1 DEF NoOvertaking, SameService, Ids
<1>5. BuildingIsFresh'
  BY <1>1 DEF BuildingIsFresh, Running
<1> QED
  BY <1>2, <1>3, <1>4, <1>5

\* Requests and settings keep the invariant.
LEMMA OutsideInv ==
  ASSUME QueueInv, Outside
  PROVE  QueueInv'
<1>1. TypeOK'
  BY RequestType DEF QueueInv
<1>2. \A s \in Service, x \in Sha \cup {NoSha} :
         QueuedRow(s, x, 0) \in Row /\ QueuedRow(s, x, 0).status = "queued"
  BY DEF QueuedRow, Row, Status, Reason
<1>3. CASE \E s \in Service, x \in Sha \cup {NoSha} : Request(QueuedRow(s, x, 0))
  BY <1>1, <1>2, <1>3, InsertInv
<1>4. CASE \E n \in Limits : UpdateBuildWorkerSettings(n)
  BY <1>1, <1>4, QuietStep DEF UpdateBuildWorkerSettings
<1> QED
  BY <1>3, <1>4
  DEF Outside, EnqueueManualBuild, EnqueueBuild, EnqueueBuildAtShaIfMissing

\* The sweep fails rows nobody builds in time, and appends queued ones.
LEMMA SweepInv ==
  ASSUME QueueInv, NEW w \in Worker, SweepOrphans(w)
  PROVE  QueueInv'
<1> USE DEF QueueInv
<1>1. /\ TypeOK' /\ created <= created' /\ created \in Nat /\ created' \in Nat
      /\ runs' = runs
      /\ \A b \in Ids' \ Ids : builds'[b].status = "queued"
  <2>1. TypeOK' /\ created <= created'
    BY SweepType
  <2>2. created \in Nat /\ created' \in Nat
    BY <2>1 DEF TypeOK
  <2>3. runs' = runs
    BY DEF SweepOrphans
  <2>4. \A b \in Ids' \ Ids : builds'[b].status = "queued"
    <3> TAKE b \in Ids' \ Ids
    <3> PICK o \in Retried : builds'[b] = QueuedRow(builds[o].service, builds[o].sha, o)
      BY SweepType
    <3> QED
      BY DEF QueuedRow
  <2> QED
    BY <2>1, <2>2, <2>3, <2>4
<1>2. \A b \in Ids : builds'[b] = MarkOrphans[b]
  BY SweepType
<1>3. \A b \in Ids :
         /\ builds'[b].service = builds[b].service
         /\ builds'[b].status = IF b \in Orphans THEN "failed" ELSE builds[b].status
         /\ builds'[b].stamp = builds[b].stamp
  <2> TAKE b \in Ids
  <2>1. builds[b] \in Row
    BY DEF TypeOK
  <2>2. builds'[b] = IF b \in Orphans
                     THEN [builds[b] EXCEPT !.status = "failed", !.reason = "orphaned"]
                     ELSE builds[b]
    BY <1>2 DEF MarkOrphans
  <2> QED
    BY <2>1, <2>2 DEF Row
<1>4. \A b \in Orphans : b \in Ids /\ builds[b].status = "running" /\ builds[b].stamp = "stale"
  BY DEF Orphans, Running
<1>5. /\ Ids \subseteq Ids'
      /\ \A a \in Ids' \ Ids, b \in Ids : b < a
  BY <1>1 DEF Ids
<1>6. RunsOfStartedRows'
  BY <1>1, <1>3, <1>5 DEF RunsOfStartedRows
<1>7. OneRunningPerService'
  BY <1>1, <1>3, <1>5 DEF OneRunningPerService, Running, SameService
<1>8. NoOvertaking'
  <2> SUFFICES ASSUME NEW a \in Ids', NEW b \in Ids', a < b, SameService(a, b)',
                      builds'[a].status = "queued"
               PROVE  builds'[b].status = "queued"
    BY DEF NoOvertaking
  <2>1. CASE b \notin Ids
    BY <1>1, <2>1
  <2>2. CASE b \in Ids
    <3>1. a \in Ids
      BY <1>5, <2>2 DEF Ids
    <3> QED
      BY <1>3, <1>4, <2>2, <3>1 DEF NoOvertaking, SameService
  <2> QED
    BY <2>1, <2>2
<1>9. BuildingIsFresh'
  BY <1>1, <1>3, <1>4, <1>5 DEF BuildingIsFresh, Running, RunsOfStartedRows
<1> QED
  BY <1>1, <1>6, <1>7, <1>8, <1>9

\* What a claim relies on: the row is the oldest claimable one, and its
\* service has no running build.
LEMMA ClaimInv ==
  ASSUME QueueInv, TypeOK', created' = created,
         NEW w \in Worker, NEW b \in Ids, Claims(w, b), SetRunning(b),
         \/ runs' = runs
         \/ runs' = runs \cup {NewRun(w, b)}
  PROVE  QueueInv'
<1> USE DEF QueueInv
<1>1. /\ Ids' = Ids
      /\ builds[b].status = "queued"
      /\ \A c \in Ids : c # b => builds'[c] = builds[c]
      /\ builds'[b].service = builds[b].service
      /\ builds'[b].status = "running" /\ builds'[b].stamp = "fresh"
  <2>1. builds[b] \in Row
    BY DEF TypeOK
  <2> QED
    BY <2>1 DEF SetRunning, Claims, Claimable, Queued, TypeOK, Ids, Row
<1>2. \A c \in Ids : SameService(c, b) => builds[c].status # "running"
  BY DEF Claims, Claimable, Running
<1>3. \A q \in runs' : q \in runs \/ q = NewRun(w, b)
  OBVIOUS
<1>4. \A q \in runs : q.build # b
  BY <1>1 DEF RunsOfStartedRows
<1>5. RunsOfStartedRows'
  BY <1>1, <1>3, <1>4 DEF RunsOfStartedRows, NewRun
<1>6. OneRunningPerService'
  BY <1>1, <1>2 DEF OneRunningPerService, Running, SameService
<1>7. NoOvertaking'
  <2> SUFFICES ASSUME NEW a \in Ids, NEW c \in Ids, a < c, SameService(a, c)',
                      builds'[a].status = "queued"
               PROVE  builds'[c].status = "queued"
    BY <1>1 DEF NoOvertaking
  <2>1. a # b /\ builds[a].status = "queued" /\ SameService(a, c)
    BY <1>1 DEF SameService
  <2>2. builds[c].status = "queued"
    BY <2>1 DEF NoOvertaking
  <2>3. c # b
    <3> SUFFICES ASSUME c = b PROVE FALSE
      OBVIOUS
    <3>1. Claimable(a)
      BY <2>1 DEF Claims, Claimable, Queued, SameService
    <3>2. b <= a
      BY <3>1 DEF Claims
    <3> QED
      BY <3>2 DEF Ids, TypeOK
  <2> QED
    BY <1>1, <2>2, <2>3
<1>8. BuildingIsFresh'
  BY <1>1, <1>3, <1>4 DEF BuildingIsFresh, Running, NewRun
<1> QED
  BY <1>5, <1>6, <1>7, <1>8

\* The sweep, the claim and the failures of a tick keep the invariant.
LEMMA TickInv ==
  ASSUME QueueInv, NEW w \in Worker, Tick(w)
  PROVE  QueueInv'
<1>1. TypeOK'
  BY TickType DEF QueueInv
<1>2. CASE SweepOrphans(w)
  BY <1>2, SweepInv
<1>3. CASE SweepFails(w) \/ ReadLimit(w) \/ ClaimNothing(w)
  BY <1>1, <1>3, QuietStep DEF SweepFails, ReadLimit, ClaimNothing
<1>4. CASE ClaimAndLaunch(w)
  BY <1>1, <1>4, ClaimInv DEF ClaimAndLaunch
<1>5. CASE TickThrows(w)
  <2>1. CASE builds' = builds
    BY <1>1, <1>5, <2>1, QuietStep DEF TickThrows
  <2>2. CASE \E b \in Ids : Claims(w, b) /\ SetRunning(b)
    BY <1>1, <1>5, <2>2, ClaimInv DEF TickThrows
  <2> QED
    BY <1>5, <2>1, <2>2 DEF TickThrows
<1> QED
  BY <1>2, <1>3, <1>4, <1>5 DEF Tick

\* finishBuild may write a row that was swept meanwhile: it is started too.
LEMMA RunInv ==
  ASSUME QueueInv, NEW r \in runs, RunStep(r)
  PROVE  QueueInv'
<1> USE DEF QueueInv
<1>1. TypeOK'
  BY RunType
<1> DEFINE b == r.build
<1>2. /\ b \in Ids /\ builds[b] \in Row /\ r \in Run
      /\ builds[b].status # "queued"
      /\ \A q \in runs : q.build = b => q = r
  BY DEF RunsOfStartedRows, TypeOK
<1>3. ASSUME NEW x \in Sha, ResolveHead(r, x) PROVE QueueInv'
  <2> DEFINE row == [builds[b] EXCEPT !.sha = x]
  <2>1. /\ row \in Row /\ row.service = builds[b].service
        /\ row.status = builds[b].status /\ row.stamp = builds[b].stamp
    BY <1>2 DEF Row
  <2>2. builds' = [builds EXCEPT ![b] = row] /\ runs' = runs /\ created' = created
    BY <1>3 DEF ResolveHead
  <2>3. ~ LateHeartbeats =>
          \A q \in runs : (q.phase = "build" /\ q.build = b) =>
             row.status = "running" /\ row.stamp = "fresh"
    BY <2>1 DEF BuildingIsFresh, Running
  <2>4. /\ \A q \in runs' : \E p \in runs : q.build = p.build
        /\ \A p, q \in runs' : p.build = q.build => p = q
        /\ ~ LateHeartbeats =>
             \A q \in runs' : q.phase = "build" =>
                /\ q \in runs
                /\ q.build = b => (row.status = "running" /\ row.stamp = "fresh")
    BY <2>2, <2>3 DEF RunsOfStartedRows
  <2>5. row.status # "queued" /\ (row.status = "running" => builds[b].status = "running")
    BY <1>2, <2>1
  <2> HIDE DEF row, b
  <2> QED
    BY <1>1, <1>2, <2>1, <2>2, <2>4, <2>5, StartedRowStep
<1>4. ASSUME NEW st \in {"success", "failed", "no_pipeline"}, NEW re \in Reason,
             FinishBuild(b, st, re), created' = created,
             runs' = runs \ {r} \/ runs' = (runs \ {r}) \cup {[r EXCEPT !.phase = "dispatch"]}
      PROVE  QueueInv'
  <2> DEFINE reason == IF re = "none" THEN builds[b].reason ELSE re
             row == [builds[b] EXCEPT !.status = st, !.reason = reason]
  <2>1. /\ row \in Row /\ row.service = builds[b].service /\ row.status = st
    BY <1>2 DEF Row, Status
  <2>2. builds' = [builds EXCEPT ![b] = row]
    BY <1>4 DEF FinishBuild
  <2>3. \A q \in runs' : \/ q \in runs /\ q # r
                         \/ q.build = b /\ q.phase = "dispatch"
                            /\ q = [r EXCEPT !.phase = "dispatch"]
    BY <1>2, <1>4 DEF Run
  <2>4. /\ \A q \in runs' : \E p \in runs : q.build = p.build
        /\ \A p, q \in runs' : p.build = q.build => p = q
        /\ \A q \in runs' : q.phase = "build" => q \in runs /\ q.build # b
    BY <1>2, <2>3 DEF RunsOfStartedRows
  <2> HIDE DEF row
  <2> QED
    BY <1>1, <1>2, <1>4, <2>1, <2>2, <2>4, StartedRowStep
<1>5. CASE BuildSucceeds(r)
  BY <1>4, <1>5 DEF BuildSucceeds, Reason
<1>6. CASE BuildEnds(r)
  BY <1>4, <1>6 DEF BuildEnds, Reason
<1>7. CASE RunSettles(r) \/ RunGivesUp(r)
  BY <1>1, <1>7, QuietStep DEF RunSettles, RunGivesUp
<1>8. CASE HeartbeatBuild(r)
  <2> DEFINE row == [builds[b] EXCEPT !.stamp = "fresh"]
  <2>1. /\ row \in Row /\ row.service = builds[b].service
        /\ row.status = "running" /\ row.stamp = "fresh"
        /\ builds[b].status = "running"
    BY <1>2, <1>8 DEF Row, HeartbeatBuild
  <2>2. builds' = [builds EXCEPT ![b] = row] /\ runs' = runs /\ created' = created
    BY <1>8 DEF HeartbeatBuild
  <2> HIDE DEF row
  <2> QED
    BY <1>1, <1>2, <2>1, <2>2, StartedRowStep DEF RunsOfStartedRows
<1> QED
  BY <1>3, <1>5, <1>6, <1>7, <1>8 DEF RunStep

\* A process that ends takes its runs with it and leaves its rows alone.
LEMMA ProcessInv ==
  ASSUME QueueInv, NEW w \in Worker, Process(w)
  PROVE  QueueInv'
<1>1. TypeOK'
  BY ProcessType DEF QueueInv
<1> QED
  BY <1>1, QuietStep
  DEF Process, StopScheduler, Exit, Crash, ProcessEnds, StartBuildLoops

\* Time makes a row stale only if nobody builds it, or heartbeats are late.
LEMMA ExpiryInv ==
  ASSUME QueueInv, NEW b \in Ids, StampExpires(b)
  PROVE  QueueInv'
<1> USE DEF QueueInv
<1>1. TypeOK'
  BY ExpiryType
<1> DEFINE row == [builds[b] EXCEPT !.stamp = "stale"]
<1>2. /\ row \in Row /\ row.service = builds[b].service
      /\ row.status = "running" /\ builds[b].status = "running"
  <2>1. builds[b] \in Row
    BY DEF TypeOK
  <2> QED
    BY <2>1 DEF Row, StampExpires, Running
<1>3. builds' = [builds EXCEPT ![b] = row] /\ runs' = runs /\ created' = created
  BY DEF StampExpires
<1>4. ~ LateHeartbeats => \A q \in runs : q.build # b
  BY DEF StampExpires
<1> HIDE DEF row
<1> QED
  BY <1>1, <1>2, <1>3, <1>4, StartedRowStep DEF RunsOfStartedRows

-----------------------------------------------------------------------------
\* The empty table satisfies the invariant.
LEMMA QueueInvInit == Init => QueueInv
<1> SUFFICES ASSUME Init PROVE QueueInv
  OBVIOUS
<1>1. Ids = {} /\ runs = {}
  BY DEF Init, Ids
<1> QED
  BY <1>1, InitType
  DEF QueueInv, RunsOfStartedRows, OneRunningPerService, NoOvertaking,
      BuildingIsFresh, Running

\* Every step keeps the invariant.
LEMMA QueueInvStep == QueueInv /\ [Next]_vars => QueueInv'
<1> SUFFICES ASSUME QueueInv, [Next]_vars PROVE QueueInv'
  OBVIOUS
<1>1. CASE UNCHANGED vars
  <2>1. TypeOK'
    BY <1>1 DEF QueueInv, TypeOK, Ids, vars
  <2> QED
    BY <1>1, <2>1, QuietStep DEF vars
<1> QED
  BY <1>1, OutsideInv, TickInv, ProcessInv, RunInv, ExpiryInv DEF Next

\* The inductive invariant of the queue holds in every reachable state.
THEOREM QueueInvariant == Spec => []QueueInv
BY QueueInvInit, QueueInvStep, PTL DEF Spec

\* The state of the queue is well typed in every reachable state.
THEOREM TypeCorrect == Spec => []TypeOK
<1>1. QueueInv => TypeOK
  BY DEF QueueInv
<1> QED
  BY <1>1, QueueInvariant, PTL

\* No two rows of a service are ever running at once: the claim skips the
\* rows of a service that builds, and the sweep and the zombies of
\* finishBuild never put a row back to work.
THEOREM OneRunning == Spec => []OneRunningPerService
<1>1. QueueInv => OneRunningPerService
  BY DEF QueueInv
<1> QED
  BY <1>1, QueueInvariant, PTL

\* Within a service builds start in the order they were asked for.
THEOREM Fifo == Spec => []NoOvertaking
<1>1. QueueInv => NoOvertaking
  BY DEF QueueInv
<1> QED
  BY <1>1, QueueInvariant, PTL

\* If no live worker lets its heartbeats lapse, what somebody builds is
\* running in the table: no sweep takes the row of a build that goes on.
THEOREM HoldsItsRow == ~ LateHeartbeats => (Spec => []BuildingHoldsItsRow)
<1> SUFFICES ASSUME ~ LateHeartbeats PROVE Spec => []BuildingHoldsItsRow
  OBVIOUS
<1>1. QueueInv => BuildingHoldsItsRow
  BY DEF QueueInv, BuildingIsFresh, BuildingHoldsItsRow
<1> QED
  BY <1>1, QueueInvariant, PTL

\* Under the same hypothesis two commits of a service are never built at once.
\* Without it this is false: the sweep fails and retries a build that goes on.
THEOREM Exclusive == ~ LateHeartbeats => (Spec => []ExclusiveBuilding)
<1> SUFFICES ASSUME ~ LateHeartbeats PROVE Spec => []ExclusiveBuilding
  OBVIOUS
<1>1. QueueInv => ExclusiveBuilding
  BY DEF QueueInv, BuildingIsFresh, ExclusiveBuilding, OneRunningPerService, RunsOfStartedRows
<1> QED
  BY <1>1, QueueInvariant, PTL

-----------------------------------------------------------------------------
(***************************************************************************)
(* The limit.  Only a claim makes the set of running rows grow, and it     *)
(* counts them in the transaction that adds one.                           *)
(***************************************************************************)
DownIsIdle == \A w \in Worker : worker[w].state = "down" => worker[w].tick = "idle"

\* A process that is down has no tick in progress.
LEMMA DownIsIdleStep ==
  ASSUME TypeOK, DownIsIdle, [Next]_vars
  PROVE  DownIsIdle'
<1> SUFFICES ASSUME NEW v \in Worker, worker'[v].state = "down"
             PROVE  worker'[v].tick = "idle"
  BY DEF DownIsIdle
<1> USE DEF TypeOK, Scheduler
<1>1. CASE worker' = worker
  BY <1>1 DEF DownIsIdle
<1>2. ASSUME NEW w \in Worker, Tick(w) PROVE worker'[v].tick = "idle"
  <2>1. worker'[v].state = worker[v].state /\ (v # w => worker'[v] = worker[v])
    <3>1. ASSUME NEW from, NEW to, Step(w, from, to)
          PROVE  worker'[v].state = worker[v].state /\ (v # w => worker'[v] = worker[v])
      BY <3>1 DEF Step
    <3>2. CASE ReadLimit(w)
      BY <3>2 DEF ReadLimit
    <3> QED
      BY <1>2, <3>1, <3>2
      DEF Tick, SweepOrphans, SweepFails, ClaimAndLaunch, ClaimNothing, TickThrows
  <2>2. v = w => worker[v].state # "down"
    BY <1>2 DEF Tick, SweepOrphans, SweepFails, ReadLimit, ClaimAndLaunch,
                ClaimNothing, TickThrows, Step, DownIsIdle
  <2> QED
    BY <2>1, <2>2 DEF DownIsIdle
<1>3. ASSUME NEW w \in Worker, Process(w) PROVE worker'[v].tick = "idle"
  BY <1>3 DEF Process, StopScheduler, Exit, Crash, ProcessEnds, StartBuildLoops,
              DownIsIdle
<1>4. Outside => worker' = worker
  BY DEF Outside, EnqueueManualBuild, EnqueueBuild, EnqueueBuildAtShaIfMissing,
         Request, UpdateBuildWorkerSettings
<1>5. ASSUME NEW r \in runs, RunStep(r) PROVE worker' = worker
  BY <1>5 DEF RunStep, ResolveHead, BuildSucceeds, BuildEnds, RunSettles,
              RunGivesUp, HeartbeatBuild
<1>6. ASSUME NEW b \in Ids, StampExpires(b) PROVE worker' = worker
  BY <1>6 DEF StampExpires
<1> QED
  BY <1>1, <1>2, <1>3, <1>4, <1>5, <1>6 DEF Next, vars

Grows(w, b) ==
  /\ Claims(w, b)
  /\ worker[w].state # "down"
  /\ Running' = Running \cup {b}

\* Rewriting one row so that it does not start adds nothing to Running.
LEMMA StartedRowShrinks ==
  ASSUME TypeOK, created' = created, NEW b \in Ids,
         \A c \in Ids : c # b => builds'[c] = builds[c],
         builds'[b].status = "running" => builds[b].status = "running"
  PROVE  Running' \subseteq Running
BY DEF Running, Ids

\* Only a claim, made by a process that is not down, adds a running row.
LEMMA RunningStep ==
  ASSUME QueueInv, DownIsIdle, [Next]_vars
  PROVE  \/ Running' \subseteq Running
         \/ \E w \in Worker, b \in Ids : Grows(w, b)
<1> TypeOK
  BY DEF QueueInv
<1>1. UNCHANGED <<created, builds>> => Running' \subseteq Running
  BY DEF Running, Ids
<1>2. CASE Outside
  <2>1. ASSUME NEW s \in Service, NEW x \in Sha \cup {NoSha}, Request(QueuedRow(s, x, 0))
        PROVE  Running' \subseteq Running
    <3>1. /\ Ids' = Ids \cup {created'}
          /\ \A c \in Ids : builds'[c] = builds[c]
      BY <2>1 DEF Request, Insert, TypeOK, Ids
    <3>2. builds'[created'].status = "queued"
      BY <2>1 DEF Request, Insert, QueuedRow, TypeOK
    <3> QED
      BY <3>1, <3>2 DEF Running
  <2> QED
    BY <1>1, <1>2, <2>1
    DEF Outside, EnqueueManualBuild, EnqueueBuild, EnqueueBuildAtShaIfMissing,
        UpdateBuildWorkerSettings
<1>3. ASSUME NEW w \in Worker, Tick(w)
      PROVE  Running' \subseteq Running \/ \E b \in Ids : Grows(w, b)
  <2>1. CASE SweepOrphans(w)
    <3>1. \A b \in Ids : builds'[b] = MarkOrphans[b]
      BY <2>1, SweepType
    <3>2. \A b \in Ids' \ Ids : builds'[b].status # "running"
      <4> TAKE b \in Ids' \ Ids
      <4> PICK o \in Retried : builds'[b] = QueuedRow(builds[o].service, builds[o].sha, o)
        BY <2>1, SweepType
      <4> QED
        BY DEF QueuedRow
    <3>3. \A b \in Ids : MarkOrphans[b].status = "running" => builds[b].status = "running"
      <4> TAKE b \in Ids
      <4>1. MarkOrphans[b] = IF b \in Orphans
                     THEN [builds[b] EXCEPT !.status = "failed", !.reason = "orphaned"]
                     ELSE builds[b]
        BY DEF MarkOrphans
      <4>2. builds[b] \in Row
        BY DEF TypeOK
      <4> QED
        BY <4>1, <4>2 DEF Row
    <3> QED
      BY <3>1, <3>2, <3>3 DEF Running
  <2>2. ASSUME NEW b \in Ids, Claims(w, b), SetRunning(b), created' = created,
               worker[w].tick = "claiming"
        PROVE  Grows(w, b)
    <3>1. builds'[b].status = "running" /\ \A c \in Ids : c # b => builds'[c] = builds[c]
      BY <2>2 DEF SetRunning, TypeOK, Row
    <3>2. Running' = Running \cup {b}
      BY <2>2, <3>1 DEF Running, Ids
    <3> QED
      BY <2>2, <3>2 DEF Grows, DownIsIdle
  <2>3. CASE ClaimAndLaunch(w)
    BY <2>2, <2>3 DEF ClaimAndLaunch, Step
  <2>4. CASE TickThrows(w)
    BY <1>1, <2>2, <2>4 DEF TickThrows, Step
  <2> QED
    BY <1>1, <1>3, <2>1, <2>3, <2>4 DEF Tick, SweepFails, ReadLimit, ClaimNothing
<1>4. ASSUME NEW w \in Worker, Process(w) PROVE Running' \subseteq Running
  BY <1>1, <1>4 DEF Process, StopScheduler, Exit, Crash, ProcessEnds, StartBuildLoops
<1>5. ASSUME NEW r \in runs, RunStep(r) PROVE Running' \subseteq Running
  <2> DEFINE b == r.build
  <2>1. b \in Ids /\ builds[b] \in Row
    BY DEF QueueInv, RunsOfStartedRows, TypeOK
  <2>2. /\ created' = created
        /\ \A c \in Ids : c # b => builds'[c] = builds[c]
    BY <1>5, <2>1 DEF RunStep, ResolveHead, BuildSucceeds, BuildEnds, FinishBuild,
       RunSettles, RunGivesUp, HeartbeatBuild, TypeOK
  <2>3. builds'[b].status = "running" => builds[b].status = "running"
    <3>1. ASSUME NEW st \in {"success", "failed", "no_pipeline"}, NEW re,
                 FinishBuild(b, st, re)
          PROVE  builds'[b].status # "running"
      BY <2>1, <3>1 DEF FinishBuild, TypeOK, Row
    <3>2. ASSUME NEW x \in Sha, ResolveHead(r, x)
          PROVE  builds'[b].status = builds[b].status
      BY <2>1, <3>2 DEF ResolveHead, TypeOK, Row
    <3> QED
      BY <1>5, <3>1, <3>2 DEF RunStep, BuildSucceeds, BuildEnds, RunSettles,
         RunGivesUp, HeartbeatBuild
  <2> QED
    BY <2>1, <2>2, <2>3, StartedRowShrinks
<1>6. ASSUME NEW b \in Ids, StampExpires(b) PROVE Running' \subseteq Running
  <2>1. /\ created' = created
        /\ \A c \in Ids : c # b => builds'[c] = builds[c]
        /\ builds[b].status = "running"
    BY <1>6 DEF StampExpires, Running, TypeOK
  <2> QED
    BY <2>1, StartedRowShrinks
<1> QED
  BY <1>1, <1>2, <1>3, <1>4, <1>5, <1>6 DEF Next, vars

\* The running rows can be counted.
LEMMA RunningFinite ==
  ASSUME TypeOK
  PROVE  IsFiniteSet(Running) /\ Cardinality(Running) \in Nat
<1>1. IsFiniteSet(Ids)
  BY FS_Interval DEF TypeOK, Ids
<1>2. Running \subseteq Ids
  BY DEF Running
<1> QED
  BY <1>1, <1>2, FS_Subset, FS_CardinalityType

\* What one step does to the number of running rows.
LEMMA CountStep ==
  ASSUME QueueInv, DownIsIdle, [Next]_vars
  PROVE  \/ Cardinality(Running') <= Cardinality(Running)
         \/ \E w \in Worker : /\ worker[w].state # "down"
                              /\ Cardinality(Running') <= worker[w].limit
<1> TypeOK
  BY DEF QueueInv
<1>1. IsFiniteSet(Running) /\ Cardinality(Running) \in Nat
  BY RunningFinite
<1>2. CASE Running' \subseteq Running
  BY <1>1, <1>2, FS_Subset
<1>3. ASSUME NEW w \in Worker, NEW b \in Ids, Grows(w, b)
      PROVE  worker[w].state # "down" /\ Cardinality(Running') <= worker[w].limit
  <2>1. b \notin Running
    BY <1>3 DEF Grows, Claims, Claimable, Queued, Running
  <2>2. Cardinality(Running') = Cardinality(Running) + 1
    BY <1>1, <1>3, <2>1, FS_AddElement DEF Grows
  <2>3. worker[w].limit \in Int
    <3>1. worker[w].limit \in Limits
      BY DEF TypeOK, Scheduler
    <3>2. \A n \in Limits : n \in Int
      BY LimitsAssumption
    <3> QED
      BY <3>1, <3>2
  <2> QED
    BY <1>1, <1>3, <2>2, <2>3 DEF Grows, Claims, BelowCap
<1> QED
  BY <1>2, <1>3, RunningStep

\* The limits are among 1..8, so one of them is the largest.
LEMMA MaxLimitIsMax ==
  MaxLimit \in Limits /\ \A n \in Limits : n <= MaxLimit
<1>1. \E n \in Limits : \A m \in Limits : m <= n
  <2> SUFFICES ASSUME \A n \in Limits : \E m \in Limits : ~ (m <= n) PROVE FALSE
    OBVIOUS
  <2>1. 8 \notin Limits
    BY LimitsAssumption
  <2>2. 7 \notin Limits
    BY <2>1, LimitsAssumption
  <2>3. 6 \notin Limits
    BY <2>1, <2>2, LimitsAssumption
  <2>4. 5 \notin Limits
    BY <2>1, <2>2, <2>3, LimitsAssumption
  <2>5. 4 \notin Limits
    BY <2>1, <2>2, <2>3, <2>4, LimitsAssumption
  <2>6. 3 \notin Limits
    BY <2>1, <2>2, <2>3, <2>4, <2>5, LimitsAssumption
  <2>7. 2 \notin Limits
    BY <2>1, <2>2, <2>3, <2>4, <2>5, <2>6, LimitsAssumption
  <2>8. 1 \notin Limits
    BY <2>1, <2>2, <2>3, <2>4, <2>5, <2>6, <2>7, LimitsAssumption
  <2>9. PICK n : n \in Limits /\ n \in 1..8
    BY LimitsAssumption
  <2>10. n = 1 \/ n = 2 \/ n = 3 \/ n = 4 \/ n = 5 \/ n = 6 \/ n = 7 \/ n = 8
    BY <2>9
  <2> QED
    BY <2>1, <2>2, <2>3, <2>4, <2>5, <2>6, <2>7, <2>8, <2>9, <2>10
<1> QED
  BY <1>1 DEF MaxLimit

CountInv == QueueInv /\ DownIsIdle /\ RunningWithinLimit

\* The number of running rows is bounded in every reachable state.
LEMMA CountInvariant == Spec => []CountInv
<1>1. Init => CountInv
  <2> SUFFICES ASSUME Init PROVE CountInv
    OBVIOUS
  <2>1. Running = {}
    BY DEF Init, Running, Ids
  <2>2. Cardinality(Running) = 0
    BY <2>1, FS_EmptySet
  <2>3. MaxLimit \in 1..8
    BY MaxLimitIsMax, LimitsAssumption
  <2> QED
    BY <2>2, <2>3, QueueInvInit DEF Init, CountInv, RunningWithinLimit, DownIsIdle
<1>2. CountInv /\ [Next]_vars => CountInv'
  <2> SUFFICES ASSUME CountInv, [Next]_vars PROVE CountInv'
    OBVIOUS
  <2>1. QueueInv' /\ DownIsIdle'
    BY QueueInvStep, DownIsIdleStep DEF CountInv, QueueInv
  <2>2. Cardinality(Running) \in Nat /\ Cardinality(Running') \in Nat
    <3>1. TypeOK /\ TypeOK'
      BY <2>1 DEF CountInv, QueueInv
    <3>2. Cardinality(Running) \in Nat
      BY <3>1, RunningFinite
    <3>3. IsFiniteSet(Running') 
      <4>1. IsFiniteSet(Ids')
        BY <3>1, FS_Interval DEF TypeOK, Ids
      <4>2. Running' \subseteq Ids'
        BY DEF Running
      <4> QED
        BY <4>1, <4>2, FS_Subset
    <3> QED
      BY <3>2, <3>3, FS_CardinalityType
  <2>3. \A w \in Worker : worker[w].limit \in Limits
    BY DEF CountInv, QueueInv, TypeOK, Scheduler
  <2>4. MaxLimit \in Int /\ \A n \in Limits : n \in Int
    BY MaxLimitIsMax, LimitsAssumption
  <2>5. Cardinality(Running') <= MaxLimit
    <3>1. \/ Cardinality(Running') <= Cardinality(Running)
          \/ \E w \in Worker : Cardinality(Running') <= worker[w].limit
      BY CountStep DEF CountInv
    <3>2. Cardinality(Running) <= MaxLimit
      BY DEF CountInv, RunningWithinLimit
    <3>3. \A w \in Worker : worker[w].limit <= MaxLimit /\ worker[w].limit \in Int
      BY <2>3, <2>4, MaxLimitIsMax
    <3> QED
      BY <2>2, <2>4, <3>1, <3>2, <3>3
  <2> QED
    BY <2>1, <2>5 DEF CountInv, RunningWithinLimit
<1> QED
  BY <1>1, <1>2, PTL DEF Spec

\* However many workers race, no more rows are running than the largest
\* limit that is ever set.
THEOREM WithinLimit == Spec => []RunningWithinLimit
<1>1. CountInv => RunningWithinLimit
  BY DEF CountInv
<1> QED
  BY <1>1, CountInvariant, PTL

\* A step that starts a build stays within the limit a live worker knows:
\* after the limit was lowered and read, nothing starts above it.
THEOREM GrowthWithinLimit == Spec => GrowthWithinKnownLimit
<1>1. CountInv /\ [Next]_vars =>
        [Cardinality(Running') > Cardinality(Running)
     => \E w \in Worker : /\ worker[w].state # "down"
                          /\ Cardinality(Running') <= worker[w].limit]_vars
  <2> SUFFICES ASSUME CountInv, [Next]_vars,
                      Cardinality(Running') > Cardinality(Running)
               PROVE  \E w \in Worker : /\ worker[w].state # "down"
                                        /\ Cardinality(Running') <= worker[w].limit
    OBVIOUS
  <2>1. CASE Cardinality(Running') <= Cardinality(Running)
    <3>1. Cardinality(Running) \in Nat
      BY RunningFinite DEF CountInv, QueueInv
    <3>2. Running' \subseteq Running \/ \E w \in Worker, b \in Ids : Grows(w, b)
      BY RunningStep DEF CountInv
    <3>3. IsFiniteSet(Running')
      BY <3>2, RunningFinite, FS_Subset, FS_AddElement DEF CountInv, QueueInv, Grows
    <3>4. Cardinality(Running') \in Nat
      BY <3>3, FS_CardinalityType
    <3> QED
      BY <2>1, <3>1, <3>4
  <2> QED
    BY <2>1, CountStep DEF CountInv
<1> QED
  BY <1>1, CountInvariant, PTL DEF Spec, GrowthWithinKnownLimit

-----------------------------------------------------------------------------
(***************************************************************************)
(* Retries.  A build that kills its worker is not retried for ever, when   *)
(* no live worker lets its heartbeats lapse.                               *)
(***************************************************************************)
\* A retry is newer than the orphan it replaces, of its service, and the
\* orphan is what the sweep made of it.
RetriesOrphan ==
  \A a \in Ids :
    LET o == builds[a].retryOf IN
    o # 0 => /\ o \in Ids /\ o < a /\ SameService(o, a)
             /\ builds[o].status = "failed" /\ builds[o].reason = "orphaned"

RetryInv == QueueInv /\ RetriesOrphan /\ RetryDoesNotLoop

\* What a step does to a row: where it came from stays, and a row that
\* failed is never written again.
RowKept(b) ==
  /\ builds'[b].service = builds[b].service
  /\ builds'[b].retryOf = builds[b].retryOf
  /\ builds[b].status = "failed" => builds'[b] = builds[b]

\* What a step adds: rows that were asked for, or retries of orphans that
\* are no retry at this commit themselves.
RowNew(a) ==
  \/ builds'[a].retryOf = 0
  \/ \E o \in Retried :
       /\ builds'[a] = QueuedRow(builds[o].service, builds[o].sha, o)
       /\ builds'[o] = MarkOrphans[o]

RowsGrow ==
  /\ Ids \subseteq Ids'
  /\ \A a \in Ids' \ Ids, b \in Ids : b < a
  /\ \A b \in Ids : RowKept(b)
  /\ \A a \in Ids' \ Ids : RowNew(a)

\* One row that had not failed is written.
LEMMA OneRowWritten ==
  ASSUME TypeOK, created' = created, NEW b \in Ids, NEW row \in Row,
         builds' = [builds EXCEPT ![b] = row],
         row.service = builds[b].service, row.retryOf = builds[b].retryOf,
         builds[b].status # "failed"
  PROVE  RowsGrow
<1>1. Ids' = Ids
  BY DEF Ids
<1>2. \A c \in Ids : builds'[c] = IF c = b THEN row ELSE builds[c]
  BY DEF TypeOK
<1> QED
  BY <1>1, <1>2 DEF RowsGrow, RowKept

\* No row is written.
LEMMA NoRowWritten ==
  ASSUME TypeOK, created' = created, builds' = builds
  PROVE  RowsGrow
BY DEF RowsGrow, RowKept, Ids

\* A request appends a row that replaces none.
LEMMA RequestGrows ==
  ASSUME TypeOK, NEW s \in Service, NEW x \in Sha \cup {NoSha},
         Request(QueuedRow(s, x, 0))
  PROVE  RowsGrow
<1>1. /\ created \in Nat /\ created' = created + 1
      /\ \A b \in 1..(created + 1) :
           builds'[b] = IF b = created + 1 THEN QueuedRow(s, x, 0) ELSE builds[b]
  BY DEF Request, Insert, TypeOK
<1>2. /\ Ids \subseteq Ids'
      /\ \A b \in Ids : b < created + 1 /\ builds'[b] = builds[b]
      /\ \A a \in Ids' \ Ids : a = created + 1
  BY <1>1 DEF Ids
<1>3. builds'[created + 1].retryOf = 0
  BY <1>1 DEF QueuedRow
<1> QED
  BY <1>2, <1>3 DEF RowsGrow, RowKept, RowNew

\* The sweep writes running rows and appends the retries.
LEMMA SweepGrows ==
  ASSUME TypeOK, NEW w \in Worker, SweepOrphans(w)
  PROVE  RowsGrow
<1>1. /\ TypeOK' /\ created <= created' /\ Retried \subseteq Ids
      /\ \A b \in Ids : builds'[b] = MarkOrphans[b]
      /\ \A b \in Ids' \ Ids : \E o \in Retried :
            builds'[b] = QueuedRow(builds[o].service, builds[o].sha, o)
  BY SweepType
<1>2. /\ Ids \subseteq Ids'
      /\ \A a \in Ids' \ Ids, b \in Ids : b < a
  <2>1. created \in Nat /\ created' \in Nat
    BY <1>1 DEF TypeOK
  <2> QED
    BY <1>1, <2>1 DEF Ids
<1>3. ASSUME NEW b \in Ids PROVE RowKept(b)
  <2>1. builds[b] \in Row
    BY DEF TypeOK
  <2>2. builds'[b] = IF b \in Orphans
                     THEN [builds[b] EXCEPT !.status = "failed", !.reason = "orphaned"]
                     ELSE builds[b]
    BY <1>1 DEF MarkOrphans
  <2>3. b \in Orphans => builds[b].status = "running"
    BY DEF Orphans, Running
  <2> QED
    BY <2>1, <2>2, <2>3 DEF RowKept, Row
<1> QED
  BY <1>1, <1>2, <1>3 DEF RowsGrow, RowNew

\* A run writes the row it holds, which runs: this is where late heartbeats
\* would let a run write to a row that was swept.
LEMMA RunGrows ==
  ASSUME QueueInv, ~ LateHeartbeats, NEW r \in runs, RunStep(r)
  PROVE  RowsGrow
<1> DEFINE b == r.build
<1>1. TypeOK /\ b \in Ids /\ builds[b] \in Row /\ r \in Run
  BY DEF QueueInv, TypeOK, RunsOfStartedRows
<1>2. r.phase = "build" => builds[b].status = "running"
  BY DEF QueueInv, BuildingIsFresh, Running
<1>3. ASSUME NEW x \in Sha, ResolveHead(r, x) PROVE RowsGrow
  <2> DEFINE row == [builds[b] EXCEPT !.sha = x]
  <2>1. row \in Row /\ row.service = builds[b].service /\ row.retryOf = builds[b].retryOf
    BY <1>1 DEF Row
  <2>2. /\ builds' = [builds EXCEPT ![b] = row] /\ created' = created
        /\ builds[b].status # "failed"
    BY <1>2, <1>3 DEF ResolveHead
  <2> HIDE DEF row, b
  <2> QED
    BY <1>1, <2>1, <2>2, OneRowWritten
<1>4. ASSUME NEW st \in {"success", "failed", "no_pipeline"}, NEW re \in Reason,
             FinishBuild(b, st, re), created' = created, r.phase = "build"
      PROVE  RowsGrow
  <2> DEFINE reason == IF re = "none" THEN builds[b].reason ELSE re
             row == [builds[b] EXCEPT !.status = st, !.reason = reason]
  <2>1. row \in Row /\ row.service = builds[b].service /\ row.retryOf = builds[b].retryOf
    BY <1>1 DEF Row, Status
  <2>2. builds' = [builds EXCEPT ![b] = row] /\ builds[b].status # "failed"
    BY <1>2, <1>4 DEF FinishBuild
  <2> HIDE DEF row, b
  <2> QED
    BY <1>1, <1>4, <2>1, <2>2, OneRowWritten
<1>5. CASE BuildSucceeds(r)
  BY <1>4, <1>5 DEF BuildSucceeds, Reason
<1>6. CASE BuildEnds(r)
  BY <1>4, <1>6 DEF BuildEnds, Reason
<1>7. CASE RunSettles(r) \/ RunGivesUp(r)
  BY <1>1, <1>7, NoRowWritten DEF RunSettles, RunGivesUp
<1>8. CASE HeartbeatBuild(r)
  <2> DEFINE row == [builds[b] EXCEPT !.stamp = "fresh"]
  <2>1. row \in Row /\ row.service = builds[b].service /\ row.retryOf = builds[b].retryOf
    BY <1>1 DEF Row
  <2>2. /\ builds' = [builds EXCEPT ![b] = row] /\ created' = created
        /\ builds[b].status # "failed"
    BY <1>8 DEF HeartbeatBuild
  <2> HIDE DEF row, b
  <2> QED
    BY <1>1, <2>1, <2>2, OneRowWritten
<1> QED
  BY <1>3, <1>5, <1>6, <1>7, <1>8 DEF RunStep

\* A claim writes a queued row.
LEMMA ClaimGrows ==
  ASSUME TypeOK, created' = created, NEW w, NEW b \in Ids, Claims(w, b), SetRunning(b)
  PROVE  RowsGrow
<1> DEFINE row == [builds[b] EXCEPT !.status = "running", !.stamp = "fresh"]
<1>1. /\ row \in Row /\ row.service = builds[b].service
      /\ row.retryOf = builds[b].retryOf
  <2>1. builds[b] \in Row
    BY DEF TypeOK
  <2> QED
    BY <2>1 DEF Row, Status
<1>2. builds' = [builds EXCEPT ![b] = row] /\ builds[b].status # "failed"
  BY DEF SetRunning, Claims, Claimable, Queued
<1> HIDE DEF row
<1> QED
  BY <1>1, <1>2, OneRowWritten

\* Every step keeps the rows that failed and adds rows of the two kinds.
LEMMA StepGrows ==
  ASSUME QueueInv, ~ LateHeartbeats, [Next]_vars
  PROVE  RowsGrow
<1> TypeOK
  BY DEF QueueInv
<1>1. CASE UNCHANGED vars
  BY <1>1, NoRowWritten DEF vars
<1>2. CASE Outside
  BY <1>2, NoRowWritten, RequestGrows
  DEF Outside, EnqueueManualBuild, EnqueueBuild, EnqueueBuildAtShaIfMissing,
      UpdateBuildWorkerSettings
<1>3. ASSUME NEW w \in Worker, Tick(w) PROVE RowsGrow
  <2>1. CASE SweepOrphans(w)
    BY <2>1, SweepGrows
  <2>2. CASE ClaimAndLaunch(w)
    BY <2>2, ClaimGrows DEF ClaimAndLaunch
  <2>3. CASE TickThrows(w)
    BY <2>3, ClaimGrows, NoRowWritten DEF TickThrows
  <2> QED
    BY <1>3, <2>1, <2>2, <2>3, NoRowWritten
    DEF Tick, SweepFails, ReadLimit, ClaimNothing
<1>4. ASSUME NEW w \in Worker, Process(w) PROVE RowsGrow
  BY <1>4, NoRowWritten
  DEF Process, StopScheduler, Exit, Crash, ProcessEnds, StartBuildLoops
<1>5. ASSUME NEW b \in Ids, StampExpires(b) PROVE RowsGrow
  <2> DEFINE row == [builds[b] EXCEPT !.stamp = "stale"]
  <2>1. row \in Row /\ row.service = builds[b].service /\ row.retryOf = builds[b].retryOf
    <3>1. builds[b] \in Row
      BY DEF TypeOK
    <3> QED
      BY <3>1 DEF Row
  <2>2. /\ builds' = [builds EXCEPT ![b] = row] /\ created' = created
        /\ builds[b].status # "failed"
    BY <1>5 DEF StampExpires, Running
  <2> HIDE DEF row
  <2> QED
    BY <2>1, <2>2, OneRowWritten
<1> QED
  BY <1>1, <1>2, <1>3, <1>4, <1>5, RunGrows DEF Next

-----------------------------------------------------------------------------
\* A row that is appended as a retry replaces an orphan of its service, and
\* if that was a retry itself, it replaced a build of another commit: at the
\* same commit the sweep would have found that its retry died.
LEMMA NewRetry ==
  ASSUME RetryInv, RowsGrow, NEW a \in Ids' \ Ids, builds'[a].retryOf # 0
  PROVE  LET o == builds'[a].retryOf
             p == builds[o].retryOf
         IN /\ o \in Ids /\ builds'[o].service = builds'[a].service
            /\ builds'[o].status = "failed" /\ builds'[o].reason = "orphaned"
            /\ p # 0 => builds'[o].sha # builds'[p].sha
<1>1. PICK o \in Retried :
         /\ builds'[a] = QueuedRow(builds[o].service, builds[o].sha, o)
         /\ builds'[o] = MarkOrphans[o]
  BY DEF RowsGrow, RowNew
<1>2. builds'[a].retryOf = o /\ builds'[a].service = builds[o].service
  BY <1>1 DEF QueuedRow
<1>3. /\ o \in Ids /\ o \in Orphans /\ builds[o] \in Row /\ ~ RetryDied(o)
  BY DEF Retried, Orphans, Running, RetryInv, QueueInv, TypeOK
<1>4. /\ builds'[o].service = builds[o].service /\ builds'[o].sha = builds[o].sha
      /\ builds'[o].status = "failed" /\ builds'[o].reason = "orphaned"
  BY <1>1, <1>3 DEF MarkOrphans, Row
<1>5. ASSUME builds[o].retryOf # 0 PROVE builds'[o].sha # builds'[builds[o].retryOf].sha
  <2> DEFINE p == builds[o].retryOf
  <2>1. /\ p \in Ids \ {o} /\ SameService(p, o)
        /\ builds[p].status = "failed" /\ builds[p].reason = "orphaned"
    <3>1. /\ p \in Ids /\ p < o /\ SameService(p, o)
          /\ builds[p].status = "failed" /\ builds[p].reason = "orphaned"
      BY <1>3, <1>5 DEF RetryInv, RetriesOrphan
    <3>2. p # o
      BY <1>3, <3>1 DEF Ids, RetryInv, QueueInv, TypeOK
    <3> QED
      BY <3>1, <3>2
  <2>2. MarkOrphans[p] = builds[p] /\ builds'[p] = builds[p]
    BY <2>1 DEF MarkOrphans, Orphans, Running, RowsGrow, RowKept
  <2> HIDE DEF p
  <2>3. builds[p].sha # builds[o].sha
    BY <1>3, <2>1, <2>2 DEF RetryDied
  <2> QED
    BY <1>4, <2>2, <2>3 DEF p
<1> QED
  BY <1>2, <1>3, <1>4, <1>5

\* Retries keep replacing orphans, and do not loop.
LEMMA RetryStep ==
  ASSUME RetryInv, QueueInv', RowsGrow
  PROVE  RetryInv'
<1>1. ASSUME NEW a \in Ids', builds'[a].retryOf # 0
      PROVE  LET o == builds'[a].retryOf
             IN /\ o \in Ids /\ o < a /\ builds'[o].service = builds'[a].service
                /\ builds'[o].status = "failed" /\ builds'[o].reason = "orphaned"
                /\ builds'[o].retryOf = builds[o].retryOf
                /\ builds[o].retryOf # 0 => builds'[o].sha # builds'[builds[o].retryOf].sha
  <2> DEFINE o == builds'[a].retryOf
             p == builds[o].retryOf
  <2>1. CASE a \in Ids
    <3>1. builds[a].retryOf = o /\ builds'[a].service = builds[a].service
      BY <2>1 DEF RowsGrow, RowKept
    <3>2. /\ o \in Ids /\ o < a /\ builds[o].service = builds[a].service
          /\ builds[o].status = "failed" /\ builds[o].reason = "orphaned"
      BY <1>1, <2>1, <3>1 DEF RetryInv, RetriesOrphan, SameService
    <3>3. builds'[o] = builds[o]
      BY <3>2 DEF RowsGrow, RowKept
    <3>4. ASSUME p # 0 PROVE builds'[o].sha # builds'[p].sha
      <4>1. p \in Ids /\ builds[p].status = "failed"
        BY <3>2, <3>4 DEF RetryInv, RetriesOrphan
      <4>2. builds'[p] = builds[p]
        BY <4>1 DEF RowsGrow, RowKept
      <4>3. builds[o].sha # builds[p].sha
        BY <1>1, <2>1, <3>1, <3>4 DEF RetryInv, RetryDoesNotLoop
      <4> QED
        BY <3>3, <4>2, <4>3
    <3> QED
      BY <3>1, <3>2, <3>3, <3>4
  <2>2. CASE a \notin Ids
    <3>1. /\ o \in Ids /\ builds'[o].service = builds'[a].service
          /\ builds'[o].status = "failed" /\ builds'[o].reason = "orphaned"
          /\ p # 0 => builds'[o].sha # builds'[p].sha
      BY <1>1, <2>2, NewRetry
    <3>2. o < a /\ builds'[o].retryOf = builds[o].retryOf
      BY <2>2, <3>1 DEF RowsGrow, RowKept
    <3> QED
      BY <3>1, <3>2
  <2> QED
    BY <2>1, <2>2
<1>2. RetriesOrphan'
  BY <1>1 DEF RetriesOrphan, SameService, RowsGrow
<1>3. RetryDoesNotLoop'
  BY <1>1 DEF RetryDoesNotLoop
<1> QED
  BY <1>2, <1>3 DEF RetryInv

\* If no live worker lets its heartbeats lapse, a retry whose worker died is
\* not retried at the commit it was to build: a build that kills its worker
\* takes two workers with it and no more.
THEOREM NoRetryLoop == ~ LateHeartbeats => (Spec => []RetryDoesNotLoop)
<1> SUFFICES ASSUME ~ LateHeartbeats PROVE Spec => []RetryDoesNotLoop
  OBVIOUS
<1>1. Init => RetryInv
  BY QueueInvInit DEF Init, Ids, RetryInv, RetriesOrphan, RetryDoesNotLoop
<1>2. RetryInv /\ [Next]_vars => RetryInv'
  BY QueueInvStep, StepGrows, RetryStep DEF RetryInv
<1>3. RetryInv => RetryDoesNotLoop
  BY DEF RetryInv
<1> QED
  BY <1>1, <1>2, <1>3, PTL DEF Spec

-----------------------------------------------------------------------------
(***************************************************************************)
(* The queue implements BuildTable.                                        *)
(***************************************************************************)
Entry == [service : Service, at : {"queued", "running", "ended"}]
Rows == [b \in Ids |-> Shown(builds[b])]
ShownStep == [Table!Next]_Table!vars

LEMMA RowsTyped ==
  ASSUME TypeOK
  PROVE  /\ Rows \in [1..created -> Entry] /\ created \in Nat /\ DOMAIN Rows = 1..created
         /\ \A b \in Ids : Rows[b] = Shown(builds[b])
<1>1. created \in Nat /\ Ids = 1..created
  BY DEF TypeOK, Ids
<1>2. \A b \in Ids : Shown(builds[b]) \in Entry
  BY DEF TypeOK, Row, Status, Shown, Entry
<1> QED
  BY <1>1, <1>2 DEF Rows

\* Nothing shows.
LEMMA NothingShown ==
  ASSUME created' = created, \A b \in Ids : Shown(builds'[b]) = Shown(builds[b])
  PROVE  ShownStep
<1>1. Ids' = Ids
  BY DEF Ids
<1>2. Rows' = Rows
  BY <1>1 DEF Rows
<1> QED
  BY <1>2 DEF Rows, ShownStep, Table!vars

LEMMA AskShown ==
  ASSUME TypeOK, NEW r \in Row, r.status = "queued", Insert(r)
  PROVE  ShownStep
<1>1. PICK f : f = Rows
  OBVIOUS
<1>2. PICK g : g = Rows'
  OBVIOUS
<1>3. /\ f \in [1..created -> Entry] /\ created \in Nat /\ Ids = 1..created
      /\ created' = created + 1 /\ Ids' = 1..(created + 1)
      /\ \A b \in Ids : f[b] = Shown(builds[b])
  BY <1>1, RowsTyped DEF Insert, Ids
<1>4. Shown(r) = Table!Waits(r.service) /\ Shown(r) \in Entry /\ r.service \in Service
  BY DEF Shown, Table!Waits, Row, Entry
<1>5. g = [b \in 1..(created + 1) |-> IF b = created + 1 THEN Shown(r) ELSE f[b]]
  <2>1. \A b \in 1..(created + 1) :
          Shown(builds'[b]) = IF b = created + 1 THEN Shown(r) ELSE f[b]
    BY <1>3 DEF Insert
  <2>2. g = [b \in 1..(created + 1) |-> Shown(builds'[b])]
    BY <1>2, <1>3 DEF Rows
  <2> QED
    BY <2>1, <2>2
<1>6. g = Append(f, Table!Waits(r.service))
  BY <1>3, <1>4, <1>5, RowsAreSeq
<1>7. Table!Ask(r.service)
  BY <1>1, <1>2, <1>6 DEF Rows, Table!Ask
<1> QED
  BY <1>4, <1>7 DEF ShownStep, Table!Next

\* One row is written.
LEMMA RowShown ==
  ASSUME TypeOK, created' = created, NEW b \in Ids, NEW row,
         builds' = [builds EXCEPT ![b] = row]
  PROVE  /\ \A c \in Ids : builds'[c] = IF c = b THEN row ELSE builds[c]
         /\ Rows' = [Rows EXCEPT ![b] = Shown(row)]
<1>1. /\ \A c \in Ids : builds'[c] = IF c = b THEN row ELSE builds[c]
      /\ Ids' = Ids
  BY DEF TypeOK, Ids
<1>2. \A c \in Ids : Shown(builds'[c]) = IF c = b THEN Shown(row) ELSE Shown(builds[c])
  BY <1>1
<1>3. PICK f : f = Rows
  OBVIOUS
<1>4. f = [c \in Ids |-> Shown(builds[c])]
  BY <1>3 DEF Rows
<1>5. Rows' = [c \in Ids |-> Shown(builds'[c])]
  BY <1>1 DEF Rows
<1>6. Rows' = [f EXCEPT ![b] = Shown(row)]
  BY <1>2, <1>4, <1>5
<1> QED
  BY <1>1, <1>3, <1>6

\* A claim starts the build whose turn it is.
LEMMA StartShown ==
  ASSUME QueueInv, created' = created,
         NEW w \in Worker, NEW b \in Ids, Claims(w, b), SetRunning(b)
  PROVE  ShownStep
<1>1. PICK f : f = Rows
  OBVIOUS
<1>2. PICK g : g = Rows'
  OBVIOUS
<1>3. /\ f \in [1..created -> Entry] /\ created \in Nat /\ Ids = 1..created /\ DOMAIN f = Ids
      /\ \A c \in Ids : f[c] = Shown(builds[c])
  BY <1>1, RowsTyped DEF QueueInv, Ids
<1>4. builds[b] \in Row /\ builds[b].status = "queued" /\ \A c \in Ids : builds[c] \in Row
  BY DEF QueueInv, TypeOK, Claims, Claimable, Queued
<1>5. g = [f EXCEPT ![b] = [f[b] EXCEPT !.at = "running"]]
  <2> DEFINE row == [builds[b] EXCEPT !.status = "running", !.stamp = "fresh"]
  <2>1. Shown(row) = [f[b] EXCEPT !.at = "running"]
    BY <1>3, <1>4 DEF Shown, Row
  <2>2. builds' = [builds EXCEPT ![b] = row]
    BY DEF SetRunning
  <2> HIDE DEF row
  <2>3. g = [f EXCEPT ![b] = Shown(row)]
    BY <1>1, <1>2, <2>2, RowShown DEF QueueInv
  <2> QED
    BY <2>1, <2>3
<1>6. ASSUME NEW c \in Ids, f[b].service = f[c].service
      PROVE  f[c].at # "running" /\ (c < b => f[c].at = "ended")
  <2>1. SameService(c, b)
    BY <1>3, <1>6 DEF Shown, SameService
  <2>2. builds[c].status # "running"
    BY <2>1 DEF Claims, Claimable, Running
  <2>3. c < b => builds[c].status # "queued"
    <3> SUFFICES ASSUME c < b, builds[c].status = "queued" PROVE FALSE
      OBVIOUS
    <3>1. Claimable(c)
      BY <2>1 DEF Claims, Claimable, Queued, SameService
    <3>2. b <= c
      BY <3>1 DEF Claims
    <3> QED
      BY <1>3, <3>2
  <2> QED
    BY <1>3, <2>2, <2>3 DEF Shown
<1>7. f[b].at = "queued"
  BY <1>3, <1>4 DEF Shown
<1>8. Table!Start(b)
  BY <1>1, <1>2, <1>3, <1>5, <1>6, <1>7 DEF Rows, Table!Start, Table!Same
<1>9. b \in DOMAIN f
  BY <1>3
<1> QED
  BY <1>1, <1>8, <1>9 DEF Rows, ShownStep, Table!Next

\* A result is written to the row of a run: the build is over, or it was already.
LEMMA EndShown ==
  ASSUME QueueInv, created' = created, NEW b \in Ids, builds[b].status # "queued",
         NEW st \in {"success", "failed", "no_pipeline"}, NEW re, FinishBuild(b, st, re)
  PROVE  ShownStep
<1>1. PICK f : f = Rows
  OBVIOUS
<1>2. PICK g : g = Rows'
  OBVIOUS
<1>3. /\ f \in [1..created -> Entry] /\ created \in Nat /\ Ids = 1..created /\ DOMAIN f = Ids
      /\ \A c \in Ids : f[c] = Shown(builds[c])
  BY <1>1, RowsTyped DEF QueueInv, Ids
<1>4. builds[b] \in Row
  BY DEF QueueInv, TypeOK
<1> DEFINE reason == IF re = "none" THEN builds[b].reason ELSE re
           row == [builds[b] EXCEPT !.status = st, !.reason = reason]
<1>5. Shown(row) = [f[b] EXCEPT !.at = "ended"] /\ Shown(row).service = Shown(builds[b]).service
  BY <1>3, <1>4 DEF Shown, Row
<1>6. builds' = [builds EXCEPT ![b] = row]
  BY DEF FinishBuild
<1> HIDE DEF row
<1>7. /\ g = [f EXCEPT ![b] = Shown(row)]
      /\ \A c \in Ids : builds'[c] = IF c = b THEN row ELSE builds[c]
  BY <1>1, <1>2, <1>6, RowShown DEF QueueInv
<1>8. CASE builds[b].status = "running"
  <2>1. f[b].at = "running"
    <3>1. f[b] = Shown(builds[b])
      BY <1>3
    <3> QED
      BY <1>8, <3>1 DEF Shown
  <2>2. g = [f EXCEPT ![b] = [f[b] EXCEPT !.at = "ended"]]
    BY <1>5, <1>7
  <2>3. Table!End(b)
    BY <1>1, <1>2, <2>1, <2>2 DEF Rows, Table!End, Table!Over
  <2>4. b \in DOMAIN f
    BY <1>3
  <2> QED
    BY <1>1, <2>3, <2>4 DEF Rows, ShownStep, Table!Next
<1>9. CASE builds[b].status # "running"
  <2>1. Shown(row) = Shown(builds[b])
    BY <1>3, <1>4, <1>5, <1>9 DEF Shown
  <2> QED
    BY <1>7, <2>1, NothingShown
<1> QED
  BY <1>8, <1>9

\* The sweep recovers the orphans, and asks again for those it retries.
LEMMA RecoverShown ==
  ASSUME QueueInv, NEW w \in Worker, SweepOrphans(w)
  PROVE  ShownStep
<1>1. PICK f : f = Rows
  OBVIOUS
<1>2. PICK g : g = Rows'
  OBVIOUS
<1>3. /\ f \in [1..created -> Entry] /\ created \in Nat /\ Ids = 1..created /\ DOMAIN f = Ids
      /\ \A c \in Ids : f[c] = Shown(builds[c]) /\ builds[c] \in Row
  BY <1>1, RowsTyped DEF QueueInv, TypeOK, Ids
<1>4. Len(f) = created
  BY <1>3, RowsAreSeq
<1>5. PICK n : n = created + Cardinality(Retried)
  OBVIOUS
<1>6. PICK of \in Bijection((created + 1)..n, Retried) :
        builds' = [b \in 1..n |->
                IF b \in Ids THEN MarkOrphans[b]
                ELSE LET o == builds[of[b]]
                     IN QueuedRow(o.service, o.sha, of[b])]
  BY <1>5 DEF SweepOrphans
<1>7. created' = n /\ Ids' = 1..n /\ n \in Nat
  BY <1>5, SweepType DEF SweepOrphans, QueueInv, TypeOK, Ids
<1>8. Retried \subseteq Orphans /\ Orphans \subseteq Ids
  BY DEF Retried, Orphans, Running
<1>9. of \in [(created + 1)..n -> Retried]
  BY <1>6 DEF Bijection, Injection, Surjection
<1>10. g = [b \in 1..n |-> Shown(builds'[b])]
  BY <1>2, <1>7 DEF Rows
<1>11. ASSUME NEW b \in 1..n
       PROVE  Shown(builds'[b]) =
                IF b \notin DOMAIN f THEN Table!Waits(f[of[b]].service)
                ELSE IF b \in Orphans THEN Table!Over(f[b]) ELSE f[b]
  <2>1. CASE b \notin Ids
    <3>1. of[b] \in Ids
      <4>1. created \in Nat /\ Ids = 1..created
        BY <1>3
      <4>2. b \in (created + 1)..n
        BY <1>7, <2>1, <4>1
      <4>3. of[b] \in Retried
        BY <1>9, <4>2
      <4> QED
        BY <1>8, <4>3
    <3>2. builds'[b] = QueuedRow(builds[of[b]].service, builds[of[b]].sha, of[b])
      BY <1>6, <2>1
    <3>3. Shown(builds'[b]) = Table!Waits(builds[of[b]].service)
      BY <3>2 DEF Shown, QueuedRow, Table!Waits
    <3>4. f[of[b]].service = builds[of[b]].service
      BY <1>3, <3>1 DEF Shown
    <3> QED
      BY <1>3, <2>1, <3>3, <3>4
  <2>2. CASE b \in Ids
    <3>1. builds'[b] = IF b \in Orphans
                       THEN [builds[b] EXCEPT !.status = "failed", !.reason = "orphaned"]
                       ELSE builds[b]
      BY <1>6, <2>2 DEF MarkOrphans
    <3>2. CASE b \in Orphans
      <4>1. Shown(builds'[b]) = [service |-> builds[b].service, at |-> "ended"]
        BY <1>3, <2>2, <3>1, <3>2 DEF Shown, Row
      <4>2. Table!Over(f[b]) = [service |-> builds[b].service, at |-> "ended"]
        BY <1>3, <2>2 DEF Shown, Table!Over
      <4> QED
        BY <1>3, <2>2, <3>2, <4>1, <4>2
    <3>3. CASE b \notin Orphans
      BY <1>3, <2>2, <3>1, <3>3
    <3> QED
      BY <3>2, <3>3
  <2> QED
    BY <2>1, <2>2
<1>12. g = [b \in 1..n |-> IF b \notin DOMAIN f THEN Table!Waits(f[of[b]].service)
                           ELSE IF b \in Orphans THEN Table!Over(f[b]) ELSE f[b]]
  BY <1>10, <1>11
<1>13. \A b \in Orphans : f[b].at = "running"
  BY <1>3, <1>8 DEF Orphans, Running, Shown
<1>14. \A b \in Retried, c \in DOMAIN f : b < c => f[b].service # f[c].service
  <2> SUFFICES ASSUME NEW b \in Retried, NEW c \in Ids, b < c, f[b].service = f[c].service
               PROVE  FALSE
    BY <1>3
  <2>1. b \in Ids /\ ~ Superseded(b)
    BY <1>8 DEF Retried
  <2>2. SameService(c, b) /\ c > b
    BY <1>3, <2>1 DEF Shown, SameService
  <2> QED
    BY <2>1, <2>2 DEF Superseded
<1>15. g = Table!Recovered(Orphans, of, n)
  <2>1. f = [b \in Ids |-> Shown(builds[b])]
    BY <1>1 DEF Rows
  <2> QED
    BY <1>12, <2>1 DEF Table!Recovered
<1>16. Table!Recover(Orphans, Retried)
  <2>1. \E src \in Bijection((Len(f) + 1)..(Len(f) + Cardinality(Retried)), Retried) :
          g = Table!Recovered(Orphans, src, Len(f) + Cardinality(Retried))
    BY <1>4, <1>5, <1>6, <1>15
  <2>2. \E src \in Bijection((Len(Rows) + 1)..(Len(Rows) + Cardinality(Retried)), Retried) :
          Rows' = Table!Recovered(Orphans, src, Len(Rows) + Cardinality(Retried))
    BY <1>1, <1>2, <2>1, Zenon
  <2>3. /\ \A b \in Orphans : Rows[b].at = "running"
        /\ \A b \in Retried, c \in DOMAIN Rows : b < c => Rows[b].service # Rows[c].service
    BY <1>1, <1>13, <1>14
  <2>4. Table!Cardinality(Retried) = Cardinality(Retried)
    BY Zenon DEF Cardinality, Table!Cardinality
  <2>5. \A S, T : Table!Bijection(S, T) = Bijection(S, T)
    BY Zenon DEF Bijection, Table!Bijection, Injection, Table!Injection, Surjection,
      Table!Surjection, IsInjective, Table!IsInjective
  <2> QED
    BY <2>2, <2>3, <2>4, <2>5, Zenon DEF Rows, Table!Recover, Table!Same
<1>17. Orphans \in SUBSET DOMAIN f /\ Retried \in SUBSET Orphans
  BY <1>3, <1>8
<1> QED
  BY <1>1, <1>16, <1>17 DEF Rows, ShownStep, Table!Next

LEMMA RunShown ==
  ASSUME QueueInv, NEW r \in runs, RunStep(r)
  PROVE  ShownStep
<1> DEFINE b == r.build
<1>1. b \in Ids /\ builds[b] \in Row /\ builds[b].status # "queued"
  BY DEF QueueInv, RunsOfStartedRows, TypeOK
<1>2. ASSUME NEW row, created' = created, builds' = [builds EXCEPT ![b] = row],
             Shown(row) = Shown(builds[b])
      PROVE  ShownStep
  <2>1. \A c \in Ids : builds'[c] = IF c = b THEN row ELSE builds[c]
    BY <1>1, <1>2, RowShown DEF QueueInv
  <2> QED
    BY <1>2, <2>1, NothingShown
<1>3. ASSUME NEW x \in Sha, ResolveHead(r, x) PROVE ShownStep
  <2> DEFINE row == [builds[b] EXCEPT !.sha = x]
  <2>1. Shown(row) = Shown(builds[b])
    BY <1>1 DEF Shown, Row
  <2>2. created' = created /\ builds' = [builds EXCEPT ![b] = row]
    BY <1>3 DEF ResolveHead
  <2> QED
    BY <1>2, <2>1, <2>2
<1>4. CASE BuildSucceeds(r)
  BY <1>1, <1>4, EndShown DEF BuildSucceeds
<1>5. CASE BuildEnds(r)
  BY <1>1, <1>5, EndShown DEF BuildEnds
<1>6. CASE RunSettles(r) \/ RunGivesUp(r)
  BY <1>6, NothingShown DEF RunSettles, RunGivesUp
<1>7. CASE HeartbeatBuild(r)
  <2> DEFINE row == [builds[b] EXCEPT !.stamp = "fresh"]
  <2>1. Shown(row) = Shown(builds[b])
    BY <1>1 DEF Shown, Row
  <2>2. created' = created /\ builds' = [builds EXCEPT ![b] = row]
    BY <1>7 DEF HeartbeatBuild
  <2> QED
    BY <1>2, <2>1, <2>2
<1> QED
  BY <1>3, <1>4, <1>5, <1>6, <1>7 DEF RunStep

LEMMA TickShown ==
  ASSUME QueueInv, NEW w \in Worker, Tick(w)
  PROVE  ShownStep
<1>1. ASSUME UNCHANGED <<created, builds>> PROVE ShownStep
  BY <1>1, NothingShown
<1>2. CASE SweepOrphans(w)
  BY <1>2, RecoverShown
<1>3. CASE SweepFails(w) \/ ReadLimit(w) \/ ClaimNothing(w)
  BY <1>1, <1>3 DEF SweepFails, ReadLimit, ClaimNothing
<1>4. CASE ClaimAndLaunch(w)
  BY <1>4, StartShown DEF ClaimAndLaunch
<1>5. CASE TickThrows(w)
  BY <1>1, <1>5, StartShown DEF TickThrows
<1> QED
  BY <1>2, <1>3, <1>4, <1>5 DEF Tick

LEMMA StepShown ==
  ASSUME QueueInv, [Next]_vars
  PROVE  ShownStep
<1>1. ASSUME UNCHANGED <<created, builds>> PROVE ShownStep
  BY <1>1, NothingShown
<1>2. CASE Outside
  <2>1. \A s \in Service, x \in Sha \cup {NoSha} :
          QueuedRow(s, x, 0) \in Row /\ QueuedRow(s, x, 0).status = "queued"
    BY DEF QueuedRow, Row, Status, Reason
  <2>2. CASE \E n \in Limits : UpdateBuildWorkerSettings(n)
    BY <1>1, <2>2 DEF UpdateBuildWorkerSettings
  <2>3. CASE \E s \in Service, x \in Sha \cup {NoSha} : Request(QueuedRow(s, x, 0))
    BY <2>1, <2>3, AskShown DEF Request, QueueInv
  <2> QED
    BY <1>2, <2>2, <2>3
    DEF Outside, EnqueueManualBuild, EnqueueBuild, EnqueueBuildAtShaIfMissing
<1>3. ASSUME NEW w \in Worker, Process(w) PROVE ShownStep
  BY <1>1, <1>3 DEF Process, StopScheduler, Exit, Crash, ProcessEnds, StartBuildLoops
<1>4. ASSUME NEW b \in Ids, StampExpires(b) PROVE ShownStep
  <2> DEFINE row == [builds[b] EXCEPT !.stamp = "stale"]
  <2>1. builds[b] \in Row
    BY DEF QueueInv, TypeOK
  <2>2. Shown(row) = Shown(builds[b])
    BY <2>1 DEF Shown, Row
  <2>3. created' = created /\ builds' = [builds EXCEPT ![b] = row]
    BY <1>4 DEF StampExpires
  <2> HIDE DEF row
  <2>4. \A c \in Ids : builds'[c] = IF c = b THEN row ELSE builds[c]
    BY <2>3, RowShown DEF QueueInv
  <2> QED
    BY <2>2, <2>3, <2>4, NothingShown
<1>5. CASE UNCHANGED vars
  BY <1>1, <1>5 DEF vars
<1> QED
  BY <1>2, <1>3, <1>4, <1>5, TickShown, RunShown DEF Next

LEMMA TableInit == Init => Table!Init
<1> SUFFICES ASSUME Init PROVE Table!Init
  OBVIOUS
<1>1. Ids = {}
  BY DEF Init, Ids
<1>2. Rows = <<>>
  BY <1>1 DEF Rows
<1> QED
  BY <1>2 DEF Rows, Table!Init

\* The queue implements the table, however late the heartbeats are and whoever dies: a
\* build starts in its turn and alone of its service, is over once, and is asked for again
\* only when nothing newer was (claimNextBuildWithinLimit, finishBuild,
\* sweepOrphanedBuilds).
THEOREM BuildsRunInTurn == Spec => InTurn
<1>1. Init => QueueInv /\ Table!Init
  BY QueueInvInit, TableInit
<1>2. QueueInv /\ [Next]_vars => QueueInv' /\ [Table!Next]_Table!vars
  BY QueueInvStep, StepShown DEF ShownStep
<1> QED
  BY <1>1, <1>2, PTL DEF Spec, InTurn, Table!Spec
=============================================================================
