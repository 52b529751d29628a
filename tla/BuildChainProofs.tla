-------------------------- MODULE BuildChainProofs --------------------------
(***************************************************************************)
(* Proofs that a dependent is built only at commits its dependencies       *)
(* built, and queued once per commit: for every dependency graph, any      *)
(* number of poll passes, commits, manual builds and faults; that the      *)
(* poller queues the commits of a service in their order while no pass     *)
(* overlooks another; and that the queue implements BuildTable.            *)
(***************************************************************************)
EXTENDS BuildChain, FiniteSetTheorems, DataLemmas

\* The services the poller queues at the head: all but the dependents it
\* knows for such.
Polled(s) == s \in New \/ SameRepoDeps(s, Deps) = {}

\* A run works on a row of its own: running up to its end, a success from
\* there on.  What it has checked of the deps still holds.
SoundRun(r) ==
  /\ r.build \in Ids
  /\ builds[r.build].status = IF r.at \in {"list", "trigger"} THEN "success" ELSE "running"
  /\ r.at # "pipeline" => builds[r.build].sha # Unpinned
  /\ r.at = "build" => ~ DepsBlocked(r)

RunsOfRows ==
  /\ \A r \in runs : SoundRun(r)
  /\ \A q, r \in runs : q.build = r.build => q = r

\* A pass holds a service and a commit where it needs them, and it polls
\* only services it should.
SoundPass(st) ==
  /\ \A s \in st.roots : Polled(s)
  /\ st.at \in {"compare", "insert", "pinned"} => st.job \in Service \X Commit
  /\ st.at \in {"compare", "insert"} => Polled(st.job[1])

PassesKnow ==
  /\ \A s \in Service : ~ Polled(s) => meta[s] = Deps[s]
  /\ \A p \in Pass : SoundPass(passes[p])

\* What the poller and the triggers queue is pinned, as is what was built;
\* a blocked build has failed.
RowsSound ==
  \A b \in Ids :
    /\ builds[b].triggeredBy = "poll" \/ builds[b].status = "success"
         => builds[b].sha # Unpinned
    /\ builds[b].reason = "blocked" => builds[b].status = "failed"

\* The inductive invariant.
ChainInv ==
  /\ TypeOK
  /\ RunsOfRows
  /\ PassesKnow
  /\ RowsSound
  /\ SameCommit
  /\ QueuedOnce

-----------------------------------------------------------------------------
(***************************************************************************)
(* What a step does to the table.                                          *)
(***************************************************************************)
Ended == {"success", "failed", "no_pipeline"}

RowKept(b) ==
  /\ builds'[b].service = builds[b].service
  /\ builds'[b].triggeredBy = builds[b].triggeredBy
  /\ builds'[b].retryOf = builds[b].retryOf /\ builds'[b].met = builds[b].met
  /\ builds[b].sha # Unpinned => builds'[b].sha = builds[b].sha
  /\ builds[b].status \in Ended => builds'[b] = builds[b]
  /\ builds'[b].reason = "blocked" => builds'[b].status = "failed"
  /\ builds'[b].status = "success" =>
       /\ builds'[b].sha # Unpinned
       /\ \A d \in SameRepoDeps(builds'[b].service, Deps) : BuiltAt(d, builds'[b].sha)

RowNew(row) ==
  /\ row.status = "queued" /\ row.reason = "none"
  /\ row.triggeredBy = "poll" => row.sha # Unpinned
  /\ row.triggeredBy = "poll" /\ row.retryOf = 0 =>
       Polled(row.service) \/ ~ Covered(row.service, row.sha)

\* At most one row is added.
TableStep ==
  /\ builds' \in Seq(Row)
  /\ \/ Ids' = Ids
     \/ /\ Len(builds) + 1 \notin Ids
        /\ Ids' = Ids \cup {Len(builds) + 1}
        /\ RowNew(builds'[Len(builds) + 1])
  /\ \A b \in Ids : RowKept(b)

\* A step that leaves the rows alone keeps them.
LEMMA SameRow ==
  ASSUME RowsSound, SameCommit, NEW b \in Ids, builds'[b] = builds[b]
  PROVE  RowKept(b)
BY DEF RowsSound, SameCommit, RowKept

LEMMA SameTable ==
  ASSUME TypeOK, RowsSound, SameCommit, builds' = builds
  PROVE  TableStep
<1>1. Ids' = Ids
  BY DEF Ids
<1> QED
  BY <1>1, SameRow DEF TableStep, TypeOK

\* A row is appended.
LEMMA AppendRow ==
  ASSUME TypeOK, RowsSound, SameCommit, NEW row \in Row, RowNew(row),
         builds' = Append(builds, row)
  PROVE  TableStep /\ \A b \in Ids : builds'[b] = builds[b]
<1>1. /\ builds \in Seq(Row) /\ Len(builds) \in Nat /\ Ids = 1..Len(builds)
  BY LenProperties DEF TypeOK, Ids
<1>2. /\ builds' \in Seq(Row) /\ Len(builds') = Len(builds) + 1
      /\ \A b \in Ids : builds'[b] = builds[b]
      /\ builds'[Len(builds) + 1] = row
  BY <1>1, AppendProperties
<1>3. Len(builds) + 1 \notin Ids /\ Ids' = Ids \cup {Len(builds) + 1}
  BY <1>1, <1>2 DEF Ids
<1> QED
  BY <1>2, <1>3, SameRow DEF TableStep

\* One row is written.
LEMMA WriteRow ==
  ASSUME TypeOK, NEW b \in Ids, NEW row \in Row, builds' = [builds EXCEPT ![b] = row]
  PROVE  /\ builds' \in Seq(Row) /\ Len(builds') = Len(builds) /\ Ids' = Ids
         /\ \A c \in Ids : builds'[c] = IF c = b THEN row ELSE builds[c]
<1>1. /\ builds \in Seq(Row) /\ Len(builds) \in Nat /\ Ids = 1..Len(builds)
      /\ DOMAIN builds = Ids
  BY LenProperties DEF TypeOK, Ids
<1>2. /\ builds' \in Seq(Row) /\ Len(builds') = Len(builds)
  BY <1>1, ExceptSeq
<1>3. Ids' = Ids
  BY <1>2 DEF Ids
<1> QED
  BY <1>1, <1>2, <1>3

LEMMA WriteTable ==
  ASSUME TypeOK, RowsSound, SameCommit, NEW b \in Ids, NEW row \in Row,
         builds' = [builds EXCEPT ![b] = row],
         RowKept(b)
  PROVE  TableStep
<1>1. \A c \in Ids : RowKept(c)
  BY WriteRow, SameRow
<1> QED
  BY <1>1, WriteRow DEF TableStep

-----------------------------------------------------------------------------
\* A commit that was built stays built.
LEMMA BuiltStaysBuilt ==
  ASSUME TableStep, NEW s, NEW c, BuiltAt(s, c)
  PROVE  \E b \in Ids' : /\ builds'[b].service = s /\ builds'[b].sha = c
                         /\ builds'[b].status = "success"
<1>1. PICK b \in Ids : builds[b].service = s /\ builds[b].sha = c /\ builds[b].status = "success"
  BY DEF BuiltAt
<1>2. b \in Ids' /\ builds'[b] = builds[b]
  BY <1>1 DEF TableStep, RowKept, Ended
<1> QED
  BY <1>1, <1>2

\* The invariants of the table follow from what a step does to it.
LEMMA TableInv ==
  ASSUME ChainInv, TableStep
  PROVE  RowsSound' /\ SameCommit' /\ QueuedOnce'
<1> DEFINE new == Len(builds) + 1
<1>1. \A b \in Ids' : b \in Ids \/ (b = new /\ new \notin Ids /\ RowNew(builds'[new]))
  BY DEF TableStep
<1>2. \A b \in Ids : RowKept(b)
  BY DEF TableStep
<1> HIDE DEF new
<1>3. RowsSound'
  <2> SUFFICES ASSUME NEW b \in Ids'
               PROVE  /\ builds'[b].triggeredBy = "poll" \/ builds'[b].status = "success"
                           => builds'[b].sha # Unpinned
                      /\ builds'[b].reason = "blocked" => builds'[b].status = "failed"
    BY DEF RowsSound, Unpinned
  <2>1. CASE b \in Ids
    BY <1>2, <2>1 DEF ChainInv, RowsSound, RowKept
  <2>2. CASE b = new /\ RowNew(builds'[new])
    BY <2>2 DEF RowNew
  <2> QED
    BY <1>1, <2>1, <2>2
<1>4. SameCommit'
  <2>1. ASSUME NEW b \in Ids', builds'[b].status = "success",
               NEW d \in SameRepoDeps(builds'[b].service, Deps)
        PROVE  \E e \in Ids' : /\ builds'[e].service = d /\ builds'[e].sha = builds'[b].sha
                               /\ builds'[e].status = "success"
    <3>1. b \in Ids
      BY <1>1, <2>1 DEF RowNew
    <3>2. BuiltAt(d, builds'[b].sha)
      BY <1>2, <2>1, <3>1 DEF RowKept
    <3> QED
      BY <3>2, BuiltStaysBuilt
  <2> QED
    BY <2>1 DEF SameCommit, BuiltAt, SameRepoDeps, SameRepo
<1>5. QueuedOnce'
  <2> DEFINE Counts(b) == /\ builds[b].service \notin New
                          /\ SameRepoDeps(builds[b].service, Deps) # {}
                          /\ builds[b].triggeredBy = "poll" /\ builds[b].retryOf = 0
                          /\ builds[b].reason # "blocked"
             CountsNext(b) == /\ builds'[b].service \notin New
                              /\ SameRepoDeps(builds'[b].service, Deps) # {}
                              /\ builds'[b].triggeredBy = "poll" /\ builds'[b].retryOf = 0
                              /\ builds'[b].reason # "blocked"
  <2>1. ASSUME NEW b \in Ids, CountsNext(b)
        PROVE  /\ Counts(b)
               /\ builds[b].service = builds'[b].service /\ builds[b].sha = builds'[b].sha
    BY <1>2, <2>1 DEF RowKept, ChainInv, RowsSound, Ended
  <2>2. ASSUME CountsNext(new), RowNew(builds'[new]), NEW b \in Ids, CountsNext(b),
               builds'[b].service = builds'[new].service, builds'[b].sha = builds'[new].sha
        PROVE  FALSE
    <3>1. ~ Covered(builds'[new].service, builds'[new].sha)
      BY <2>2 DEF RowNew, Polled
    <3>2. Counts(b) /\ builds[b].service = builds'[new].service /\ builds[b].sha = builds'[new].sha
      BY <2>1, <2>2
    <3> QED
      BY <3>1, <3>2 DEF Covered
  <2>3. ASSUME NEW a \in Ids, NEW b \in Ids, CountsNext(a), CountsNext(b),
               builds'[a].service = builds'[b].service, builds'[a].sha = builds'[b].sha
        PROVE  a = b
    <3>1. Counts(a) /\ Counts(b)
      BY <2>1, <2>3
    <3>2. builds[a].service = builds[b].service /\ builds[a].sha = builds[b].sha
      BY <2>1, <2>3
    <3> QED
      BY <3>1, <3>2 DEF ChainInv, QueuedOnce
  <2>4. ASSUME NEW a \in Ids', NEW b \in Ids', CountsNext(a), CountsNext(b),
               builds'[a].service = builds'[b].service, builds'[a].sha = builds'[b].sha
        PROVE  a = b
    BY <1>1, <2>2, <2>3, <2>4
  <2> QED
    BY <2>4 DEF QueuedOnce, SameRepoDeps, SameRepo
<1> QED
  BY <1>3, <1>4, <1>5

-----------------------------------------------------------------------------
(***************************************************************************)
(* Runs and passes.                                                        *)
(***************************************************************************)

\* A run whose row is left alone stays sound.
LEMMA RunStays ==
  ASSUME ChainInv, TableStep, NEW r \in runs, builds'[r.build] = builds[r.build]
  PROVE  SoundRun(r)'
<1>1. SoundRun(r) /\ r.build \in Ids'
  BY DEF ChainInv, RunsOfRows, SoundRun, TableStep
<1>2. ASSUME ~ DepsBlocked(r) PROVE ~ DepsBlocked(r)'
  <2>1. ASSUME NEW d \in SameRepoDeps(builds[r.build].service, Deps)
        PROVE  \E b \in Ids' : /\ builds'[b].service = d
                               /\ builds'[b].sha = builds[r.build].sha
                               /\ builds'[b].status = "success"
    BY <1>2, <2>1, BuiltStaysBuilt DEF DepsBlocked
  <2> QED
    BY <2>1 DEF DepsBlocked, SameRepoDeps, SameRepo, BuiltAt
<1> QED
  BY <1>1, <1>2 DEF SoundRun, Unpinned

\* Nobody starts anything, and only rows without a run are written.
LEMMA RunsStay ==
  ASSUME ChainInv, TableStep, runs' \subseteq runs,
         \A r \in runs' : builds'[r.build] = builds[r.build]
  PROVE  RunsOfRows' /\ runs' \subseteq Run
<1>1. \A r \in runs' : SoundRun(r)'
  BY RunStays
<1> QED
  BY <1>1 DEF RunsOfRows, ChainInv, TypeOK

\* One run goes on.
LEMMA RunGoes ==
  ASSUME ChainInv, TableStep, NEW r \in runs, NEW q \in Run, q.build = r.build,
         runs' \subseteq (runs \ {r}) \cup {q},
         \A b \in Ids \ {r.build} : builds'[b] = builds[b],
         q \in runs' => SoundRun(q)'
  PROVE  RunsOfRows' /\ runs' \subseteq Run
<1>1. \A x \in runs \ {r} : x.build \in Ids \ {r.build}
  BY DEF ChainInv, RunsOfRows, SoundRun
<1>2. \A x \in runs' : SoundRun(x)'
  <2> SUFFICES ASSUME NEW x \in runs' PROVE SoundRun(x)'
    OBVIOUS
  <2>1. CASE x = q
    BY <2>1
  <2>2. CASE x \in runs \ {r}
    BY <1>1, <2>2, RunStays
  <2> QED
    BY <2>1, <2>2
<1>3. \A x, y \in runs' : x.build = y.build => x = y
  BY <1>1 DEF ChainInv, RunsOfRows
<1> QED
  BY <1>2, <1>3 DEF RunsOfRows, ChainInv, TypeOK

\* One pass goes on.
LEMMA PassGoes ==
  ASSUME ChainInv, NEW p \in Pass, NEW st \in PassState, SoundPass(st),
         passes' = [passes EXCEPT ![p] = st], meta' = meta
  PROVE  PassesKnow' /\ passes' \in [Pass -> PassState]
<1>1. passes \in [Pass -> PassState]
  BY DEF ChainInv, TypeOK
<1>2. \A q \in Pass : passes'[q] = IF q = p THEN st ELSE passes[q]
  BY <1>1
<1>3. \A q \in Pass : SoundPass(passes'[q])
  BY <1>2 DEF ChainInv, PassesKnow
<1> QED
  BY <1>1, <1>3 DEF ChainInv, PassesKnow, SoundPass, Polled, SameRepoDeps, SameRepo, Commit

\* The table, the runs and the passes make up the invariant.
LEMMA ChainInvFrom ==
  ASSUME ChainInv, TableStep, RunsOfRows', PassesKnow', TypeOK'
  PROVE  ChainInv' /\ TableStep
BY TableInv DEF ChainInv

\* A step outside the table.
LEMMA TableUntouched ==
  ASSUME ChainInv, builds' = builds, runs' \subseteq runs
  PROVE  TableStep /\ RunsOfRows' /\ runs' \subseteq Run
<1>1. TableStep
  BY SameTable DEF ChainInv
<1> QED
  BY <1>1, RunsStay

-----------------------------------------------------------------------------
\* The world outside: a push, and a build by hand.
LEMMA PushInv ==
  ASSUME ChainInv, NEW g \in DOMAIN head, Push(g)
  PROVE  ChainInv' /\ TableStep
<1>1. head' \in [{Repo[s] : s \in Service} -> Commit]
  BY ChainBounds DEF ChainInv, TypeOK, Push, Commit
<1>2. TableStep /\ RunsOfRows' /\ runs' \subseteq Run
  BY TableUntouched DEF Push
<1>3. PassesKnow'
  BY DEF ChainInv, PassesKnow, SoundPass, Push
<1>4. TypeOK'
  BY <1>1, <1>2 DEF ChainInv, TypeOK, Push
<1> QED
  BY <1>2, <1>3, <1>4, ChainInvFrom

\* No run, and no row of a run, is changed.
LEMMA RunsUntouched ==
  ASSUME ChainInv, TableStep, runs' = runs, \A b \in Ids : builds'[b] = builds[b]
  PROVE  RunsOfRows'
<1>1. \A r \in runs' : builds'[r.build] = builds[r.build]
  BY DEF ChainInv, RunsOfRows, SoundRun
<1> QED
  BY <1>1, RunsStay

\* A row is queued.
LEMMA QueuedRow ==
  ASSUME ChainInv, NEW s \in Service, NEW c \in Commit \cup {Unpinned},
         NEW by \in {"poll", "manual"}, NEW met \in BOOLEAN,
         by = "poll" => c # Unpinned /\ (Polled(s) \/ ~ Covered(s, c)),
         builds' = Append(builds, NewRow(s, c, by, met))
  PROVE  TableStep /\ \A b \in Ids : builds'[b] = builds[b]
<1> DEFINE row == NewRow(s, c, by, met)
<1>1. row \in Row
  BY DEF NewRow, Row
<1>2. RowNew(row)
  BY DEF NewRow, RowNew
<1> HIDE DEF row
<1> QED
  BY <1>1, <1>2, AppendRow DEF ChainInv, row

LEMMA StartBuildInv ==
  ASSUME ChainInv, NEW s \in Service, StartBuild(s)
  PROVE  ChainInv' /\ TableStep
<1>1. TableStep /\ RunsOfRows'
  <2>1. Queue(s, Unpinned, "manual") /\ runs' = runs
    BY DEF StartBuild
  <2> QED
    BY <2>1, QueuedRow, RunsUntouched DEF Queue
<1>2. PassesKnow'
  BY DEF ChainInv, PassesKnow, SoundPass, StartBuild
<1>3. manual' \in 0..MaxManual
  BY ChainBounds DEF ChainInv, TypeOK, StartBuild
<1>4. TypeOK'
  BY <1>1, <1>3 DEF ChainInv, TypeOK, TableStep, StartBuild
<1> QED
  BY <1>1, <1>2, <1>4, ChainInvFrom

-----------------------------------------------------------------------------
(***************************************************************************)
(* The poller.                                                             *)
(***************************************************************************)

\* A service the poller knows for a dependent is not polled.
LEMMA PollStartInv ==
  ASSUME ChainInv, NEW p \in Pass, PollStart(p)
  PROVE  ChainInv' /\ TableStep
<1> DEFINE dependents == {s \in Service \ Locked : SameRepoDeps(s, meta) # {}}
           roots == (Service \ Locked) \ dependents
           st == [passes[p] EXCEPT !.at = "poll", !.dependents = dependents, !.roots = roots]
<1>1. passes[p] \in PassState
  BY DEF ChainInv, TypeOK
<1>2. \A s \in roots : Polled(s)
  <2> SUFFICES ASSUME NEW s \in Service, SameRepoDeps(s, meta) = {} PROVE Polled(s)
    OBVIOUS
  <2>1. ~ Polled(s) => meta[s] = Deps[s]
    BY DEF ChainInv, PassesKnow
  <2> QED
    BY <2>1 DEF Polled, SameRepoDeps
<1>3. passes' = [passes EXCEPT ![p] = st] /\ UNCHANGED <<head, builds, meta, runs, manual, faults>>
  BY DEF PollStart
<1>4. dependents \subseteq Service /\ roots \subseteq Service
  OBVIOUS
<1> HIDE DEF dependents, roots
<1>5. st \in PassState /\ st.roots = roots /\ st.at = "poll"
  BY <1>1, <1>4 DEF PassState
<1>6. SoundPass(st)
  BY <1>2, <1>5 DEF SoundPass
<1> HIDE DEF st
<1>7. PassesKnow' /\ passes' \in [Pass -> PassState]
  BY <1>3, <1>5, <1>6, PassGoes
<1>8. TableStep /\ RunsOfRows' /\ runs' \subseteq Run
  BY <1>3, TableUntouched
<1>9. TypeOK'
  BY <1>3, <1>7 DEF ChainInv, TypeOK
<1> QED
  BY <1>7, <1>8, <1>9, ChainInvFrom

\* A step of a pass that does not write.
LEMMA PassInv ==
  ASSUME ChainInv, NEW p \in Pass, NEW st \in PassState, SoundPass(st),
         passes' = [passes EXCEPT ![p] = st],
         UNCHANGED <<head, builds, meta, runs, manual>>, faults' \in 0..MaxFaults
  PROVE  ChainInv' /\ TableStep
<1>1. PassesKnow' /\ passes' \in [Pass -> PassState]
  BY PassGoes
<1>2. TableStep /\ RunsOfRows' /\ runs' \subseteq Run
  BY TableUntouched
<1>3. TypeOK'
  BY <1>1, <1>2 DEF ChainInv, TypeOK
<1> QED
  BY <1>1, <1>2, <1>3, ChainInvFrom

\* A step of a pass that queues a build and goes on with the next service.
LEMMA PassQueues ==
  ASSUME ChainInv, NEW p \in Pass, NEW st \in PassState, SoundPass(st),
         passes' = [passes EXCEPT ![p] = st],
         UNCHANGED <<head, meta, runs, manual, faults>>,
         TableStep, RunsOfRows'
  PROVE  ChainInv' /\ TableStep
<1>1. PassesKnow' /\ passes' \in [Pass -> PassState]
  BY PassGoes
<1>2. TypeOK'
  BY <1>1 DEF ChainInv, TypeOK, TableStep
<1> QED
  BY <1>1, <1>2, ChainInvFrom

\* What NextService makes of a pass.
LEMMA NextServiceState ==
  ASSUME ChainInv, NEW p \in Pass, NextService(p)
  PROVE  \E st \in PassState : SoundPass(st) /\ passes' = [passes EXCEPT ![p] = st]
<1> DEFINE st == [passes[p] EXCEPT !.at = "poll", !.job = <<>>, !.look = {}]
<1>1. passes[p] \in PassState /\ SoundPass(passes[p])
  BY DEF ChainInv, TypeOK, PassesKnow
<1>2. st \in PassState /\ st.at = "poll" /\ st.roots = passes[p].roots
  BY <1>1 DEF PassState
<1>3. SoundPass(st)
  BY <1>1, <1>2 DEF SoundPass
<1>4. passes' = [passes EXCEPT ![p] = st]
  BY DEF NextService
<1> QED
  BY <1>2, <1>3, <1>4

LEMMA LsRemoteInv ==
  ASSUME ChainInv, NEW p \in Pass, NEW s \in Service, LsRemote(p, s)
  PROVE  ChainInv' /\ TableStep
<1> DEFINE job == <<s, head[Repo[s]]>>
           st == [passes[p] EXCEPT !.at = "compare", !.job = job, !.look = PolledBuilds(s),
                                   !.roots = passes[p].roots \ {s}]
<1>1. passes[p] \in PassState /\ SoundPass(passes[p])
  BY DEF ChainInv, TypeOK, PassesKnow
<1>2. Polled(s)
  BY <1>1 DEF LsRemote, SoundPass
<1>3. /\ job \in Service \X Commit /\ job[1] = s
      /\ PolledBuilds(s) \in SUBSET Nat
  BY DEF ChainInv, TypeOK, PolledBuilds, Ids
<1>4. passes' = [passes EXCEPT ![p] = st]
  BY DEF LsRemote
<1> HIDE DEF job
<1>5. st \in PassState /\ st.at = "compare" /\ st.job = job /\ st.roots \subseteq passes[p].roots
  BY <1>1, <1>3 DEF PassState
<1>6. SoundPass(st)
  BY <1>1, <1>2, <1>3, <1>5 DEF SoundPass
<1> HIDE DEF st
<1> QED
  BY <1>4, <1>5, <1>6, PassInv DEF LsRemote, ChainInv, TypeOK

LEMMA CompareInv ==
  ASSUME ChainInv, NEW p \in Pass, Compare(p)
  PROVE  ChainInv' /\ TableStep
<1>1. CASE NextService(p)
  BY <1>1, NextServiceState, PassInv DEF Compare, ChainInv, TypeOK
<1>2. CASE passes' = [passes EXCEPT ![p].at = "insert"]
  <2> DEFINE st == [passes[p] EXCEPT !.at = "insert"]
  <2>1. passes[p] \in PassState /\ SoundPass(passes[p]) /\ passes[p].at = "compare"
    BY DEF ChainInv, TypeOK, PassesKnow, Compare
  <2>2. /\ st \in PassState /\ st.at = "insert" /\ st.job = passes[p].job
        /\ st.roots = passes[p].roots
    BY <2>1 DEF PassState
  <2>3. SoundPass(st)
    BY <2>1, <2>2 DEF SoundPass
  <2>4. passes' = [passes EXCEPT ![p] = st]
    BY <1>2
  <2> HIDE DEF st
  <2> QED
    BY <2>2, <2>3, <2>4, PassInv DEF Compare, ChainInv, TypeOK
<1> QED
  BY <1>1, <1>2 DEF Compare

LEMMA EnqueueBuildInv ==
  ASSUME ChainInv, NEW p \in Pass, EnqueueBuild(p)
  PROVE  ChainInv' /\ TableStep
<1> DEFINE s == passes[p].job[1]
           c == passes[p].job[2]
           met == PolledBuilds(s) # passes[p].look
<1>1. /\ SoundPass(passes[p]) /\ passes[p].at = "insert"
      /\ builds' = Append(builds, NewRow(s, c, "poll", met)) /\ NextService(p)
      /\ UNCHANGED <<head, meta, runs, manual, faults>>
  BY DEF ChainInv, PassesKnow, EnqueueBuild
<1>2. s \in Service /\ c \in Commit /\ Polled(s)
  BY <1>1 DEF SoundPass
<1>3. c # Unpinned
  BY <1>2 DEF Commit, Unpinned
<1>4. met \in BOOLEAN
  OBVIOUS
<1> HIDE DEF s, c, met
<1>5. TableStep /\ RunsOfRows'
  BY <1>1, <1>2, <1>3, <1>4, QueuedRow, RunsUntouched
<1> QED
  BY <1>1, <1>5, NextServiceState, PassQueues

\* The commit of a catch-up is one of those built, so a commit.
LEMMA LatestCommonType ==
  ASSUME ChainInv, NEW ds
  PROVE  LatestCommonSha(ds) \in Commit \cup {Unpinned}
<1> DEFINE common == {b \in Ids : /\ builds[b].service \in ds
                                  /\ builds[b].status = "success"
                                  /\ \A d \in ds : BuiltAt(d, builds[b].sha)}
<1>1. CASE common = {}
  BY <1>1 DEF LatestCommonSha
<1>2. CASE common # {}
  <2> DEFINE fromEnd == {Len(builds) - b : b \in common}
  <2>1. Len(builds) \in Nat /\ Ids = 1..Len(builds) /\ common \subseteq Ids
    BY LenProperties DEF ChainInv, TypeOK, Ids
  <2>2. fromEnd \subseteq Nat /\ fromEnd # {}
    BY <1>2, <2>1
  <2>3. PICK x \in fromEnd : \A y \in fromEnd : x <= y
    BY <2>2, LeastExists
  <2>4. \E b \in common : \A c \in common : c <= b
    <3> HIDE DEF common
    <3>1. PICK b \in common : x = Len(builds) - b
      BY <2>3
    <3>2. ASSUME NEW c \in common PROVE c <= b
      <4>1. Len(builds) - b <= Len(builds) - c
        BY <2>3, <3>1
      <4> QED
        BY <2>1, <4>1
    <3> QED
      BY <3>2
  <2>5. PICK b \in common : LatestCommonSha(ds) = builds[b].sha
    BY <1>2, <2>4 DEF LatestCommonSha
  <2>6. builds[b] \in Row
    BY <2>1, <2>5, ElementOfSeq DEF ChainInv, TypeOK
  <2> QED
    BY <2>5, <2>6 DEF Row
<1> QED
  BY <1>1, <1>2

LEMMA CatchUpInv ==
  ASSUME ChainInv, NEW p \in Pass, NEW s \in Service, CatchUp(p, s)
  PROVE  ChainInv' /\ TableStep
<1> DEFINE c == LatestCommonSha(SameRepoDeps(s, meta))
           rest == passes[p].dependents \ {s}
           none == [passes[p] EXCEPT !.dependents = rest]
           some == [passes[p] EXCEPT !.at = "pinned", !.job = <<s, c>>, !.dependents = rest]
<1>1. passes[p] \in PassState /\ SoundPass(passes[p]) /\ passes[p].at = "poll"
  BY DEF ChainInv, TypeOK, PassesKnow, CatchUp
<1>2. passes' = [passes EXCEPT ![p] = IF c = Unpinned THEN none ELSE some]
  BY DEF CatchUp
<1>3. rest \subseteq Service
  BY <1>1 DEF PassState
<1>4. c \in Commit \cup {Unpinned}
  BY LatestCommonType
<1> HIDE DEF c, rest
<1>5. none \in PassState /\ none.at = "poll" /\ none.roots = passes[p].roots
  BY <1>1, <1>3 DEF PassState
<1>6. SoundPass(none)
  BY <1>1, <1>5 DEF SoundPass
<1>7. CASE c = Unpinned
  <2> HIDE DEF none
  <2> QED
    BY <1>2, <1>5, <1>6, <1>7, PassInv DEF CatchUp, ChainInv, TypeOK
<1>8. CASE c # Unpinned
  <2>1. <<s, c>> \in Service \X Commit
    BY <1>4, <1>8
  <2>2. /\ some \in PassState /\ some.at = "pinned" /\ some.job = <<s, c>>
        /\ some.roots = passes[p].roots
    BY <1>1, <1>3, <2>1 DEF PassState
  <2>3. SoundPass(some)
    BY <1>1, <2>1, <2>2 DEF SoundPass
  <2> HIDE DEF some
  <2> QED
    BY <1>2, <1>8, <2>2, <2>3, PassInv DEF CatchUp, ChainInv, TypeOK
<1> QED
  BY <1>7, <1>8

\* What enqueueBuildAtShaIfMissing does to the table.
LEMMA IfMissing ==
  ASSUME ChainInv, NEW s \in Service, NEW c \in Commit,
         EnqueueBuildAtShaIfMissing(s, c)
  PROVE  TableStep /\ \A b \in Ids : builds'[b] = builds[b]
<1>1. CASE Covered(s, c)
  BY <1>1, SameTable DEF EnqueueBuildAtShaIfMissing, ChainInv
<1>2. CASE ~ Covered(s, c)
  <2>1. c # Unpinned
    BY DEF Commit, Unpinned
  <2> QED
    BY <1>2, <2>1, QueuedRow DEF EnqueueBuildAtShaIfMissing, Queue
<1> QED
  BY <1>1, <1>2

LEMMA CatchUpEnqueueInv ==
  ASSUME ChainInv, NEW p \in Pass, CatchUpEnqueue(p)
  PROVE  ChainInv' /\ TableStep
<1> DEFINE s == passes[p].job[1]
           c == passes[p].job[2]
<1>1. /\ SoundPass(passes[p]) /\ passes[p].at = "pinned"
      /\ EnqueueBuildAtShaIfMissing(s, c) /\ NextService(p)
      /\ UNCHANGED <<head, meta, runs, manual, faults>>
  BY DEF ChainInv, PassesKnow, CatchUpEnqueue
<1>2. s \in Service /\ c \in Commit
  BY <1>1 DEF SoundPass
<1> HIDE DEF s, c
<1>3. TableStep /\ RunsOfRows'
  BY <1>1, <1>2, IfMissing, RunsUntouched
<1> QED
  BY <1>1, <1>3, NextServiceState, PassQueues

LEMMA PollEndsInv ==
  ASSUME ChainInv, NEW p \in Pass, PollEnds(p)
  PROVE  ChainInv' /\ TableStep
<1> DEFINE st == [passes[p] EXCEPT !.at = "idle"]
<1>1. passes[p] \in PassState /\ SoundPass(passes[p])
  BY DEF ChainInv, TypeOK, PassesKnow
<1>2. st \in PassState /\ st.at = "idle" /\ st.roots = passes[p].roots
  BY <1>1 DEF PassState
<1>3. SoundPass(st)
  BY <1>1, <1>2 DEF SoundPass
<1>4. passes' = [passes EXCEPT ![p] = st]
  BY DEF PollEnds
<1> HIDE DEF st
<1> QED
  BY <1>2, <1>3, <1>4, PassInv DEF PollEnds, ChainInv, TypeOK

LEMMA PollServiceFailsInv ==
  ASSUME ChainInv, NEW p \in Pass, PollServiceFails(p)
  PROVE  ChainInv' /\ TableStep
<1>1. faults' \in 0..MaxFaults
  BY ChainBounds DEF PollServiceFails, Fault, ChainInv, TypeOK
<1> QED
  BY <1>1, NextServiceState, PassInv DEF PollServiceFails

LEMMA PollInv ==
  ASSUME ChainInv, NEW p \in Pass, Poll(p)
  PROVE  ChainInv' /\ TableStep
BY PollStartInv, LsRemoteInv, CompareInv, EnqueueBuildInv, CatchUpInv, CatchUpEnqueueInv,
   PollEndsInv DEF Poll

-----------------------------------------------------------------------------
(***************************************************************************)
(* The queue.                                                              *)
(***************************************************************************)

\* The run of a claimed build starts on a row nobody works on.
LEMMA ClaimInv ==
  ASSUME ChainInv, NEW b \in Ids, Claim(b)
  PROVE  ChainInv' /\ TableStep
<1> DEFINE row == [builds[b] EXCEPT !.status = "running"]
           r == [build |-> b, at |-> "pipeline", todo |-> {}]
<1>1. builds \in Seq(Row) /\ builds[b] \in Row /\ b \in Nat
  BY LenProperties, ElementOfSeq DEF ChainInv, TypeOK, Ids
<1>2. builds[b].status = "queued"
  BY DEF Claim, OfService
<1>3. /\ row \in Row /\ row.status = "running"
      /\ row.service = builds[b].service /\ row.sha = builds[b].sha
      /\ row.triggeredBy = builds[b].triggeredBy /\ row.retryOf = builds[b].retryOf
      /\ row.met = builds[b].met
      /\ row.reason = builds[b].reason
  BY <1>1 DEF Row
<1>4. builds' = [builds EXCEPT ![b] = row] /\ runs' = runs \cup {r}
  BY DEF Claim
<1> HIDE DEF row
<1>5. /\ \A c \in Ids : builds'[c] = IF c = b THEN row ELSE builds[c]
      /\ Ids' = Ids
  BY <1>3, <1>4, WriteRow DEF ChainInv
<1>6. builds[b].reason # "blocked"
  BY <1>2 DEF ChainInv, RowsSound
<1>7. RowKept(b)
  BY <1>2, <1>3, <1>5, <1>6 DEF RowKept, Ended
<1>8. TableStep
  BY <1>3, <1>4, <1>7, WriteTable DEF ChainInv
<1>9. \A q \in runs : q.build \in Ids /\ q.build # b
  BY <1>2 DEF ChainInv, RunsOfRows, SoundRun
<1>10. RunsOfRows'
  <2>1. \A q \in runs : SoundRun(q)'
    BY <1>5, <1>8, <1>9, RunStays
  <2>2. SoundRun(r)'
    BY <1>3, <1>5 DEF SoundRun
  <2>3. r.build = b
    OBVIOUS
  <2> HIDE DEF r
  <2> QED
    BY <1>4, <1>9, <2>1, <2>2, <2>3 DEF RunsOfRows, ChainInv
<1>11. PassesKnow'
  BY DEF ChainInv, PassesKnow, SoundPass, Claim
<1>12. runs' \subseteq Run
  BY <1>1, <1>4 DEF ChainInv, TypeOK, Run
<1>13. TypeOK'
  BY <1>8, <1>12 DEF ChainInv, TypeOK, TableStep, Claim
<1> QED
  BY <1>8, <1>10, <1>11, <1>13, ChainInvFrom

\* The passes of a step that is none of theirs.
LEMMA PassesSame ==
  ASSUME ChainInv, passes' = passes, meta' = meta
  PROVE  PassesKnow'
BY DEF ChainInv, PassesKnow, SoundPass

LEMMA RunDiesInv ==
  ASSUME ChainInv, NEW r \in runs, RunDies(r)
  PROVE  ChainInv' /\ TableStep
<1>1. TableStep /\ RunsOfRows' /\ runs' \subseteq Run
  BY TableUntouched DEF RunDies
<1>2. PassesKnow'
  BY PassesSame DEF RunDies
<1>3. faults' \in 0..MaxFaults
  BY ChainBounds DEF RunDies, Fault, ChainInv, TypeOK
<1>4. TypeOK'
  BY <1>1, <1>3 DEF ChainInv, TypeOK, RunDies
<1> QED
  BY <1>1, <1>2, <1>4, ChainInvFrom

\* The sweep fails a row that has no run, and copies it.
LEMMA SweepOrphanInv ==
  ASSUME ChainInv, NEW o \in Ids, SweepOrphan(o)
  PROVE  ChainInv' /\ TableStep
<1> DEFINE row == [builds[o] EXCEPT !.status = "failed", !.reason = "orphaned"]
           failed == [builds EXCEPT ![o] = row]
           retry == [row EXCEPT !.status = "queued", !.reason = "none", !.retryOf = o,
                            !.met = FALSE]
<1>1. /\ builds \in Seq(Row) /\ Len(builds) \in Nat /\ Ids = 1..Len(builds)
      /\ builds[o] \in Row /\ o \in Nat /\ o # 0
  BY LenProperties, ElementOfSeq DEF ChainInv, TypeOK, Ids
<1>2. /\ builds[o].status = "running" /\ \A r \in runs : r.build # o
      /\ UNCHANGED <<head, meta, runs, passes, manual, faults>>
      /\ builds' = failed \/ builds' = Append(failed, retry)
  BY DEF SweepOrphan
<1>3. /\ row \in Row /\ row.status = "failed" /\ row.reason = "orphaned"
      /\ row.service = builds[o].service /\ row.sha = builds[o].sha
      /\ row.triggeredBy = builds[o].triggeredBy /\ row.retryOf = builds[o].retryOf
      /\ row.met = builds[o].met
  BY <1>1 DEF Row
<1>4. /\ retry \in Row /\ retry.status = "queued" /\ retry.reason = "none"
      /\ retry.service = builds[o].service /\ retry.sha = builds[o].sha
      /\ retry.triggeredBy = builds[o].triggeredBy /\ retry.retryOf = o
  BY <1>1 DEF Row
<1> HIDE DEF row, retry
<1>5. /\ failed \in Seq(Row) /\ Len(failed) = Len(builds)
      /\ \A c \in Ids : failed[c] = IF c = o THEN row ELSE builds[c]
  BY <1>1, <1>3, ExceptSeq, LenProperties
<1> HIDE DEF failed
<1>6. RowNew(retry)
  BY <1>1, <1>4 DEF RowNew, ChainInv, RowsSound
<1>7. /\ builds' \in Seq(Row)
      /\ \A c \in Ids : builds'[c] = IF c = o THEN row ELSE builds[c]
      /\ \/ Ids' = Ids
         \/ /\ Len(builds) + 1 \notin Ids /\ Ids' = Ids \cup {Len(builds) + 1}
            /\ RowNew(builds'[Len(builds) + 1])
  <2>1. CASE builds' = failed
    BY <1>1, <1>5, <2>1 DEF Ids
  <2>2. CASE builds' = Append(failed, retry)
    <3>1. /\ builds' \in Seq(Row) /\ Len(builds') = Len(builds) + 1
          /\ \A c \in Ids : builds'[c] = failed[c]
          /\ builds'[Len(builds) + 1] = retry
      BY <1>1, <1>4, <1>5, <2>2, AppendProperties
    <3>2. Len(builds) + 1 \notin Ids /\ Ids' = Ids \cup {Len(builds) + 1}
      BY <1>1, <3>1 DEF Ids
    <3> QED
      BY <1>5, <1>6, <3>1, <3>2
  <2> QED
    BY <1>2, <2>1, <2>2
<1>8. RowKept(o)
  BY <1>2, <1>3, <1>7 DEF RowKept, Ended
<1>9. TableStep
  BY <1>7, <1>8, SameRow DEF TableStep, ChainInv
<1>10. \A r \in runs' : builds'[r.build] = builds[r.build]
  BY <1>2, <1>7 DEF ChainInv, RunsOfRows, SoundRun
<1>11. RunsOfRows'
  BY <1>2, <1>9, <1>10, RunsStay
<1>12. TypeOK'
  BY <1>2, <1>7 DEF ChainInv, TypeOK
<1> QED
  BY <1>2, <1>9, <1>11, <1>12, PassesSame, ChainInvFrom

-----------------------------------------------------------------------------
(***************************************************************************)
(* The runs.                                                               *)
(***************************************************************************)

\* A run that has not ended writes its row, and goes on as q or not at all.
LEMMA RunWrites ==
  ASSUME ChainInv, NEW r \in runs, NEW row \in Row,
         builds' = [builds EXCEPT ![r.build] = row],
         RowKept(r.build),
         NEW q \in Run, q.build = r.build, runs' \subseteq (runs \ {r}) \cup {q},
         q \in runs' =>
           /\ row.status = IF q.at \in {"list", "trigger"} THEN "success" ELSE "running"
           /\ q.at # "pipeline" => row.sha # Unpinned
           /\ q.at # "build",
         UNCHANGED <<meta, passes, manual, faults, head>>
  PROVE  ChainInv' /\ TableStep
<1>1. r.build \in Ids
  BY DEF ChainInv, RunsOfRows, SoundRun
<1>2. TableStep
  BY <1>1, WriteTable DEF ChainInv
<1>3. /\ \A c \in Ids : builds'[c] = IF c = r.build THEN row ELSE builds[c]
      /\ Ids' = Ids
  BY <1>1, WriteRow DEF ChainInv
<1>4. q \in runs' => SoundRun(q)'
  BY <1>1, <1>3 DEF SoundRun, Unpinned
<1>5. RunsOfRows' /\ runs' \subseteq Run
  BY <1>2, <1>3, <1>4, RunGoes
<1>6. TypeOK'
  BY <1>2, <1>5 DEF ChainInv, TypeOK, TableStep
<1> QED
  BY <1>2, <1>5, <1>6, PassesSame, ChainInvFrom

\* What is known of the row of a run.
LEMMA RowOfRun ==
  ASSUME ChainInv, NEW r \in runs
  PROVE  /\ r \in Run /\ SoundRun(r) /\ builds[r.build] \in Row
         /\ r.at \notin {"list", "trigger"} =>
              builds[r.build].status = "running" /\ builds[r.build].reason # "blocked"
<1>1. r \in Run /\ SoundRun(r)
  BY DEF ChainInv, TypeOK, RunsOfRows
<1>2. r.build \in 1..Len(builds) /\ builds \in Seq(Row)
  BY <1>1 DEF SoundRun, Ids, ChainInv, TypeOK
<1>3. builds[r.build] \in Row
  BY <1>2, ElementOfSeq
<1> QED
  BY <1>1, <1>3 DEF SoundRun, ChainInv, RowsSound

\* A run writes its own row.
LEMMA WrittenByRun ==
  ASSUME ChainInv, NEW r \in runs, NEW row \in Row,
         builds' = [builds EXCEPT ![r.build] = row]
  PROVE  builds'[r.build] = row
<1>1. PICK b \in Ids : b = r.build
  BY DEF ChainInv, RunsOfRows, SoundRun
<1>2. TypeOK /\ builds' = [builds EXCEPT ![b] = row]
  BY <1>1 DEF ChainInv
<1>3. \A c \in Ids : builds'[c] = IF c = b THEN row ELSE builds[c]
  BY <1>2, WriteRow
<1> QED
  BY <1>1, <1>3

LEMMA ResolveHeadInv ==
  ASSUME ChainInv, NEW r \in runs, ResolveHead(r)
  PROVE  ChainInv' /\ TableStep
<1> DEFINE c == head[Repo[builds[r.build].service]]
           row == [builds[r.build] EXCEPT !.sha = c]
<1>1. /\ r \in Run /\ SoundRun(r) /\ builds[r.build] \in Row
      /\ builds[r.build].status = "running" /\ builds[r.build].reason # "blocked"
      /\ r.at = "pipeline" /\ builds[r.build].sha = Unpinned
  BY RowOfRun DEF ResolveHead
<1>2. c \in Commit
  BY <1>1 DEF ChainInv, TypeOK, Row
<1>3. UNCHANGED <<head, meta, runs, passes, manual, faults>>
  BY DEF ResolveHead
<1>4. builds' = [builds EXCEPT ![r.build] = row]
  BY DEF ResolveHead
<1> HIDE DEF c
<1>5. row \in Row
  BY <1>1, <1>2 DEF Row
<1>6. /\ row.status = "running" /\ row.reason = builds[r.build].reason
      /\ row.service = builds[r.build].service /\ row.sha = c
      /\ row.triggeredBy = builds[r.build].triggeredBy
      /\ row.retryOf = builds[r.build].retryOf /\ row.met = builds[r.build].met
  BY <1>1, <1>2 DEF Row
<1> HIDE DEF row
<1>7. builds'[r.build] = row
  BY <1>4, <1>5, WrittenByRun
<1>8. RowKept(r.build)
  BY <1>1, <1>6, <1>7 DEF RowKept, Ended
<1>9. runs' \subseteq (runs \ {r}) \cup {r}
  BY <1>3
<1> QED
  BY <1>1, <1>3, <1>4, <1>5, <1>6, <1>8, <1>9, RunWrites

\* A run that has not ended finishes its row.
LEMMA FinishInv ==
  ASSUME ChainInv, NEW r \in runs, NEW st \in Ended, NEW re \in {"none", "error", "blocked"},
         r.at \notin {"list", "trigger"}, FinishBuild(r, st, re),
         re = "blocked" => st = "failed",
         st = "success" => r.at = "build",
         NEW q \in Run, q.build = r.build, runs' \subseteq (runs \ {r}) \cup {q},
         q \in runs' => q.at = "list" /\ st = "success",
         UNCHANGED <<meta, passes, manual, faults, head>>
  PROVE  ChainInv' /\ TableStep
<1> DEFINE row == [builds[r.build] EXCEPT !.status = st, !.reason = re]
<1>1. /\ r \in Run /\ SoundRun(r) /\ builds[r.build] \in Row
      /\ builds[r.build].status = "running"
  BY RowOfRun
<1>2. builds' = [builds EXCEPT ![r.build] = row]
  BY DEF FinishBuild
<1>3. row \in Row
  BY <1>1 DEF Row, Ended
<1>4. /\ row.status = st /\ row.reason = re
      /\ row.service = builds[r.build].service /\ row.sha = builds[r.build].sha
      /\ row.triggeredBy = builds[r.build].triggeredBy
      /\ row.retryOf = builds[r.build].retryOf /\ row.met = builds[r.build].met
  BY <1>1 DEF Row, Ended
<1> HIDE DEF row
<1>5. builds'[r.build] = row
  BY <1>2, <1>3, WrittenByRun
<1>6. st = "success" =>
        /\ builds[r.build].sha # Unpinned
        /\ \A d \in SameRepoDeps(builds[r.build].service, Deps) :
             BuiltAt(d, builds[r.build].sha)
  BY <1>1 DEF SoundRun, DepsBlocked
<1>7. RowKept(r.build)
  BY <1>1, <1>4, <1>5, <1>6 DEF RowKept, Ended
<1> QED
  BY <1>1, <1>2, <1>3, <1>4, <1>6, <1>7, RunWrites

LEMMA FailsInv ==
  ASSUME ChainInv, NEW r \in runs, NEW st \in {"failed", "no_pipeline"},
         NEW re \in {"none", "error", "blocked"}, re = "blocked" => st = "failed",
         r.at \notin {"list", "trigger"}, Fails(r, st, re),
         UNCHANGED <<meta, passes, manual, faults, head>>
  PROVE  ChainInv' /\ TableStep
<1>1. r \in Run /\ r \notin runs' /\ runs' \subseteq (runs \ {r}) \cup {r} /\ FinishBuild(r, st, re)
  BY DEF Fails, ChainInv, TypeOK
<1> QED
  BY <1>1, FinishInv DEF Ended

LEMMA BuildSucceedsInv ==
  ASSUME ChainInv, NEW r \in runs, BuildSucceeds(r)
  PROVE  ChainInv' /\ TableStep
<1> DEFINE q == [r EXCEPT !.at = "list"]
<1>1. q \in Run /\ q.build = r.build /\ q.at = "list"
  BY DEF ChainInv, TypeOK, Run
<1>2. /\ FinishBuild(r, "success", "none") /\ r.at = "build" /\ runs' = (runs \ {r}) \cup {q}
      /\ UNCHANGED <<head, meta, passes, manual, faults>>
  BY DEF BuildSucceeds, Goes
<1> HIDE DEF q
<1> QED
  BY <1>1, <1>2, FinishInv DEF Ended

\* A run goes on and leaves the table alone, or adds a row to it.
LEMMA RunStep ==
  ASSUME ChainInv, NEW r \in runs, NEW q \in Run, q.build = r.build,
         runs' \subseteq (runs \ {r}) \cup {q},
         TableStep, \A b \in Ids : builds'[b] = builds[b],
         q \in runs' => /\ q.at \in {"list", "trigger"} <=> r.at \in {"list", "trigger"}
                        /\ q.at # "pipeline" => builds[r.build].sha # Unpinned
                        /\ q.at = "build" => builds' = builds /\ ~ DepsBlocked(r),
         PassesKnow', meta' \in [Service -> SUBSET Service],
         faults' \in 0..MaxFaults, UNCHANGED <<head, passes, manual>>
  PROVE  ChainInv' /\ TableStep
<1>1. SoundRun(r) /\ r.build \in Ids'
  BY RowOfRun DEF SoundRun, TableStep
<1>2. ASSUME q \in runs' PROVE SoundRun(q)'
  <2>1. q.at = "build" => ~ DepsBlocked(q)'
    BY <1>2 DEF DepsBlocked, BuiltAt, SameRepoDeps, SameRepo, Ids
  <2> QED
    BY <1>1, <1>2, <2>1 DEF SoundRun, Unpinned
<1>3. RunsOfRows' /\ runs' \subseteq Run
  BY <1>2, RunGoes
<1>4. TypeOK'
  BY <1>3 DEF ChainInv, TypeOK, TableStep
<1> QED
  BY <1>3, <1>4, ChainInvFrom

LEMMA MetaInv ==
  ASSUME ChainInv, NEW r \in runs, UpdateServicePipelineMeta(r)
  PROVE  ChainInv' /\ TableStep
<1> DEFINE s == builds[r.build].service
           q == [r EXCEPT !.at = "resolve"]
<1>1. s \in Service
  BY RowOfRun DEF Row
<1>2. q \in Run /\ q.build = r.build /\ q.at = "resolve"
  BY DEF ChainInv, TypeOK, Run
<1>3. /\ r.at = "pipeline" /\ builds[r.build].sha # Unpinned
      /\ meta' = [meta EXCEPT ![s] = Deps[s]] /\ runs' = (runs \ {r}) \cup {q}
      /\ UNCHANGED <<head, builds, passes, manual, faults>>
  BY DEF UpdateServicePipelineMeta, Goes
<1> HIDE DEF q, s
<1>4. /\ meta' \in [Service -> SUBSET Service]
      /\ \A t \in Service : ~ Polled(t) => meta'[t] = Deps[t]
  BY <1>1, <1>3, GraphAssumption DEF ChainInv, TypeOK, PassesKnow
<1>5. PassesKnow'
  BY <1>3, <1>4 DEF ChainInv, PassesKnow, SoundPass, Polled, SameRepoDeps, SameRepo, Commit
<1>6. TableStep
  BY <1>3, SameTable DEF ChainInv
<1> QED
  BY <1>2, <1>3, <1>4, <1>5, <1>6, RunStep DEF ChainInv, TypeOK

LEMMA MetaFailsInv ==
  ASSUME ChainInv, NEW r \in runs, UpdateMetaFails(r)
  PROVE  ChainInv' /\ TableStep
<1> DEFINE q == [r EXCEPT !.at = "resolve"]
<1>1. q \in Run /\ q.build = r.build /\ q.at = "resolve"
  BY DEF ChainInv, TypeOK, Run
<1>2. /\ r.at = "pipeline" /\ builds[r.build].sha # Unpinned
      /\ runs' = (runs \ {r}) \cup {q}
      /\ UNCHANGED <<head, builds, meta, passes, manual>>
  BY DEF UpdateMetaFails, Goes
<1>3. faults' \in 0..MaxFaults
  BY ChainBounds DEF UpdateMetaFails, Fault, ChainInv, TypeOK
<1> HIDE DEF q
<1>4. TableStep /\ PassesKnow'
  BY <1>2, SameTable, PassesSame DEF ChainInv
<1> QED
  BY <1>1, <1>2, <1>3, <1>4, RunStep DEF ChainInv, TypeOK

LEMMA ResolveDepsInv ==
  ASSUME ChainInv, NEW r \in runs, ResolveDeps(r)
  PROVE  ChainInv' /\ TableStep
<1> DEFINE q == [r EXCEPT !.at = "build"]
<1>1. q \in Run /\ q.build = r.build /\ q.at = "build"
  BY DEF ChainInv, TypeOK, Run
<1>2. /\ r.at = "resolve" /\ ~ DepsBlocked(r) /\ runs' = (runs \ {r}) \cup {q}
      /\ UNCHANGED <<head, builds, meta, passes, manual, faults>>
  BY DEF ResolveDeps, Goes
<1>3. builds[r.build].sha # Unpinned
  BY <1>2, RowOfRun DEF SoundRun
<1> HIDE DEF q
<1>4. TableStep /\ PassesKnow'
  BY <1>2, SameTable, PassesSame DEF ChainInv
<1> QED
  BY <1>1, <1>2, <1>3, <1>4, RunStep DEF ChainInv, TypeOK

LEMMA RunFailsInv ==
  ASSUME ChainInv, NEW r \in runs, ResolveFails(r) \/ BuildFails(r)
  PROVE  ChainInv' /\ TableStep
BY FailsInv DEF ResolveFails, BuildFails

\* The trigger takes a run from "list" through its dependents.
LEMMA TriggersInv ==
  ASSUME ChainInv, NEW r \in runs, r.at \in {"list", "trigger"},
         NEW todo \in SUBSET Service, Triggers(r, todo),
         TableStep, \A b \in Ids : builds'[b] = builds[b],
         faults' \in 0..MaxFaults, UNCHANGED <<head, meta, passes, manual>>
  PROVE  ChainInv' /\ TableStep
<1> DEFINE q == [r EXCEPT !.at = "trigger", !.todo = todo]
<1>1. q \in Run /\ q.build = r.build /\ q.at = "trigger"
  BY DEF ChainInv, TypeOK, Run
<1>2. runs' \subseteq (runs \ {r}) \cup {q}
  BY DEF Triggers
<1>3. builds[r.build].sha # Unpinned
  BY RowOfRun DEF SoundRun
<1> HIDE DEF q
<1>4. PassesKnow'
  BY PassesSame
<1> QED
  BY <1>1, <1>2, <1>3, <1>4, RunStep DEF ChainInv, TypeOK

LEMMA ListDependentsInv ==
  ASSUME ChainInv, NEW r \in runs, ListDependents(r)
  PROVE  ChainInv' /\ TableStep
<1>1. TableStep /\ \A b \in Ids : builds'[b] = builds[b]
  BY SameTable DEF ListDependents, ChainInv
<1>2. PICK todo \in SUBSET Service : Triggers(r, todo)
  BY DEF ListDependents
<1> QED
  BY <1>1, <1>2, TriggersInv DEF ListDependents, ChainInv, TypeOK

LEMMA TriggerDependentInv ==
  ASSUME ChainInv, NEW r \in runs, NEW d \in Service, TriggerDependent(r, d)
  PROVE  ChainInv' /\ TableStep
<1> DEFINE c == builds[r.build].sha
<1>1. r.at = "trigger" /\ r \in Run /\ SoundRun(r) /\ builds[r.build] \in Row
  BY RowOfRun DEF TriggerDependent
<1>2. c \in Commit
  BY <1>1 DEF SoundRun, Row
<1>3. \/ Queue(d, Unpinned, "manual")
      \/ EnqueueBuildAtShaIfMissing(d, c)
      \/ builds' = builds
  BY DEF TriggerDependent
<1> HIDE DEF c
<1>4. TableStep /\ \A b \in Ids : builds'[b] = builds[b]
  <2>1. CASE Queue(d, Unpinned, "manual")
    BY <2>1, QueuedRow DEF Queue
  <2>2. CASE EnqueueBuildAtShaIfMissing(d, c)
    BY <1>2, <2>2, IfMissing
  <2>3. CASE builds' = builds
    BY <2>3, SameTable DEF ChainInv
  <2> QED
    BY <1>3, <2>1, <2>2, <2>3
<1>5. r.todo \ {d} \in SUBSET Service
  BY <1>1 DEF Run
<1> QED
  BY <1>1, <1>4, <1>5, TriggersInv DEF TriggerDependent, ChainInv, TypeOK

LEMMA TriggerFailsInv ==
  ASSUME ChainInv, NEW r \in runs, NEW d \in Service, TriggerFails(r, d)
  PROVE  ChainInv' /\ TableStep
<1>1. TableStep /\ \A b \in Ids : builds'[b] = builds[b]
  BY SameTable DEF TriggerFails, ChainInv
<1>2. r.todo \ {d} \in SUBSET Service
  BY DEF ChainInv, TypeOK, Run
<1>3. faults' \in 0..MaxFaults
  BY ChainBounds DEF TriggerFails, Fault, ChainInv, TypeOK
<1> QED
  BY <1>1, <1>2, <1>3, TriggersInv DEF TriggerFails

LEMMA ProgressInv ==
  ASSUME ChainInv, NEW r \in runs, Progress(r)
  PROVE  ChainInv' /\ TableStep
BY ResolveHeadInv, MetaInv, ResolveDepsInv, RunFailsInv, BuildSucceedsInv, ListDependentsInv,
   TriggerDependentInv DEF Progress

-----------------------------------------------------------------------------
LEMMA ChainInvInit == Init => ChainInv
<1> SUFFICES ASSUME Init PROVE ChainInv
  OBVIOUS
<1>1. builds \in Seq(Row) /\ Len(builds) = 0
  BY EmptySeq DEF Init
<1>2. Ids = {}
  BY <1>1 DEF Ids
<1> DEFINE idle == [at |-> "idle", job |-> <<>>, look |-> {}, roots |-> {}, dependents |-> {}]
<1>3. idle \in PassState /\ SoundPass(idle)
  BY DEF PassState, SoundPass
<1>4. \A p \in Pass : passes[p] = idle
  BY DEF Init
<1> HIDE DEF idle
<1>5. passes \in [Pass -> PassState] /\ \A p \in Pass : SoundPass(passes[p])
  BY <1>3, <1>4 DEF Init
<1>6. /\ meta \in [Service -> SUBSET Service]
      /\ \A s \in Service : ~ Polled(s) => meta[s] = Deps[s]
  BY GraphAssumption DEF Init, Polled
<1>7. head \in [{Repo[s] : s \in Service} -> Commit]
  BY ChainBounds DEF Init, Commit
<1>8. TypeOK
  <2>1. runs = {} /\ manual \in 0..MaxManual /\ faults \in 0..MaxFaults
    BY ChainBounds DEF Init
  <2> QED
    BY <1>1, <1>5, <1>6, <1>7, <2>1 DEF TypeOK
<1> QED
  BY <1>2, <1>5, <1>6, <1>8
     DEF Init, ChainInv, RunsOfRows, PassesKnow, RowsSound, SameCommit, QueuedOnce

LEMMA ChainInvStep == ChainInv /\ [Next]_vars => ChainInv'
<1> SUFFICES ASSUME ChainInv, [Next]_vars PROVE ChainInv'
  OBVIOUS
<1>1. CASE UNCHANGED vars
  <2>1. TableStep /\ RunsOfRows' /\ PassesKnow'
    BY <1>1, TableUntouched, PassesSame DEF vars
  <2>2. TypeOK'
    BY <1>1 DEF ChainInv, TypeOK, vars
  <2> QED
    BY <2>1, <2>2, ChainInvFrom
<1> QED
  BY <1>1, PushInv, StartBuildInv, PollInv, PollServiceFailsInv, ClaimInv, SweepOrphanInv,
     ProgressInv, RunDiesInv, MetaFailsInv, TriggerFailsInv DEF Next

\* The inductive invariant of the chain holds in every reachable state.
THEOREM ChainInvariant == Spec => []ChainInv
BY ChainInvInit, ChainInvStep, PTL DEF Spec

\* The state of the chain is well typed in every reachable state.
THEOREM ChainTypeCorrect == Spec => []TypeOK
<1>1. ChainInv => TypeOK
  BY DEF ChainInv
<1> QED
  BY <1>1, ChainInvariant, PTL

\* A dependent that built a commit has dependencies that built it, for every
\* graph, also one with cycles, and however often workers die.
THEOREM BuiltAtSameCommit == Spec => []SameCommit
<1>1. ChainInv => SameCommit
  BY DEF ChainInv
<1> QED
  BY <1>1, ChainInvariant, PTL

\* Any number of poll passes and triggers queue a dependent once per commit.
THEOREM DependentsQueuedOnce == Spec => []QueuedOnce
<1>1. ChainInv => QueuedOnce
  BY DEF ChainInv
<1> QED
  BY <1>1, ChainInvariant, PTL

-----------------------------------------------------------------------------
(***************************************************************************)
(* The poller goes forward.  This is about services without dependencies   *)
(* in their repository: roots.                                             *)
(***************************************************************************)
Root(s) == SameRepoDeps(s, Deps) = {}

PollRows(s) == {b \in Ids : builds[b].service = s /\ builds[b].triggeredBy = "poll"}

\* What the cache knows is right, so the passes and the triggers queue builds
\* of dependents only, apart from what is polled.
PassKnown(st) ==
  /\ \A s \in st.dependents : ~ Root(s)
  /\ st.at = "pinned" => ~ Root(st.job[1])

GraphKnown ==
  /\ \A s \in Service : meta[s] \subseteq Deps[s]
  /\ \A r \in runs : \A d \in r.todo : builds[r.build].service \in Deps[d]
  /\ \A p \in Pass : PassKnown(passes[p])

\* Newest(s): the newest of them, if there is any.
Newest(s) == {b \in PollRows(s) : \A a \in PollRows(s) : a <= b}

\* A pass that overlooked another one queued a row after a, and by b.
Meets(s, a, b) == \E n \in PollRows(s) : a < n /\ n <= b /\ builds[n].met

\* The rows of a root are in the order of their commits wherever no pass
\* overlooked another one, a retry at the commit of the row before it, and
\* none is ahead of the branch.
InOrder(s) ==
  /\ \A b \in PollRows(s) : builds[b].sha <= head[Repo[s]]
  /\ \A a, b \in PollRows(s) : a < b /\ ~ Meets(s, a, b) =>
       /\ builds[a].sha <= builds[b].sha
       /\ builds[b].retryOf = 0 => builds[a].sha < builds[b].sha

RowsForward == \A s \in Service : Root(s) => InOrder(s)

\* A pass holds a commit c of the branch.  As long as no other pass queued the
\* service, c is not older than the newest row, and newer once it has compared.
Ahead(s, c, st) ==
  /\ c <= head[Repo[s]]
  /\ st.look \subseteq Ids
  /\ st.look = PolledBuilds(s) =>
       \A b \in Newest(s) : /\ builds[b].sha <= c
                            /\ st.at = "insert" => builds[b].sha < c

PassAhead(p) ==
  \A st \in {passes[p]}, s \in Service, c \in Commit :
    st.at \in {"compare", "insert"} /\ st.job = <<s, c>> /\ Root(s) => Ahead(s, c, st)

ForwardInv == GraphKnown /\ RowsForward /\ \A p \in Pass : PassAhead(p)

\* A row that a step adds is no polled row of a root, or the retry of the
\* newest one.
OldCommit ==
  LET new == Len(builds) + 1 IN
  new \in Ids' /\ builds'[new].triggeredBy = "poll" /\ Root(builds'[new].service) =>
    /\ builds'[new].retryOf # 0
    /\ \E o \in PollRows(builds'[new].service) :
         /\ builds[o].sha = builds'[new].sha
         /\ \A b \in PollRows(builds'[new].service) : b <= o

HeadsGrow == \A s \in Service : head[Repo[s]] <= head'[Repo[s]]

\* Commits are numbers.
LEMMA Numbers ==
  ASSUME ChainInv
  PROVE  /\ \A b \in Ids : /\ builds[b] \in Row /\ builds[b].sha \in Nat /\ b \in Nat
                           /\ b # 0 /\ b < Len(builds) + 1 /\ builds[b].service \in Service
         /\ \A s \in Service : head[Repo[s]] \in Nat
         /\ Len(builds) \in Nat
<1>1. builds \in Seq(Row) /\ Len(builds) \in Nat /\ Ids = 1..Len(builds)
  BY LenProperties DEF ChainInv, TypeOK, Ids
<1>2. ASSUME NEW b \in Ids
      PROVE  /\ builds[b] \in Row /\ builds[b].sha \in Nat /\ b \in Nat
             /\ b # 0 /\ b < Len(builds) + 1 /\ builds[b].service \in Service
  <2>1. builds[b] \in Row
    BY <1>1, ElementOfSeq
  <2> QED
    BY <1>1, <2>1 DEF Row, Commit, Unpinned
<1>3. \A s \in Service : head[Repo[s]] \in Nat
  BY DEF ChainInv, TypeOK, Commit
<1> QED
  BY <1>1, <1>2, <1>3

\* The polled rows of a service, after a step.
LEMMA PollRowsStep ==
  ASSUME ChainInv, TableStep, NEW s
  PROVE  /\ \A b \in PollRows(s) : /\ b \in PollRows(s)' /\ builds'[b].sha = builds[b].sha
                                   /\ builds'[b].retryOf = builds[b].retryOf
                                   /\ builds'[b].met = builds[b].met
         /\ \A b \in PollRows(s)' \ PollRows(s) :
              /\ b = Len(builds) + 1 /\ b \in Ids'
              /\ builds'[b].service = s /\ builds'[b].triggeredBy = "poll"
         /\ PolledBuilds(s) = {b \in PollRows(s) : builds[b].retryOf = 0}
         /\ PolledBuilds(s)' = {b \in PollRows(s)' : builds'[b].retryOf = 0}
<1>1. /\ \A b \in Ids : RowKept(b) /\ b \in Ids'
      /\ \A b \in Ids' : b \in Ids \/ b = Len(builds) + 1
  BY DEF TableStep
<1>2. \A b \in PollRows(s) : builds[b].sha # Unpinned
  BY DEF PollRows, ChainInv, RowsSound
<1> QED
  BY <1>1, <1>2 DEF PollRows, RowKept, PolledBuilds

\* A service whose newest commit polled is the one it was.
NewestKept(s) ==
  /\ PolledBuilds(s)' = PolledBuilds(s)
  /\ \A b \in Newest(s)' : \E o \in Newest(s) : builds[o].sha = builds'[b].sha

LEMMA RowsStayNewest ==
  ASSUME ChainInv, TableStep, NEW s, PollRows(s)' = PollRows(s)
  PROVE  NewestKept(s)
<1>1. Newest(s)' = Newest(s)
  BY DEF Newest
<1>2. /\ \A b \in PollRows(s) : /\ builds'[b].sha = builds[b].sha
                                /\ builds'[b].retryOf = builds[b].retryOf
      /\ PolledBuilds(s) = {b \in PollRows(s) : builds[b].retryOf = 0}
      /\ PolledBuilds(s)' = {b \in PollRows(s)' : builds'[b].retryOf = 0}
  BY PollRowsStep
<1>3. Newest(s) \subseteq PollRows(s)
  BY DEF Newest
<1> QED
  BY <1>1, <1>2, <1>3 DEF NewestKept

\* What a step adds to the rows of a root repeats the newest one.
LEMMA OldNewest ==
  ASSUME ChainInv, TableStep, OldCommit, NEW s, Root(s)
  PROVE  /\ NewestKept(s)
         /\ \A b \in PollRows(s)' \ PollRows(s) :
              /\ b = Len(builds) + 1 /\ builds'[b].retryOf # 0
              /\ \E o \in Newest(s) : builds[o].sha = builds'[b].sha
<1>1. ASSUME NEW b \in PollRows(s)' \ PollRows(s)
      PROVE  /\ b = Len(builds) + 1 /\ builds'[b].retryOf # 0
             /\ \E o \in Newest(s) : builds[o].sha = builds'[b].sha
  <2>1. /\ b = Len(builds) + 1 /\ b \in Ids'
        /\ builds'[b].service = s /\ builds'[b].triggeredBy = "poll"
    BY <1>1, PollRowsStep
  <2> QED
    BY <2>1 DEF OldCommit, Newest
<1>2. ASSUME NEW b \in Newest(s)'
      PROVE  \E o \in Newest(s) : builds[o].sha = builds'[b].sha
  <2>1. CASE b \in PollRows(s)
    <3>1. \A a \in PollRows(s) : a \in PollRows(s)' /\ builds'[a].sha = builds[a].sha
      BY PollRowsStep
    <3>2. \A a \in PollRows(s)' : a <= b
      BY <1>2 DEF Newest
    <3> QED
      BY <2>1, <3>1, <3>2 DEF Newest
  <2>2. CASE b \notin PollRows(s)
    <3>1. b \in PollRows(s)'
      BY <1>2 DEF Newest
    <3> QED
      BY <1>1, <2>2, <3>1
  <2> QED
    BY <2>1, <2>2
<1>3. PolledBuilds(s)' = PolledBuilds(s)
  BY <1>1, PollRowsStep
<1> QED
  BY <1>1, <1>2, <1>3 DEF NewestKept

\* Heads and commits, before and after a step.
LEMMA HeadsAfter ==
  ASSUME ChainInv, ChainInv', HeadsGrow
  PROVE  \A s \in Service : /\ head[Repo[s]] \in Nat /\ head'[Repo[s]] \in Nat
                            /\ head[Repo[s]] <= head'[Repo[s]]
<1>1. \A s \in Service : head'[Repo[s]] \in Nat
  BY DEF ChainInv, TypeOK, Commit
<1> QED
  BY <1>1, Numbers DEF HeadsGrow

\* A pass that is left alone stays ahead, or is one that overlooked a row.
LEMMA AheadStays ==
  ASSUME ChainInv, TableStep, HeadsGrow, ChainInv',
         NEW s \in Service, NEW c \in Commit, NEW st, Ahead(s, c, st),
         NewestKept(s) \/ Len(builds) + 1 \in PolledBuilds(s)'
  PROVE  Ahead(s, c, st)'
<1>1. c \in Nat /\ \A b \in Ids : builds[b].sha \in Nat
  BY Numbers DEF Commit
<1>2. c <= head'[Repo[s]]
  BY <1>1, HeadsAfter DEF Ahead
<1>3. st.look \subseteq Ids'
  BY DEF Ahead, TableStep
<1>4. ASSUME st.look = PolledBuilds(s)', NEW b \in Newest(s)'
      PROVE  /\ builds'[b].sha <= c
             /\ st.at = "insert" => builds'[b].sha < c
  <2>1. Len(builds) + 1 \notin st.look
    BY Numbers DEF Ahead, Ids
  <2>2. NewestKept(s)
    BY <1>4, <2>1
  <2> QED
    BY <1>4, <2>2 DEF NewestKept, Ahead
<1> QED
  BY <1>2, <1>3, <1>4 DEF Ahead

\* What is kept of the rows that were there.
LEMMA MeetsStays ==
  ASSUME ChainInv, TableStep, NEW s, NEW a, NEW b \in Nat, NEW o \in Nat, o <= b,
         Meets(s, a, o)
  PROVE  Meets(s, a, b)'
<1>1. PICK n \in PollRows(s) : a < n /\ n <= o /\ builds[n].met
  BY DEF Meets
<1>2. n \in PollRows(s)' /\ builds'[n].met
  BY <1>1, PollRowsStep
<1>3. n \in Nat
  BY Numbers DEF PollRows
<1> QED
  BY <1>1, <1>2, <1>3 DEF Meets

\* A step that adds no newer commit keeps the order, and keeps the passes
\* that it leaves alone ahead.
LEMMA RowsStayForward ==
  ASSUME ChainInv, RowsForward, TableStep, OldCommit, HeadsGrow,
         ChainInv'
  PROVE  /\ RowsForward'
         /\ \A p \in Pass : PassAhead(p) /\ passes'[p] = passes[p] => PassAhead(p)'
<1> DEFINE new == Len(builds) + 1
<1>1. /\ \A b \in Ids : builds[b].sha \in Nat /\ b \in Nat /\ b < new
      /\ new \in Nat /\ \A s : Newest(s) \subseteq PollRows(s) /\ PollRows(s) \subseteq Ids
  BY Numbers DEF PollRows, Newest
<1> HIDE DEF new
<1>2. ASSUME NEW s \in Service, Root(s) PROVE InOrder(s)'
  <2>1. InOrder(s)
    BY <1>2 DEF RowsForward
  <2>2. \A b \in PollRows(s) : builds'[b].sha = builds[b].sha /\ builds'[b].retryOf = builds[b].retryOf
    BY PollRowsStep
  <2>3. ASSUME NEW b \in PollRows(s)', b \notin PollRows(s)
        PROVE  /\ b = new /\ builds'[b].retryOf # 0
               /\ \E o \in Newest(s) : builds[o].sha = builds'[b].sha
    BY <1>2, <2>3, OldNewest DEF new
  <2>4. ASSUME NEW b \in PollRows(s)' PROVE builds'[b].sha <= head'[Repo[s]]
    <3>1. PICK o \in PollRows(s) : builds[o].sha = builds'[b].sha
      BY <1>1, <2>2, <2>3, <2>4
    <3>2. builds[o].sha <= head[Repo[s]] /\ builds[o].sha \in Nat
      BY <1>1, <2>1 DEF InOrder
    <3> QED
      BY <3>1, <3>2, HeadsAfter
  <2>5. ASSUME NEW a \in PollRows(s)', NEW b \in PollRows(s)', a < b, ~ Meets(s, a, b)'
        PROVE  /\ builds'[a].sha <= builds'[b].sha
               /\ builds'[b].retryOf = 0 => builds'[a].sha < builds'[b].sha
    <3>1. CASE a \in PollRows(s) /\ b \in PollRows(s)
      <4>1. ~ Meets(s, a, b)
        BY <1>1, <2>5, <3>1, MeetsStays
      <4>2. /\ builds[a].sha <= builds[b].sha
            /\ builds[b].retryOf = 0 => builds[a].sha < builds[b].sha
        BY <2>1, <2>5, <3>1, <4>1 DEF InOrder
      <4> QED
        BY <2>2, <3>1, <4>2
    <3>2. CASE a \in PollRows(s) /\ b \notin PollRows(s)
      <4>1. b = new /\ builds'[b].retryOf # 0
        BY <2>3, <2>5, <3>2
      <4>2. PICK o \in Newest(s) : builds[o].sha = builds'[b].sha
        BY <2>3, <2>5, <3>2
      <4>3. /\ o \in PollRows(s) /\ a \in Nat /\ o \in Nat /\ o <= b /\ b \in Nat
            /\ builds[a].sha \in Nat /\ builds[o].sha \in Nat
        BY <1>1, <3>2, <4>1
      <4>4. a <= o
        BY <3>2 DEF Newest
      <4>5. ~ Meets(s, a, o)
        BY <2>5, <4>3, MeetsStays
      <4>6. builds[a].sha <= builds[o].sha
        BY <2>1, <3>2, <4>3, <4>4, <4>5 DEF InOrder
      <4> QED
        BY <2>2, <3>2, <4>1, <4>2, <4>6
    <3>3. CASE a \notin PollRows(s)
      <4>1. a = new
        BY <2>3, <2>5, <3>3
      <4>2. b \in Nat /\ b <= new
        BY <1>1, <2>3, <2>5
      <4> QED
        BY <1>1, <2>5, <4>1, <4>2
    <3> QED
      BY <3>1, <3>2, <3>3
  <2> QED
    BY <2>4, <2>5 DEF InOrder
<1>3. RowsForward'
  BY <1>2 DEF RowsForward, Root, SameRepoDeps, SameRepo
<1>4. ASSUME NEW p \in Pass, PassAhead(p), passes'[p] = passes[p],
             NEW st \in {passes[p]}, NEW s \in Service, NEW c \in Commit,
             st.at \in {"compare", "insert"}, st.job = <<s, c>>, Root(s)
      PROVE  Ahead(s, c, st)'
  <2>1. Ahead(s, c, st)
    BY <1>4 DEF PassAhead
  <2>2. NewestKept(s)
    BY <1>4, OldNewest
  <2> QED
    BY <2>1, <2>2, AheadStays
<1>5. \A p \in Pass : PassAhead(p) /\ passes'[p] = passes[p] => PassAhead(p)'
  BY <1>4 DEF PassAhead, Root, SameRepoDeps, SameRepo, Commit
<1> QED
  BY <1>3, <1>5

\* A run has a part of the dependents it had, or the one it goes on from.
LEMMA TodoStays ==
  ASSUME ChainInv, GraphKnown, TableStep,
         \A r \in runs' : \/ r.todo = {}
                          \/ \E q \in runs : q.build = r.build /\ r.todo \subseteq q.todo
  PROVE  \A r \in runs' : \A d \in r.todo : builds'[r.build].service \in Deps[d]
<1> SUFFICES ASSUME NEW r \in runs', NEW d \in r.todo
             PROVE  builds'[r.build].service \in Deps[d]
  OBVIOUS
<1>1. PICK q \in runs : q.build = r.build /\ d \in q.todo
  OBVIOUS
<1>2. q.build \in Ids /\ builds[q.build].service \in Deps[d]
  BY <1>1 DEF ChainInv, RunsOfRows, SoundRun, GraphKnown
<1> QED
  BY <1>1, <1>2 DEF TableStep, RowKept

\* The parts of the invariant after a step.
LEMMA ForwardFrom ==
  ASSUME ChainInv, ForwardInv, ChainInv', TableStep, OldCommit, HeadsGrow,
         \A s \in Service : meta'[s] \subseteq Deps[s],
         \A r \in runs' : \A d \in r.todo : builds'[r.build].service \in Deps[d],
         \A p \in Pass : \/ passes'[p] = passes[p]
                         \/ PassKnown(passes'[p]) /\ PassAhead(p)'
  PROVE  ForwardInv'
<1>1. RowsForward' /\ \A p \in Pass : PassAhead(p)'
  BY RowsStayForward DEF ForwardInv
<1>2. \A p \in Pass : PassKnown(passes'[p])
  BY DEF ForwardInv, GraphKnown
<1>3. GraphKnown'
  BY <1>2 DEF GraphKnown, PassKnown, Root, SameRepoDeps, SameRepo
<1> QED
  BY <1>1, <1>3 DEF ForwardInv

-----------------------------------------------------------------------------
\* Steps that add no row, or one that is not polled or of a dependent.
LEMMA NoNewRow ==
  ASSUME ChainInv, Ids' = Ids
  PROVE  OldCommit
BY Numbers DEF OldCommit

LEMMA QueueOther ==
  ASSUME ChainInv, NEW s \in Service, NEW c \in Commit \cup {Unpinned},
         NEW by \in {"poll", "manual"}, NEW met \in BOOLEAN, by = "manual" \/ ~ Root(s),
         builds' = Append(builds, NewRow(s, c, by, met))
  PROVE  OldCommit
<1> DEFINE row == NewRow(s, c, by, met)
<1>1. row \in Row /\ row.triggeredBy = by /\ row.service = s
  BY DEF NewRow, Row
<1>2. builds \in Seq(Row)
  BY DEF ChainInv, TypeOK
<1> HIDE DEF row
<1>3. builds'[Len(builds) + 1] = row
  BY <1>1, <1>2, AppendProperties DEF row
<1> QED
  BY <1>1, <1>3 DEF OldCommit

LEMMA MissingOther ==
  ASSUME ChainInv, NEW s \in Service, NEW c \in Commit, ~ Root(s),
         EnqueueBuildAtShaIfMissing(s, c)
  PROVE  OldCommit
<1>1. CASE Covered(s, c)
  <2>1. Ids' = Ids
    BY <1>1 DEF EnqueueBuildAtShaIfMissing, Ids
  <2> QED
    BY <2>1, NoNewRow
<1>2. CASE ~ Covered(s, c)
  BY <1>2, QueueOther DEF EnqueueBuildAtShaIfMissing, Queue
<1> QED
  BY <1>1, <1>2

\* A step of the table and the runs.
LEMMA RunsForward ==
  ASSUME ChainInv, ForwardInv, ChainInv', TableStep, OldCommit,
         \A s \in Service : meta'[s] \subseteq Deps[s],
         \A r \in runs' : \/ r.todo = {}
                          \/ \E q \in runs : q.build = r.build /\ r.todo \subseteq q.todo,
         UNCHANGED <<head, passes>>
  PROVE  ForwardInv'
<1>1. \A r \in runs' : \A d \in r.todo : builds'[r.build].service \in Deps[d]
  BY TodoStays DEF ForwardInv
<1>2. HeadsGrow
  BY Numbers DEF HeadsGrow
<1> QED
  BY <1>1, <1>2, ForwardFrom

\* A step of a pass.
LEMMA PassForward ==
  ASSUME ChainInv, ForwardInv, ChainInv', TableStep, OldCommit,
         NEW p \in Pass, NEW st, PassKnown(st),
         passes' = [passes EXCEPT ![p] = st],
         st.at \in {"compare", "insert"} => PassAhead(p)',
         UNCHANGED <<head, meta, runs>>
  PROVE  ForwardInv'
<1>1. \A r \in runs' : \A d \in r.todo : builds'[r.build].service \in Deps[d]
  BY TodoStays DEF ForwardInv
<1>2. HeadsGrow
  BY Numbers DEF HeadsGrow
<1>3. \A s \in Service : meta'[s] \subseteq Deps[s]
  BY DEF ForwardInv, GraphKnown
<1>4. \A q \in Pass : passes'[q] = IF q = p THEN st ELSE passes[q]
  BY DEF ChainInv, TypeOK
<1>5. PassKnown(passes'[p]) /\ PassAhead(p)'
  BY <1>4 DEF PassAhead
<1> QED
  BY <1>1, <1>2, <1>3, <1>4, <1>5, ForwardFrom

\* A pass takes the next service.
LEMMA NextForward ==
  ASSUME ChainInv, ForwardInv, ChainInv', TableStep, OldCommit,
         NEW p \in Pass, NextService(p), UNCHANGED <<head, meta, runs>>
  PROVE  ForwardInv'
<1> DEFINE st == [passes[p] EXCEPT !.at = "poll", !.job = <<>>, !.look = {}]
<1>1. passes[p] \in PassState /\ PassKnown(passes[p])
  BY DEF ChainInv, TypeOK, ForwardInv, GraphKnown
<1>2. st.at = "poll" /\ st.dependents = passes[p].dependents
  BY <1>1 DEF PassState
<1>3. passes' = [passes EXCEPT ![p] = st]
  BY DEF NextService
<1> HIDE DEF st
<1>4. PassKnown(st)
  BY <1>1, <1>2 DEF PassKnown
<1> QED
  BY <1>2, <1>3, <1>4, PassForward

LEMMA PushForward ==
  ASSUME ChainInv, ForwardInv, ChainInv', TableStep, NEW g \in DOMAIN head, Push(g)
  PROVE  ForwardInv'
<1>1. OldCommit
  BY NoNewRow DEF Push, Ids
<1>2. HeadsGrow
  BY Numbers DEF HeadsGrow, Push, ChainInv, TypeOK
<1>3. \A r \in runs' : \A d \in r.todo : builds'[r.build].service \in Deps[d]
  BY DEF Push, ForwardInv, GraphKnown
<1> QED
  BY <1>1, <1>2, <1>3, ForwardFrom DEF Push, ForwardInv, GraphKnown

LEMMA StartBuildForward ==
  ASSUME ChainInv, ForwardInv, ChainInv', TableStep, NEW s \in Service, StartBuild(s)
  PROVE  ForwardInv'
<1>1. Queue(s, Unpinned, "manual") /\ UNCHANGED <<head, meta, runs, passes>>
  BY DEF StartBuild
<1>2. OldCommit
  BY <1>1, QueueOther DEF Queue
<1> QED
  BY <1>1, <1>2, RunsForward DEF ForwardInv, GraphKnown

LEMMA PollStartForward ==
  ASSUME ChainInv, ForwardInv, ChainInv', TableStep, NEW p \in Pass, PollStart(p)
  PROVE  ForwardInv'
<1> DEFINE dependents == {s \in Service \ Locked : SameRepoDeps(s, meta) # {}}
           roots == (Service \ Locked) \ dependents
           st == [passes[p] EXCEPT !.at = "poll", !.dependents = dependents, !.roots = roots]
<1>1. \A s \in dependents : ~ Root(s)
  BY DEF ForwardInv, GraphKnown, Root, SameRepoDeps
<1>2. passes' = [passes EXCEPT ![p] = st] /\ UNCHANGED <<head, builds, meta, runs>>
  BY DEF PollStart
<1> HIDE DEF dependents, roots
<1>3. st.at = "poll" /\ st.dependents = dependents
  BY DEF ChainInv, TypeOK, PassState
<1> HIDE DEF st
<1>4. PassKnown(st)
  BY <1>1, <1>3 DEF PassKnown
<1>5. OldCommit
  BY <1>2, NoNewRow DEF Ids
<1> QED
  BY <1>2, <1>3, <1>4, <1>5, PassForward

\* What a pass found at the branch is as new as any row, and it has seen them.
LEMMA LsRemoteForward ==
  ASSUME ChainInv, ForwardInv, ChainInv', TableStep,
         NEW p \in Pass, NEW s \in Service, LsRemote(p, s)
  PROVE  ForwardInv'
<1> DEFINE c == head[Repo[s]]
           st == [passes[p] EXCEPT !.at = "compare", !.job = <<s, c>>, !.look = PolledBuilds(s),
                                   !.roots = passes[p].roots \ {s}]
<1>1. passes[p] \in PassState /\ PassKnown(passes[p])
  BY DEF ChainInv, TypeOK, ForwardInv, GraphKnown
<1>2. passes' = [passes EXCEPT ![p] = st] /\ UNCHANGED <<head, builds, meta, runs>>
  BY DEF LsRemote
<1>3. c \in Nat
  BY Numbers
<1>4. /\ st.at = "compare" /\ st.job = <<s, c>> /\ st.look = PolledBuilds(s)
      /\ st.dependents = passes[p].dependents
  BY <1>1 DEF PassState
<1> HIDE DEF st, c
<1>5. PassKnown(st)
  BY <1>1, <1>4 DEF PassKnown
<1>6. passes'[p] = st
  BY <1>2 DEF ChainInv, TypeOK
<1>7. ASSUME Root(s) PROVE Ahead(s, c, st)
  <2>1. \A b \in Newest(s) : builds[b].sha <= head[Repo[s]]
    BY <1>7 DEF ForwardInv, RowsForward, InOrder, Newest
  <2>2. PolledBuilds(s) \subseteq Ids
    BY DEF PolledBuilds
  <2>3. c <= head[Repo[s]]
    BY <1>3 DEF c
  <2> QED
    BY <1>4, <2>1, <2>2, <2>3 DEF Ahead, c
<1>8. PassAhead(p)'
  <2>1. ASSUME NEW x \in {passes'[p]}, NEW t \in Service, NEW d \in Commit, Root(t),
               x.job = <<t, d>>
        PROVE  Ahead(t, d, x)'
    <3>1. x = st /\ t = s /\ d = c
      BY <1>4, <1>6, <2>1
    <3>2. Ahead(t, d, x)
      BY <1>7, <2>1, <3>1
    <3> QED
      BY <1>2, <3>2 DEF Ahead, Newest, PollRows, PolledBuilds, Ids
  <2> QED
    BY <2>1 DEF PassAhead, Root, SameRepoDeps, SameRepo, Commit
<1>9. OldCommit
  BY <1>2, NoNewRow DEF Ids
<1> QED
  BY <1>2, <1>5, <1>8, <1>9, PassForward

\* The commit getLatestBuildSha returns is the last one polled.
LEMMA LatestPolled ==
  ASSUME ChainInv, NEW s, PollRows(s) # {}
  PROVE  \E b \in PollRows(s) : /\ LatestBuildSha(s) = builds[b].sha
                                /\ \A c \in PollRows(s) : c <= b
<1> DEFINE polled == {b \in Ids : /\ builds[b].service = s
                                  /\ builds[b].triggeredBy = "poll"
                                  /\ builds[b].sha # Unpinned}
           fromEnd == {Len(builds) - b : b \in polled}
<1>1. polled = PollRows(s)
  BY DEF PollRows, ChainInv, RowsSound
<1>2. Len(builds) \in Nat /\ polled \subseteq 1..Len(builds)
  BY Numbers DEF Ids
<1>3. fromEnd \subseteq Nat /\ fromEnd # {}
  BY <1>1, <1>2
<1>4. PICK x \in fromEnd : \A y \in fromEnd : x <= y
  BY <1>3, LeastExists
<1>5. \E b \in polled : \A c \in polled : c <= b
  <2> HIDE DEF polled
  <2>1. PICK b \in polled : x = Len(builds) - b
    BY <1>4
  <2>2. ASSUME NEW c \in polled PROVE c <= b
    <3>1. Len(builds) - b <= Len(builds) - c
      BY <1>4, <2>1
    <3> QED
      BY <1>2, <3>1
  <2> QED
    BY <2>2
<1> QED
  BY <1>1, <1>5 DEF LatestBuildSha

LEMMA CompareForward ==
  ASSUME ChainInv, ForwardInv, ChainInv', TableStep, NEW p \in Pass, Compare(p)
  PROVE  ForwardInv'
<1>1. UNCHANGED <<head, builds, meta, runs>> /\ passes[p].at = "compare"
  BY DEF Compare
<1>2. OldCommit
  BY <1>1, NoNewRow DEF Ids
<1>3. CASE NextService(p)
  BY <1>1, <1>2, <1>3, NextForward
<1>4. CASE /\ LatestBuildSha(passes[p].job[1]) # passes[p].job[2]
           /\ passes' = [passes EXCEPT ![p].at = "insert"]
  <2> DEFINE st == [passes[p] EXCEPT !.at = "insert"]
  <2>1. passes[p] \in PassState /\ PassKnown(passes[p]) /\ PassAhead(p)
    BY DEF ChainInv, TypeOK, ForwardInv, GraphKnown
  <2>2. /\ st.at = "insert" /\ st.job = passes[p].job
        /\ st.dependents = passes[p].dependents /\ st.look = passes[p].look
    BY <2>1 DEF PassState
  <2>3. passes' = [passes EXCEPT ![p] = st]
    BY <1>4
  <2> HIDE DEF st
  <2>4. PassKnown(st)
    BY <2>1, <2>2 DEF PassKnown
  <2>5. passes'[p] = st
    BY <2>3 DEF ChainInv, TypeOK
  <2>6. ASSUME NEW x \in {passes'[p]}, NEW s \in Service, NEW c \in Commit, Root(s),
               x.job = <<s, c>>
        PROVE  Ahead(s, c, x)'
    <3>1. x = st /\ x.at = "insert" /\ passes[p].job = <<s, c>> /\ x.look = passes[p].look
      BY <2>2, <2>5, <2>6
    <3>2. PICK old : old = passes[p]
      OBVIOUS
    <3>3. Ahead(s, c, old)
      BY <1>1, <2>1, <2>6, <3>1, <3>2 DEF PassAhead
    <3>4. c \in Nat /\ \A b \in Ids : builds[b].sha \in Nat
      BY Numbers DEF Commit
    <3>5. ASSUME NEW b \in Newest(s) PROVE builds[b].sha # c
      <4>1. PICK l \in PollRows(s) : /\ LatestBuildSha(s) = builds[l].sha
                                     /\ \A a \in PollRows(s) : a <= l
        BY <3>5, LatestPolled DEF Newest
      <4>2. b \in PollRows(s) /\ \A a \in PollRows(s) : a <= b
        BY <3>5 DEF Newest
      <4>3. b = l
        BY <4>1, <4>2, Numbers DEF PollRows
      <4>4. passes[p].job[1] = s /\ passes[p].job[2] = c
        BY <3>1
      <4> QED
        BY <1>4, <4>1, <4>3, <4>4
    <3>6. Ahead(s, c, x)
      BY <3>1, <3>2, <3>3, <3>4, <3>5 DEF Ahead, Newest, PollRows
    <3> QED
      BY <1>1, <3>6 DEF Ahead, Newest, PollRows, PolledBuilds, Ids
  <2>7. PassAhead(p)'
    BY <2>6 DEF PassAhead, Root, SameRepoDeps, SameRepo, Commit
  <2> QED
    BY <1>1, <1>2, <2>3, <2>4, <2>7, PassForward
<1> QED
  BY <1>3, <1>4 DEF Compare

\* The pass queues the commit it holds: newer than the newest row, or the row
\* tells that it overlooked another one.  The other passes have overlooked
\* this row.
LEMMA EnqueueBuildForward ==
  ASSUME ChainInv, ForwardInv, ChainInv', TableStep, NEW p \in Pass, EnqueueBuild(p)
  PROVE  ForwardInv'
<1> DEFINE new == Len(builds) + 1
<1>1. /\ NextService(p) /\ UNCHANGED <<head, meta, runs>>
      /\ passes[p].at = "insert" /\ PassAhead(p) /\ PassKnown(passes[p])
  BY DEF EnqueueBuild, ForwardInv, GraphKnown
<1>2. PICK s \in Service, c \in Commit : passes[p].job = <<s, c>>
  BY <1>1 DEF ChainInv, PassesKnow, SoundPass
<1>3. PICK met \in BOOLEAN : met <=> PolledBuilds(s) # passes[p].look
  OBVIOUS
<1>4. builds' = Append(builds, NewRow(s, c, "poll", met))
  BY <1>2, <1>3 DEF EnqueueBuild
<1>5. CASE ~ Root(s)
  <2>1. OldCommit
    BY <1>4, <1>5, QueueOther
  <2> QED
    BY <1>1, <2>1, NextForward
<1>6. CASE Root(s)
  <2>1. /\ c \in Nat /\ c <= head[Repo[s]]
        /\ ~ met => \A b \in Newest(s) : builds[b].sha < c
    <3>1. PICK st : st = passes[p]
      OBVIOUS
    <3>2. Ahead(s, c, st)
      BY <1>1, <1>2, <1>6, <3>1 DEF PassAhead
    <3> QED
      BY <1>1, <1>3, <3>1, <3>2 DEF Ahead, Commit
  <2>2. /\ new \in Ids' /\ builds'[new].service = s /\ builds'[new].sha = c
        /\ builds'[new].met = met /\ builds'[new].triggeredBy = "poll"
        /\ builds'[new].retryOf = 0
    <3> DEFINE row == NewRow(s, c, "poll", met)
    <3>1. /\ row \in Row /\ row.service = s /\ row.sha = c /\ row.met = met
          /\ row.triggeredBy = "poll" /\ row.retryOf = 0
      BY DEF NewRow, Row
    <3>2. builds \in Seq(Row)
      BY DEF ChainInv, TypeOK
    <3> HIDE DEF row
    <3>3. builds'[new] = row /\ Len(builds') = new
      BY <1>4, <3>1, <3>2, AppendProperties DEF row
    <3>4. new \in Ids'
      BY <3>3, Numbers DEF Ids
    <3> QED
      BY <3>1, <3>3, <3>4
  <2>3. /\ \A b \in Ids : builds[b].sha \in Nat /\ b \in Nat /\ b < new
        /\ new \in Nat /\ \A t : PollRows(t) \subseteq Ids
    BY Numbers DEF PollRows
  <2>4. new \in PolledBuilds(s)' /\ \A t : t # s => PollRows(t)' = PollRows(t)
    <3>1. new \in PolledBuilds(s)'
      BY <2>2 DEF PolledBuilds
    <3>2. ASSUME NEW t, t # s PROVE PollRows(t)' = PollRows(t)
      BY <2>2, <3>2, PollRowsStep
    <3> QED
      BY <3>1, <3>2
  <2> HIDE DEF new
  <2>5. ASSUME NEW t \in Service, Root(t) PROVE InOrder(t)'
    <3>1. \A b \in PollRows(t)' \ PollRows(t) : b = new /\ t = s
      BY <2>2, PollRowsStep DEF new
    <3>2. \A b \in PollRows(t) : /\ builds'[b].sha = builds[b].sha
                                 /\ builds'[b].retryOf = builds[b].retryOf
      BY PollRowsStep
    <3>3. InOrder(t)
      BY <2>5 DEF ForwardInv, RowsForward
    <3>4. \A b \in PollRows(t)' : builds'[b].sha <= head[Repo[t]]
      BY <2>1, <2>2, <3>1, <3>2, <3>3 DEF InOrder
    <3>5. ASSUME NEW a \in PollRows(t)', NEW b \in PollRows(t)', a < b, ~ Meets(t, a, b)'
          PROVE  /\ builds'[a].sha <= builds'[b].sha
                 /\ builds'[b].retryOf = 0 => builds'[a].sha < builds'[b].sha
      <4>1. a \in PollRows(t)
        BY <2>3, <3>1, <3>5
      <4>2. CASE b \in PollRows(t)
        <5>1. ~ Meets(t, a, b)
          BY <2>3, <3>5, <4>2, MeetsStays
        <5>2. /\ builds[a].sha <= builds[b].sha
              /\ builds[b].retryOf = 0 => builds[a].sha < builds[b].sha
          BY <3>3, <3>5, <4>1, <4>2, <5>1 DEF InOrder
        <5> QED
          BY <3>2, <4>1, <4>2, <5>2
      <4>3. CASE b = new /\ t = s
        <5>1. ~ met
          BY <2>2, <2>3, <3>5, <4>3 DEF Meets
        <5>2. PICK l \in PollRows(s) : \A x \in PollRows(s) : x <= l
          BY <4>1, <4>3, LatestPolled
        <5>3. builds[l].sha < c
          BY <2>1, <5>1, <5>2 DEF Newest
        <5>4. ~ Meets(s, a, l)
          BY <2>3, <3>5, <4>3, <5>2, MeetsStays
        <5>5. builds[a].sha <= builds[l].sha
          <6>1. a <= l /\ a \in Nat /\ l \in Nat /\ builds[a].sha \in Nat
            BY <2>3, <4>1, <4>3, <5>2
          <6> QED
            BY <3>3, <4>1, <4>3, <5>2, <5>4, <6>1 DEF InOrder
        <5>6. builds[a].sha \in Nat /\ builds[l].sha \in Nat
          BY <2>3, <4>1, <5>2
        <5> QED
          BY <2>1, <2>2, <3>2, <4>1, <4>3, <5>3, <5>5, <5>6
      <4> QED
        BY <3>1, <4>2, <4>3
    <3> QED
      BY <1>1, <3>4, <3>5 DEF InOrder
  <2>6. RowsForward'
    BY <2>5 DEF RowsForward, Root, SameRepoDeps, SameRepo
  <2>7. HeadsGrow
    BY <1>1, Numbers DEF HeadsGrow
  <2>8. passes[p] \in PassState /\ \A q \in Pass : q # p => passes'[q] = passes[q]
    BY <1>1 DEF NextService, ChainInv, TypeOK
  <2>9. passes'[p].at = "poll" /\ passes'[p].dependents = passes[p].dependents
    BY <1>1, <2>8 DEF NextService, ChainInv, TypeOK, PassState
  <2>10. ASSUME NEW q \in Pass, NEW st \in {passes'[q]}, NEW t \in Service, NEW d \in Commit,
                st.at \in {"compare", "insert"}, st.job = <<t, d>>, Root(t)
         PROVE  Ahead(t, d, st)'
    <3>1. st = passes[q]
      BY <2>8, <2>9, <2>10
    <3>2. Ahead(t, d, st)
      BY <2>10, <3>1 DEF ForwardInv, PassAhead
    <3>3. NewestKept(t) \/ Len(builds) + 1 \in PolledBuilds(t)'
      BY <2>4, RowsStayNewest DEF new
    <3> QED
      BY <2>7, <3>2, <3>3, AheadStays
  <2>11. \A q \in Pass : PassAhead(q)'
    BY <2>10 DEF PassAhead, Root, SameRepoDeps, SameRepo, Commit
  <2>12. \A q \in Pass : PassKnown(passes'[q])
    BY <1>1, <2>8, <2>9 DEF ForwardInv, GraphKnown, PassKnown
  <2>13. \A r \in runs' : \A d \in r.todo : builds'[r.build].service \in Deps[d]
    BY <1>1, TodoStays DEF ForwardInv
  <2>14. GraphKnown'
    BY <1>1, <2>12, <2>13
       DEF ForwardInv, GraphKnown, PassKnown, Root, SameRepoDeps, SameRepo
  <2> QED
    BY <2>6, <2>11, <2>14 DEF ForwardInv
<1> QED
  BY <1>5, <1>6

LEMMA CatchUpForward ==
  ASSUME ChainInv, ForwardInv, ChainInv', TableStep,
         NEW p \in Pass, NEW s \in Service, CatchUp(p, s)
  PROVE  ForwardInv'
<1> DEFINE c == LatestCommonSha(SameRepoDeps(s, meta))
           rest == passes[p].dependents \ {s}
           none == [passes[p] EXCEPT !.dependents = rest]
           some == [passes[p] EXCEPT !.at = "pinned", !.job = <<s, c>>, !.dependents = rest]
           st == IF c = Unpinned THEN none ELSE some
<1>1. /\ passes[p] \in PassState /\ PassKnown(passes[p])
      /\ passes[p].at = "poll" /\ s \in passes[p].dependents
  BY DEF ChainInv, TypeOK, ForwardInv, GraphKnown, CatchUp
<1>2. passes' = [passes EXCEPT ![p] = st] /\ UNCHANGED <<head, builds, meta, runs>>
  BY DEF CatchUp
<1> HIDE DEF c
<1>3. none.at = "poll" /\ none.dependents = rest
  BY <1>1 DEF PassState
<1>4. some.at = "pinned" /\ some.job = <<s, c>> /\ some.dependents = rest
  BY <1>1 DEF PassState
<1>5. <<s, c>>[1] = s
  OBVIOUS
<1> HIDE DEF none, some
<1>6. ~ Root(s) /\ \A d \in rest : ~ Root(d)
  BY <1>1 DEF PassKnown
<1>7. PassKnown(none) /\ PassKnown(some)
  BY <1>3, <1>4, <1>5, <1>6 DEF PassKnown
<1>8. PassKnown(st) /\ st.at \notin {"compare", "insert"}
  BY <1>3, <1>4, <1>7
<1>9. OldCommit
  BY <1>2, NoNewRow DEF Ids
<1> HIDE DEF st
<1> QED
  BY <1>2, <1>8, <1>9, PassForward

LEMMA CatchUpEnqueueForward ==
  ASSUME ChainInv, ForwardInv, ChainInv', TableStep, NEW p \in Pass, CatchUpEnqueue(p)
  PROVE  ForwardInv'
<1>1. /\ NextService(p) /\ UNCHANGED <<head, meta, runs>>
      /\ passes[p].at = "pinned" /\ PassKnown(passes[p]) /\ SoundPass(passes[p])
      /\ EnqueueBuildAtShaIfMissing(passes[p].job[1], passes[p].job[2])
  BY DEF CatchUpEnqueue, ForwardInv, GraphKnown, ChainInv, PassesKnow
<1>2. /\ passes[p].job[1] \in Service /\ passes[p].job[2] \in Commit
      /\ ~ Root(passes[p].job[1])
  BY <1>1 DEF SoundPass, PassKnown
<1>3. OldCommit
  BY <1>1, <1>2, MissingOther
<1> QED
  BY <1>1, <1>3, NextForward

LEMMA PollEndsForward ==
  ASSUME ChainInv, ForwardInv, ChainInv', TableStep, NEW p \in Pass, PollEnds(p)
  PROVE  ForwardInv'
<1> DEFINE st == [passes[p] EXCEPT !.at = "idle"]
<1>1. passes[p] \in PassState /\ PassKnown(passes[p])
  BY DEF ChainInv, TypeOK, ForwardInv, GraphKnown
<1>2. st.at = "idle" /\ st.dependents = passes[p].dependents
  BY <1>1 DEF PassState
<1>3. passes' = [passes EXCEPT ![p] = st] /\ UNCHANGED <<head, builds, meta, runs>>
  BY DEF PollEnds
<1> HIDE DEF st
<1>4. PassKnown(st)
  BY <1>1, <1>2 DEF PassKnown
<1>5. OldCommit
  BY <1>3, NoNewRow DEF Ids
<1> QED
  BY <1>2, <1>3, <1>4, <1>5, PassForward

LEMMA PollServiceFailsForward ==
  ASSUME ChainInv, ForwardInv, ChainInv', TableStep, NEW p \in Pass, PollServiceFails(p)
  PROVE  ForwardInv'
<1>1. NextService(p) /\ UNCHANGED <<head, builds, meta, runs>>
  BY DEF PollServiceFails
<1>2. OldCommit
  BY <1>1, NoNewRow DEF Ids
<1> QED
  BY <1>1, <1>2, NextForward

LEMMA PollForward ==
  ASSUME ChainInv, ForwardInv, ChainInv', TableStep, NEW p \in Pass, Poll(p)
  PROVE  ForwardInv'
BY PollStartForward, LsRemoteForward, CompareForward, EnqueueBuildForward, CatchUpForward,
   CatchUpEnqueueForward, PollEndsForward DEF Poll

-----------------------------------------------------------------------------
\* A row is written in place.
LEMMA WrittenInPlace ==
  ASSUME ChainInv, NEW b \in Ids, NEW row, builds' = [builds EXCEPT ![b] = row]
  PROVE  OldCommit
<1>1. Len(builds') = Len(builds)
  BY LenProperties DEF ChainInv, TypeOK
<1> QED
  BY <1>1, NoNewRow DEF Ids

LEMMA ClaimForward ==
  ASSUME ChainInv, ForwardInv, ChainInv', TableStep, NEW b \in Ids, Claim(b)
  PROVE  ForwardInv'
<1> DEFINE r == [build |-> b, at |-> "pipeline", todo |-> {}]
<1>1. /\ UNCHANGED <<head, meta, passes>> /\ runs' = runs \cup {r}
      /\ builds' = [builds EXCEPT ![b] = [builds[b] EXCEPT !.status = "running"]]
  BY DEF Claim
<1>2. OldCommit
  BY <1>1, WrittenInPlace
<1>3. r.todo = {}
  OBVIOUS
<1> HIDE DEF r
<1> QED
  BY <1>1, <1>2, <1>3, RunsForward DEF ForwardInv, GraphKnown

\* Only the newest build of a service is retried.
LEMMA SweepOrphanForward ==
  ASSUME ChainInv, ForwardInv, ChainInv', TableStep, NEW o \in Ids, SweepOrphan(o)
  PROVE  ForwardInv'
<1> DEFINE row == [builds[o] EXCEPT !.status = "failed", !.reason = "orphaned"]
           failed == [builds EXCEPT ![o] = row]
           retry == [row EXCEPT !.status = "queued", !.reason = "none", !.retryOf = o,
                            !.met = FALSE]
           new == Len(builds) + 1
<1>1. UNCHANGED <<head, meta, runs, passes>>
  BY DEF SweepOrphan
<1>2. \/ builds' = failed
      \/ builds' = Append(failed, retry) /\ ~ Superseded(o)
  BY DEF SweepOrphan
<1>3. builds[o] \in Row /\ o \in Nat /\ o # 0 /\ builds \in Seq(Row)
  BY Numbers DEF ChainInv, TypeOK
<1>4. /\ retry \in Row /\ retry.retryOf = o /\ retry.sha = builds[o].sha
      /\ retry.service = builds[o].service /\ retry.triggeredBy = builds[o].triggeredBy
  BY <1>3 DEF Row
<1>5. row \in Row
  BY <1>3 DEF Row
<1> HIDE DEF retry, row
<1>6. failed \in Seq(Row) /\ Len(failed) = Len(builds)
  BY <1>3, <1>5, ExceptSeq, LenProperties DEF Ids
<1>7. ASSUME builds' = failed PROVE OldCommit
  BY <1>6, <1>7, NoNewRow DEF Ids
<1>8. ASSUME builds' = Append(failed, retry), ~ Superseded(o) PROVE OldCommit
  <2>1. builds'[new] = retry
    BY <1>4, <1>6, <1>8, AppendProperties
  <2>2. \A b \in PollRows(builds[o].service) : b <= o
    <3> SUFFICES ASSUME NEW b \in Ids, builds[b].service = builds[o].service PROVE b <= o
      BY DEF PollRows
    <3>1. ~ (b > o)
      BY <1>8 DEF Superseded
    <3>2. b \in Nat
      BY Numbers
    <3> QED
      BY <1>3, <3>1, <3>2
  <2>3. builds[o].triggeredBy = "poll" => o \in PollRows(builds[o].service)
    BY DEF PollRows
  <2> HIDE DEF new
  <2> QED
    BY <1>3, <1>4, <2>1, <2>2, <2>3 DEF OldCommit, new
<1>9. OldCommit
  BY <1>2, <1>7, <1>8
<1> QED
  BY <1>1, <1>9, RunsForward DEF ForwardInv, GraphKnown

LEMMA RunDiesForward ==
  ASSUME ChainInv, ForwardInv, ChainInv', TableStep, NEW r \in runs, RunDies(r)
  PROVE  ForwardInv'
<1>1. runs' \subseteq runs /\ UNCHANGED <<head, builds, meta, passes>>
  BY DEF RunDies
<1>2. OldCommit
  BY <1>1, NoNewRow DEF Ids
<1> QED
  BY <1>1, <1>2, RunsForward DEF ForwardInv, GraphKnown

\* A run writes its row or nothing, and goes on or ends.
LEMMA RunGoesForward ==
  ASSUME ChainInv, ForwardInv, ChainInv', TableStep, NEW r \in runs,
         \/ builds' = builds
         \/ \E row : builds' = [builds EXCEPT ![r.build] = row],
         runs' \subseteq runs \/ \E to : Goes(r, to),
         UNCHANGED <<head, passes>>,
         \A s \in Service : meta'[s] \subseteq Deps[s]
  PROVE  ForwardInv'
<1>1. r.build \in Ids /\ r \in Run
  BY RowOfRun DEF SoundRun
<1>2. OldCommit
  BY <1>1, WrittenInPlace, NoNewRow DEF Ids
<1>3. \A q \in runs' : \E x \in runs : x.build = q.build /\ q.todo \subseteq x.todo
  <2>1. ASSUME NEW to PROVE LET q == [r EXCEPT !.at = to]
                            IN q.build = r.build /\ q.todo = r.todo
    BY <1>1 DEF Run
  <2> QED
    BY <2>1 DEF Goes
<1> QED
  BY <1>2, <1>3, RunsForward

LEMMA MetaForward ==
  ASSUME ChainInv, ForwardInv, ChainInv', TableStep, NEW r \in runs,
         UpdateServicePipelineMeta(r)
  PROVE  ForwardInv'
<1>1. \A s \in Service : meta'[s] \subseteq Deps[s]
  BY RowOfRun DEF UpdateServicePipelineMeta, ForwardInv, GraphKnown, Row, ChainInv, TypeOK
<1> QED
  BY <1>1, RunGoesForward DEF UpdateServicePipelineMeta

LEMMA MetaFailsForward ==
  ASSUME ChainInv, ForwardInv, ChainInv', TableStep, NEW r \in runs, UpdateMetaFails(r)
  PROVE  ForwardInv'
BY RunGoesForward DEF UpdateMetaFails, ForwardInv, GraphKnown

LEMMA RunOtherForward ==
  ASSUME ChainInv, ForwardInv, ChainInv', TableStep, NEW r \in runs,
         ResolveHead(r) \/ ResolveDeps(r) \/ ResolveFails(r) \/ BuildFails(r) \/ BuildSucceeds(r)
  PROVE  ForwardInv'
<1>1. UNCHANGED <<head, passes, meta>>
  BY DEF ResolveHead, ResolveDeps, ResolveFails, BuildFails, BuildSucceeds
<1>2. \/ builds' = builds
      \/ \E row : builds' = [builds EXCEPT ![r.build] = row]
  BY DEF ResolveHead, ResolveDeps, ResolveFails, BuildFails, BuildSucceeds, Fails, FinishBuild
<1>3. runs' \subseteq runs \/ \E to : Goes(r, to)
  BY DEF ResolveHead, ResolveDeps, ResolveFails, BuildFails, BuildSucceeds, Fails
<1> QED
  BY <1>1, <1>2, <1>3, RunGoesForward DEF ForwardInv, GraphKnown

\* The trigger goes on with some dependents of the service of its run.
LEMMA TriggersForward ==
  ASSUME ChainInv, ForwardInv, ChainInv', TableStep, OldCommit, NEW r \in runs,
         NEW todo \in SUBSET Service, Triggers(r, todo),
         \A d \in todo : builds[r.build].service \in Deps[d],
         UNCHANGED <<head, meta, passes>>
  PROVE  ForwardInv'
<1>1. r.build \in Ids /\ r \in Run
  BY RowOfRun DEF SoundRun
<1>2. ASSUME NEW q \in runs', NEW d \in q.todo
      PROVE  builds'[q.build].service \in Deps[d]
  <2>1. CASE q \in runs
    <3>1. q.build \in Ids /\ builds[q.build].service \in Deps[d]
      BY <1>2, <2>1, RowOfRun DEF SoundRun, ForwardInv, GraphKnown
    <3> QED
      BY <3>1 DEF TableStep, RowKept
  <2>2. CASE q = [r EXCEPT !.at = "trigger", !.todo = todo]
    <3>1. q.build = r.build /\ q.todo = todo
      BY <1>1, <2>2 DEF Run
    <3>2. builds[r.build].service \in Deps[d]
      BY <1>2, <3>1
    <3> QED
      BY <1>1, <3>1, <3>2 DEF TableStep, RowKept
  <2> QED
    BY <1>2, <2>1, <2>2 DEF Triggers
<1>3. HeadsGrow
  BY Numbers DEF HeadsGrow
<1> QED
  BY <1>2, <1>3, ForwardFrom DEF ForwardInv, GraphKnown

LEMMA ListDependentsForward ==
  ASSUME ChainInv, ForwardInv, ChainInv', TableStep, NEW r \in runs, ListDependents(r)
  PROVE  ForwardInv'
<1> DEFINE todo == {d \in Service \ Locked : builds[r.build].service \in meta[d]}
<1>1. Triggers(r, todo) /\ UNCHANGED <<head, builds, meta, passes>>
  BY DEF ListDependents
<1>2. \A d \in todo : builds[r.build].service \in Deps[d]
  BY DEF ForwardInv, GraphKnown
<1>3. todo \in SUBSET Service
  OBVIOUS
<1>4. OldCommit
  BY <1>1, NoNewRow DEF Ids
<1> HIDE DEF todo
<1> QED
  BY <1>1, <1>2, <1>3, <1>4, TriggersForward

LEMMA TriggerDependentForward ==
  ASSUME ChainInv, ForwardInv, ChainInv', TableStep,
         NEW r \in runs, NEW d \in Service, TriggerDependent(r, d)
  PROVE  ForwardInv'
<1> DEFINE s == builds[r.build].service
           c == builds[r.build].sha
<1>1. /\ r.at = "trigger" /\ d \in r.todo /\ r \in Run /\ SoundRun(r)
      /\ builds[r.build] \in Row
      /\ Triggers(r, r.todo \ {d}) /\ UNCHANGED <<head, meta, passes>>
  BY RowOfRun DEF TriggerDependent
<1>2. c \in Commit /\ s \in Service
  BY <1>1 DEF SoundRun, Row
<1>3. \A e \in r.todo : s \in Deps[e]
  BY DEF ForwardInv, GraphKnown
<1>4. SameRepo(d, s) => ~ Root(d)
  BY <1>1, <1>3 DEF Root, SameRepoDeps, SameRepo
<1>5. \/ Queue(d, Unpinned, "manual")
      \/ SameRepo(d, s) /\ EnqueueBuildAtShaIfMissing(d, c)
      \/ builds' = builds
  BY DEF TriggerDependent
<1> HIDE DEF s, c
<1>6. OldCommit
  <2>1. CASE Queue(d, Unpinned, "manual")
    BY <2>1, QueueOther DEF Queue
  <2>2. CASE SameRepo(d, s) /\ EnqueueBuildAtShaIfMissing(d, c)
    BY <1>2, <1>4, <2>2, MissingOther
  <2>3. CASE builds' = builds
    BY <2>3, NoNewRow DEF Ids
  <2> QED
    BY <1>5, <2>1, <2>2, <2>3
<1>7. r.todo \ {d} \in SUBSET Service /\ \A e \in r.todo \ {d} : s \in Deps[e]
  BY <1>1, <1>3 DEF Run
<1> QED
  BY <1>1, <1>6, <1>7, TriggersForward DEF s

LEMMA TriggerFailsForward ==
  ASSUME ChainInv, ForwardInv, ChainInv', TableStep,
         NEW r \in runs, NEW d \in Service, TriggerFails(r, d)
  PROVE  ForwardInv'
<1>1. /\ r.todo \ {d} \in SUBSET Service
      /\ \A e \in r.todo \ {d} : builds[r.build].service \in Deps[e]
  BY DEF ChainInv, TypeOK, Run, ForwardInv, GraphKnown
<1>2. Triggers(r, r.todo \ {d}) /\ UNCHANGED <<head, builds, meta, passes>>
  BY DEF TriggerFails
<1>3. OldCommit
  BY <1>2, NoNewRow DEF Ids
<1> QED
  BY <1>1, <1>2, <1>3, TriggersForward

LEMMA ProgressForward ==
  ASSUME ChainInv, ForwardInv, ChainInv', TableStep, NEW r \in runs, Progress(r)
  PROVE  ForwardInv'
BY MetaForward, RunOtherForward, ListDependentsForward, TriggerDependentForward DEF Progress

-----------------------------------------------------------------------------
LEMMA ForwardInit == Init => ForwardInv
<1> SUFFICES ASSUME Init PROVE ForwardInv
  OBVIOUS
<1>1. Ids = {} /\ runs = {}
  BY EmptySeq DEF Init, Ids
<1>2. \A s \in Service : meta[s] \subseteq Deps[s]
  BY DEF Init
<1>3. \A p \in Pass : passes[p].at = "idle" /\ passes[p].dependents = {}
  BY DEF Init
<1>4. GraphKnown
  BY <1>1, <1>2, <1>3 DEF GraphKnown, PassKnown
<1>5. RowsForward
  BY <1>1 DEF RowsForward, InOrder, PollRows
<1>6. \A p \in Pass : PassAhead(p)
  BY <1>3 DEF PassAhead
<1> QED
  BY <1>4, <1>5, <1>6 DEF ForwardInv

LEMMA ForwardStep ==
  ASSUME ChainInv, ForwardInv, [Next]_vars, ChainInv'
  PROVE  ForwardInv'
<1>1. CASE UNCHANGED vars
  <2>1. TableStep /\ OldCommit /\ UNCHANGED <<head, builds, meta, runs, passes>>
    BY <1>1, TableUntouched, NoNewRow DEF vars, Ids
  <2> QED
    BY <2>1, RunsForward DEF ForwardInv, GraphKnown
<1>2. CASE Next
  <2>1. TableStep
    BY <1>2, PushInv, StartBuildInv, PollInv, PollServiceFailsInv, ClaimInv, SweepOrphanInv,
       ProgressInv, RunDiesInv, MetaFailsInv, TriggerFailsInv DEF Next
  <2> QED
    BY <1>2, <2>1, PushForward, StartBuildForward, PollForward, PollServiceFailsForward,
       ClaimForward, SweepOrphanForward, ProgressForward, RunDiesForward, MetaFailsForward,
       TriggerFailsForward DEF Next
<1> QED
  BY <1>1, <1>2

\* For any number of poll passes at once: a pass that saw every row another
\* one queued before it queues the service goes forward, whatever is pushed,
\* started by hand, swept and retried meanwhile.  Only the passes that
\* overlooked a row (met) queue a commit twice, or an older one.
THEOREM PollsForward == Spec => []PolledForward
<1>1. Init => ChainInv /\ ForwardInv
  BY ChainInvInit, ForwardInit
<1>2. (ChainInv /\ ForwardInv) /\ [Next]_vars => (ChainInv /\ ForwardInv)'
  BY ChainInvStep, ForwardStep
<1>3. ChainInv /\ ForwardInv => PolledForward
  <2> SUFFICES ASSUME ChainInv, ForwardInv, NEW a \in Ids, NEW b \in Ids, a < b,
                      builds[a].service = builds[b].service, Root(builds[a].service),
                      builds[a].triggeredBy = "poll", builds[b].triggeredBy = "poll",
                      builds[b].retryOf = 0,
                      \A n \in a+1..b : builds[n].service = builds[a].service => ~ builds[n].met
               PROVE  builds[a].sha < builds[b].sha
    BY DEF PolledForward, Root
  <2>1. PICK s \in Service : s = builds[a].service
    BY Numbers
  <2>2. a \in PollRows(s) /\ b \in PollRows(s)
    BY <2>1 DEF PollRows
  <2>3. ~ Meets(s, a, b)
    <3> SUFFICES ASSUME NEW n \in PollRows(s), a < n, n <= b, builds[n].met
                 PROVE  FALSE
      BY DEF Meets
    <3>1. n \in a+1..b /\ builds[n].service = builds[a].service
      BY <2>1, Numbers DEF PollRows
    <3> QED
      BY <3>1
  <2> QED
    BY <2>1, <2>2, <2>3 DEF ForwardInv, RowsForward, InOrder
<1> QED
  BY <1>1, <1>2, <1>3, PTL DEF Spec

-----------------------------------------------------------------------------
(***************************************************************************)
(* The queue of this module implements BuildTable, as the one of           *)
(* BuildQueue does.                                                        *)
(***************************************************************************)
Entry == [service : Service, at : {"queued", "running", "ended"}]
Rows == [b \in Ids |-> Shown(builds[b])]
ShownStep == [Table!Next]_Table!vars

LEMMA RowsTyped ==
  ASSUME TypeOK
  PROVE  /\ Rows \in [1..Len(builds) -> Entry] /\ Len(builds) \in Nat /\ Ids = 1..Len(builds)
         /\ Len(Rows) = Len(builds) /\ DOMAIN Rows = Ids
         /\ \A b \in Ids : Rows[b] = Shown(builds[b]) /\ builds[b] \in Row
<1>1. /\ builds \in Seq(Row) /\ Len(builds) \in Nat /\ Ids = 1..Len(builds)
      /\ \A b \in Ids : builds[b] \in Row
  BY LenProperties, ElementOfSeq DEF TypeOK, Ids
<1>2. \A b \in Ids : Shown(builds[b]) \in Entry
  BY <1>1 DEF Row, Shown, Entry
<1>3. Rows \in [1..Len(builds) -> Entry]
  BY <1>1, <1>2 DEF Rows
<1>4. Len(Rows) = Len(builds)
  BY <1>1, <1>3, RowsAreSeq
<1> QED
  BY <1>1, <1>3, <1>4 DEF Rows

\* Nothing shows.
LEMMA NothingShown ==
  ASSUME Ids' = Ids, \A b \in Ids : Shown(builds'[b]) = Shown(builds[b])
  PROVE  ShownStep
<1>1. Rows' = Rows
  BY DEF Rows
<1> QED
  BY <1>1 DEF Rows, ShownStep, Table!vars

LEMMA SameShown ==
  ASSUME builds' = builds
  PROVE  ShownStep
BY NothingShown DEF Ids

\* A row is queued.
LEMMA AskShown ==
  ASSUME TypeOK, NEW row \in Row, row.status = "queued", builds' = Append(builds, row)
  PROVE  ShownStep
<1> DEFINE n == Len(builds)
<1>1. PICK f : f = Rows
  OBVIOUS
<1>2. PICK g : g = Rows'
  OBVIOUS
<1>3. /\ f \in [1..n -> Entry] /\ n \in Nat /\ Ids = 1..n
      /\ \A b \in Ids : f[b] = Shown(builds[b])
  BY <1>1, RowsTyped
<1>4. /\ Len(builds') = n + 1 /\ builds'[n + 1] = row
      /\ \A b \in Ids : builds'[b] = builds[b]
  BY <1>3, AppendProperties DEF TypeOK
<1>5. Shown(row) = Table!Waits(row.service) /\ Shown(row) \in Entry /\ row.service \in Service
  BY DEF Shown, Table!Waits, Row, Entry
<1>6. g = [b \in 1..(n + 1) |-> IF b = n + 1 THEN Shown(row) ELSE f[b]]
  <2>1. \A b \in 1..(n + 1) : Shown(builds'[b]) = IF b = n + 1 THEN Shown(row) ELSE f[b]
    BY <1>3, <1>4
  <2>2. g = [b \in 1..(n + 1) |-> Shown(builds'[b])]
    BY <1>2, <1>4 DEF Rows, Ids
  <2> QED
    BY <2>1, <2>2
<1>7. g = Append(f, Table!Waits(row.service))
  BY <1>3, <1>5, <1>6, RowsAreSeq
<1>8. Table!Ask(row.service)
  BY <1>1, <1>2, <1>7 DEF Rows, Table!Ask
<1> QED
  BY <1>5, <1>8 DEF ShownStep, Table!Next

LEMMA QueueShown ==
  ASSUME TypeOK, NEW s \in Service, NEW c \in Commit \cup {Unpinned},
         NEW by \in {"poll", "manual"}, NEW met \in BOOLEAN,
         builds' = Append(builds, NewRow(s, c, by, met))
  PROVE  ShownStep
<1> DEFINE row == NewRow(s, c, by, met)
<1>1. row \in Row /\ row.status = "queued"
  BY DEF NewRow, Row
<1> HIDE DEF row
<1> QED
  BY <1>1, AskShown DEF row

LEMMA MissingShown ==
  ASSUME TypeOK, NEW s \in Service, NEW c \in Commit, EnqueueBuildAtShaIfMissing(s, c)
  PROVE  ShownStep
BY QueueShown, SameShown DEF EnqueueBuildAtShaIfMissing, Queue, Commit, Unpinned

\* One row is written.
LEMMA RowShown ==
  ASSUME TypeOK, NEW b \in Ids, NEW row \in Row, builds' = [builds EXCEPT ![b] = row]
  PROVE  Rows' = [Rows EXCEPT ![b] = Shown(row)]
<1>1. /\ Ids' = Ids /\ \A c \in Ids : builds'[c] = IF c = b THEN row ELSE builds[c]
  BY WriteRow
<1>2. \A c \in Ids : Shown(builds'[c]) = IF c = b THEN Shown(row) ELSE Shown(builds[c])
  BY <1>1
<1>3. PICK f : f = Rows
  OBVIOUS
<1>4. f = [c \in Ids |-> Shown(builds[c])]
  BY <1>3 DEF Rows
<1>5. Rows' = [c \in Ids |-> Shown(builds'[c])]
  BY <1>1 DEF Rows
<1>6. Rows' = [f EXCEPT ![b] = Shown(row)]
  BY <1>2, <1>4, <1>5
<1> QED
  BY <1>3, <1>6

\* A claim starts the build whose turn it is.
LEMMA ClaimShown ==
  ASSUME TypeOK, NEW b \in Ids, Claim(b)
  PROVE  ShownStep
<1>1. PICK f : f = Rows
  OBVIOUS
<1>2. PICK g : g = Rows'
  OBVIOUS
<1>3. /\ DOMAIN f = Ids /\ \A c \in Ids : f[c] = Shown(builds[c]) /\ builds[c] \in Row
      /\ \A c \in Ids : c \in Nat
  BY <1>1, RowsTyped
<1>4. builds[b].status = "queued"
  BY DEF Claim, OfService
<1>5. g = [f EXCEPT ![b] = [f[b] EXCEPT !.at = "running"]]
  <2> DEFINE row == [builds[b] EXCEPT !.status = "running"]
  <2>1. Shown(row) = [f[b] EXCEPT !.at = "running"] /\ row \in Row
    BY <1>3, <1>4 DEF Shown, Row
  <2>2. builds' = [builds EXCEPT ![b] = row]
    BY DEF Claim
  <2> HIDE DEF row
  <2>3. g = [f EXCEPT ![b] = Shown(row)]
    BY <1>1, <1>2, <2>1, <2>2, RowShown
  <2> QED
    BY <2>1, <2>3
<1>6. ASSUME NEW c \in Ids, f[b].service = f[c].service
      PROVE  f[c].at # "running" /\ (c < b => f[c].at = "ended")
  <2>1. builds[b].service = builds[c].service
    BY <1>3, <1>6 DEF Shown
  <2>2. builds[c].status # "running" /\ (builds[c].status = "queued" => b <= c)
    BY <2>1 DEF Claim, OfService
  <2>3. c < b => builds[c].status # "queued"
    BY <1>3, <2>2
  <2> QED
    BY <1>3, <2>2, <2>3 DEF Shown
<1>7. f[b].at = "queued"
  BY <1>3, <1>4 DEF Shown
<1>8. Table!Start(b)
  BY <1>1, <1>2, <1>3, <1>5, <1>6, <1>7 DEF Rows, Table!Start, Table!Same
<1>9. b \in DOMAIN f
  BY <1>3
<1> QED
  BY <1>1, <1>8, <1>9 DEF Rows, ShownStep, Table!Next

\* A run writes its result.
LEMMA EndShown ==
  ASSUME ChainInv, NEW r \in runs, r.at \notin {"list", "trigger"},
         NEW st \in Ended, NEW re \in {"none", "error", "blocked"},
         FinishBuild(r, st, re)
  PROVE  ShownStep
<1>1. PICK f : f = Rows
  OBVIOUS
<1>2. PICK g : g = Rows'
  OBVIOUS
<1>3. PICK b \in Ids : b = r.build
  BY DEF ChainInv, RunsOfRows, SoundRun
<1>4. DOMAIN f = Ids /\ f[b] = Shown(builds[b]) /\ builds[b] \in Row
  BY <1>1, RowsTyped DEF ChainInv
<1>5. f[b].at = "running"
  <2>1. builds[b].status = "running"
    BY <1>3 DEF ChainInv, RunsOfRows, SoundRun
  <2> QED
    BY <1>4, <2>1 DEF Shown
<1>6. g = [f EXCEPT ![b] = [f[b] EXCEPT !.at = "ended"]]
  <2> DEFINE row == [builds[b] EXCEPT !.status = st, !.reason = re]
  <2>1. row \in Row /\ row.status = st /\ row.service = builds[b].service
    BY <1>4 DEF Row, Ended
  <2>2. builds' = [builds EXCEPT ![b] = row]
    BY <1>3 DEF FinishBuild
  <2> HIDE DEF row
  <2>3. Shown(row) = [f[b] EXCEPT !.at = "ended"]
    BY <1>4, <2>1 DEF Shown, Ended
  <2>4. g = [f EXCEPT ![b] = Shown(row)]
    BY <1>1, <1>2, <2>1, <2>2, RowShown DEF ChainInv
  <2> QED
    BY <2>3, <2>4
<1>7. Table!End(b) /\ b \in DOMAIN f
  BY <1>1, <1>2, <1>4, <1>5, <1>6 DEF Rows, Table!End, Table!Over
<1> QED
  BY <1>1, <1>7 DEF Rows, ShownStep, Table!Next

\* Nothing of the head that a run resolves shows.
LEMMA ResolveShown ==
  ASSUME ChainInv, NEW r \in runs, ResolveHead(r)
  PROVE  ShownStep
<1>1. PICK b \in Ids : b = r.build
  BY DEF ChainInv, RunsOfRows, SoundRun
<1>2. PICK c : c = head[Repo[builds[b].service]]
  OBVIOUS
<1> DEFINE row == [builds[b] EXCEPT !.sha = c]
<1>3. builds[b] \in Row /\ builds \in Seq(Row) /\ DOMAIN builds = Ids
  BY RowsTyped, LenProperties DEF ChainInv, TypeOK, Ids
<1>4. Shown(row) = Shown(builds[b])
  BY <1>3 DEF Shown, Row
<1>5. builds' = [builds EXCEPT ![b] = row]
  BY <1>1, <1>2 DEF ResolveHead
<1> HIDE DEF row
<1>6. \A d \in Ids : builds'[d] = IF d = b THEN row ELSE builds[d]
  BY <1>3, <1>5
<1>7. Len(builds') = Len(builds)
  BY <1>3, <1>5, LenProperties DEF ChainInv, TypeOK
<1> QED
  BY <1>4, <1>6, <1>7, NothingShown DEF Ids

\* A function with one value on at most one place is a bijection.
LEMMA OneToOne ==
  ASSUME NEW S, NEW o, NEW again,
         (S = {} /\ again = {}) \/ \E s : S = {s} /\ again = {o}
  PROVE  [b \in S |-> o] \in Table!Bijection(S, again)
<1>1. PICK h : h = [b \in S |-> o]
  OBVIOUS
<1>2. /\ h \in [S -> again] /\ \A a, b \in S : h[a] = h[b] => a = b
      /\ \A t \in again : \E s \in S : h[s] = t
  BY <1>1
<1> QED
  BY <1>1, <1>2 DEF Table!Bijection, Table!Injection, Table!Surjection, Table!IsInjective

\* The sweep recovers one orphan, and asks again for it unless a newer build was asked for.
LEMMA SweepShown ==
  ASSUME TypeOK, NEW o \in Ids, SweepOrphan(o)
  PROVE  ShownStep
<1> DEFINE len == Len(builds)
           row == [builds[o] EXCEPT !.status = "failed", !.reason = "orphaned"]
           failed == [builds EXCEPT ![o] = row]
           retry == [row EXCEPT !.status = "queued", !.reason = "none", !.retryOf = o,
                            !.met = FALSE]
<1>1. PICK f : f = Rows
  OBVIOUS
<1>2. PICK g : g = Rows'
  OBVIOUS
<1>3. /\ DOMAIN f = Ids /\ \A c \in Ids : f[c] = Shown(builds[c]) /\ builds[c] \in Row
      /\ Len(f) = len /\ len \in Nat /\ Ids = 1..len /\ builds \in Seq(Row)
  BY <1>1, RowsTyped DEF TypeOK
<1>4. /\ builds[o].status = "running"
      /\ builds' = failed \/ (builds' = Append(failed, retry) /\ ~ Superseded(o))
  BY DEF SweepOrphan
<1>5. /\ row \in Row /\ row.status = "failed" /\ row.service = builds[o].service
      /\ retry \in Row /\ retry.status = "queued" /\ retry.service = builds[o].service
  <2>1. o \in Nat
    BY <1>3
  <2> QED
    BY <1>3, <2>1 DEF Row
<1> HIDE DEF row, retry
<1>6. /\ failed \in Seq(Row) /\ Len(failed) = len
      /\ \A c \in Ids : failed[c] = IF c = o THEN row ELSE builds[c]
  BY <1>3, <1>5, ExceptSeq, LenProperties
<1> HIDE DEF failed
<1>7. f[o].at = "running"
  BY <1>3, <1>4 DEF Shown
<1>8. \A c \in Ids :
        Shown(IF c = o THEN row ELSE builds[c]) =
          IF c \in {o} THEN Table!Over(f[c]) ELSE f[c]
  BY <1>3, <1>5 DEF Shown, Table!Over
<1>9. ASSUME NEW again \in SUBSET {o}, NEW m \in Nat, Len(builds') = m,
             m = len + Cardinality(again),
             \A c \in Ids : o < c /\ o \in again => f[o].service # f[c].service,
             \A c \in 1..m : Shown(builds'[c]) =
               IF c \notin Ids THEN Table!Waits(f[o].service)
               ELSE IF c \in {o} THEN Table!Over(f[c]) ELSE f[c],
             (again = {} /\ m = len) \/ (again = {o} /\ m = len + 1)
      PROVE  ShownStep
  <2>1. PICK of : of = [b \in (len + 1)..m |-> o]
    OBVIOUS
  <2>2. of \in Table!Bijection((len + 1)..m, again)
    <3>1. CASE again = {} /\ m = len
      <4>1. (len + 1)..m = {}
        BY <1>3, <3>1
      <4> QED
        BY <2>1, <3>1, <4>1, OneToOne
    <3>2. CASE again = {o} /\ m = len + 1
      <4>1. (len + 1)..m = {len + 1}
        BY <1>3, <3>2
      <4> QED
        BY <2>1, <3>2, <4>1, OneToOne
    <3> QED
      BY <1>9, <3>1, <3>2
  <2>3. g = [b \in 1..m |-> IF b \notin DOMAIN f THEN Table!Waits(f[of[b]].service)
                            ELSE IF b \in {o} THEN Table!Over(f[b]) ELSE f[b]]
    <3>1. g = [b \in 1..m |-> Shown(builds'[b])]
      BY <1>2, <1>9 DEF Rows, Ids
    <3>2. \A b \in 1..m : b \notin Ids => of[b] = o
      BY <1>3, <1>9, <2>1
    <3> QED
      BY <1>3, <1>9, <3>1, <3>2
  <2>4. g = Table!Recovered({o}, of, m)
    <3>1. f = [b \in Ids |-> Shown(builds[b])]
      BY <1>1 DEF Rows
    <3> QED
      BY <2>3, <3>1 DEF Table!Recovered
  <2>5. Table!Cardinality(again) = Cardinality(again)
    BY Zenon DEF Cardinality, Table!Cardinality
  <2>6. \E src \in Table!Bijection((Len(f) + 1)..(Len(f) + Table!Cardinality(again)), again) :
          g = Table!Recovered({o}, src, Len(f) + Table!Cardinality(again))
    BY <1>3, <1>9, <2>2, <2>4, <2>5
  <2>7. \A b \in again, c \in Ids : b < c => f[b].service # f[c].service
    BY <1>9
  <2>8. /\ \E src \in Table!Bijection((Len(Rows) + 1)..(Len(Rows) + Table!Cardinality(again)),
                                     again) :
             Rows' = Table!Recovered({o}, src, Len(Rows) + Table!Cardinality(again))
        /\ \A b \in {o} : Rows[b].at = "running"
        /\ \A b \in again, c \in DOMAIN Rows : b < c => Rows[b].service # Rows[c].service
    BY <1>1, <1>2, <1>3, <1>7, <2>6, <2>7, Zenon
  <2>9. Table!Recover({o}, again)
    BY <2>8, Zenon DEF Rows, Table!Recover, Table!Same
  <2>10. {o} \in SUBSET DOMAIN f
    BY <1>3
  <2> QED
    BY <1>1, <1>9, <2>9, <2>10 DEF Rows, ShownStep, Table!Next
<1>10. CASE builds' = failed
  <2>1. Cardinality({}) = 0
    BY FS_EmptySet
  <2>2. \A c \in 1..len : Shown(builds'[c]) =
               IF c \notin Ids THEN Table!Waits(f[o].service)
               ELSE IF c \in {o} THEN Table!Over(f[c]) ELSE f[c]
    BY <1>3, <1>6, <1>8, <1>10
  <2>3. PICK none : none = {}
    OBVIOUS
  <2>4. /\ none \in SUBSET {o} /\ len \in Nat /\ Len(builds') = len
        /\ len = len + Cardinality(none)
        /\ \A c \in Ids : o < c /\ o \in none => f[o].service # f[c].service
    BY <1>3, <1>6, <1>10, <2>1, <2>3
  <2> HIDE DEF len
  <2> QED
    BY <1>9, <2>2, <2>3, <2>4
<1>11. CASE builds' = Append(failed, retry) /\ ~ Superseded(o)
  <2>1. Cardinality({o}) = 1
    BY FS_Singleton
  <2>2. /\ Len(builds') = len + 1 /\ builds'[len + 1] = retry
        /\ \A c \in Ids : builds'[c] = failed[c]
    BY <1>3, <1>5, <1>6, <1>11, AppendProperties
  <2>3. Shown(retry) = Table!Waits(f[o].service)
    BY <1>3, <1>5 DEF Shown, Table!Waits
  <2>4. \A c \in 1..(len + 1) : Shown(builds'[c]) =
               IF c \notin Ids THEN Table!Waits(f[o].service)
               ELSE IF c \in {o} THEN Table!Over(f[c]) ELSE f[c]
    BY <1>3, <1>6, <1>8, <2>2, <2>3
  <2>5. \A c \in Ids : o < c => f[o].service # f[c].service
    <3>1. \A c \in Ids : o < c => builds[o].service # builds[c].service
      BY <1>3, <1>11 DEF Superseded
    <3> QED
      BY <1>3, <3>1 DEF Shown
  <2>6. {o} \in SUBSET {o} /\ len + 1 \in Nat
    BY <1>3
  <2> HIDE DEF len
  <2> QED
    BY <1>9, <2>1, <2>2, <2>4, <2>5, <2>6
<1> QED
  BY <1>4, <1>10, <1>11

LEMMA PollShown ==
  ASSUME ChainInv, NEW p \in Pass, Poll(p)
  PROVE  ShownStep
<1> DEFINE s == passes[p].job[1]
           c == passes[p].job[2]
           met == PolledBuilds(s) # passes[p].look
<1>1. /\ passes[p].at \in {"insert", "pinned"} => s \in Service /\ c \in Commit
      /\ met \in BOOLEAN
  BY DEF ChainInv, PassesKnow, SoundPass
<1> HIDE DEF s, c, met
<1>2. CASE PollStart(p) \/ Compare(p) \/ PollEnds(p)
  BY <1>2, SameShown DEF PollStart, Compare, PollEnds
<1>3. CASE \E t \in Service : LsRemote(p, t) \/ CatchUp(p, t)
  BY <1>3, SameShown DEF LsRemote, CatchUp
<1>4. CASE EnqueueBuild(p)
  <2>1. passes[p].at = "insert" /\ builds' = Append(builds, NewRow(s, c, "poll", met))
    BY <1>4 DEF EnqueueBuild, s, c, met
  <2> QED
    BY <1>1, <2>1, QueueShown DEF ChainInv
<1>5. CASE CatchUpEnqueue(p)
  <2>1. passes[p].at = "pinned" /\ EnqueueBuildAtShaIfMissing(s, c)
    BY <1>5 DEF CatchUpEnqueue, s, c
  <2> QED
    BY <1>1, <2>1, MissingShown DEF ChainInv
<1> QED
  BY <1>2, <1>3, <1>4, <1>5 DEF Poll

LEMMA ProgressShown ==
  ASSUME ChainInv, NEW r \in runs, Progress(r)
  PROVE  ShownStep
<1>1. CASE ResolveHead(r)
  BY <1>1, ResolveShown
<1>2. CASE UpdateServicePipelineMeta(r) \/ ResolveDeps(r) \/ ListDependents(r)
  BY <1>2, SameShown DEF UpdateServicePipelineMeta, ResolveDeps, ListDependents
<1>3. CASE BuildSucceeds(r)
  BY <1>3, EndShown DEF BuildSucceeds, Ended
<1>4. CASE ResolveFails(r) \/ BuildFails(r)
  BY <1>4, EndShown DEF ResolveFails, BuildFails, Fails, Ended
<1>5. ASSUME NEW d \in Service, TriggerDependent(r, d) PROVE ShownStep
  <2>1. PICK c : c = builds[r.build].sha
    OBVIOUS
  <2>2. r.at = "trigger"
    BY <1>5 DEF TriggerDependent
  <2>3. c \in Commit
    BY <2>1, <2>2, RowOfRun DEF SoundRun, Row
  <2>4. \/ Queue(d, Unpinned, "manual") \/ EnqueueBuildAtShaIfMissing(d, c)
        \/ builds' = builds
    BY <1>5, <2>1 DEF TriggerDependent
  <2> QED
    BY <2>3, <2>4, QueueShown, MissingShown, SameShown DEF ChainInv, Queue
<1> QED
  BY <1>1, <1>2, <1>3, <1>4, <1>5 DEF Progress

LEMMA StepShown ==
  ASSUME ChainInv, [Next]_vars
  PROVE  ShownStep
<1>1. ASSUME NEW g \in DOMAIN head, Push(g) PROVE ShownStep
  BY <1>1, SameShown DEF Push
<1>2. ASSUME NEW s \in Service, StartBuild(s) PROVE ShownStep
  BY <1>2, QueueShown DEF StartBuild, Queue, ChainInv
<1>3. ASSUME NEW p \in Pass, PollServiceFails(p) PROVE ShownStep
  BY <1>3, SameShown DEF PollServiceFails
<1>4. ASSUME NEW b \in Ids, Claim(b) \/ SweepOrphan(b) PROVE ShownStep
  BY <1>4, ClaimShown, SweepShown DEF ChainInv
<1>5. ASSUME NEW r \in runs,
             RunDies(r) \/ UpdateMetaFails(r) \/ \E d \in Service : TriggerFails(r, d)
      PROVE  ShownStep
  BY <1>5, SameShown DEF RunDies, UpdateMetaFails, TriggerFails
<1>6. CASE UNCHANGED vars
  BY <1>6, SameShown DEF vars
<1> QED
  BY <1>1, <1>2, <1>3, <1>4, <1>5, <1>6, PollShown, ProgressShown DEF Next

LEMMA TableInit == Init => Table!Init
<1> SUFFICES ASSUME Init PROVE Table!Init
  OBVIOUS
<1>1. Ids = {}
  BY DEF Init, Ids
<1>2. Rows = <<>>
  BY <1>1 DEF Rows
<1> QED
  BY <1>2 DEF Rows, Table!Init

\* The queue the poller and the triggers write to implements the same table as the one of
\* BuildQueue (enqueueBuildAtShaIfMissing, claimNextBuildWithinLimit, finishBuild,
\* sweepOrphanedBuilds): what is proved of the one holds for the other.
THEOREM ChainRunsInTurn == Spec => InTurn
<1>1. Init => ChainInv /\ Table!Init
  BY ChainInvInit, TableInit
<1>2. ChainInv /\ [Next]_vars => ChainInv' /\ [Table!Next]_Table!vars
  BY ChainInvStep, StepShown DEF ShownStep
<1> QED
  BY <1>1, <1>2, PTL DEF Spec, InTurn, Table!Spec
=============================================================================
