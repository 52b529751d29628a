------------------------------ MODULE Redeploy ------------------------------
(***************************************************************************)
(* What happens to one service after its builds: the platform sends        *)
(* redeploy_service and teardown_service to the agents bound to it (after  *)
(* a build, when an agent connects, by hand, when the environment of an    *)
(* agent or a binding changes, and from the drift scheduler), the agents   *)
(* carry them out on Docker or Kubernetes, each command in a goroutine of  *)
(* its own, and what they report is the row the scheduler compares with    *)
(* the build it wants.                                                     *)
(***************************************************************************)
EXTENDS Naturals, FiniteSets

CONSTANTS
  Agent,     \* the agents
  Env,       \* environments an agent can be in
  Namespace, \* namespaces of kaiad.yaml and of the runtime
  Default,   \* the namespace the runtime takes when kaiad.yaml names none
  Unset,     \* kaiad.yaml names no namespace
  MaxBuild,  \* builds of the service
  Config,    \* resolveEnvironment: namespace, replicas, whether there are domains
  Slot,      \* room for commands accepted and not finished
  None,      \* no command, no row
  Patient,   \* the scheduler's interval outlasts the commands sent before
  MaxEvents  \* what operators do, failing calls, lost messages and sessions, crashes

Build == 1..MaxBuild
Backend == {"docker", "kubernetes"}

ASSUME RedeployAssumption ==
  /\ Default \in Namespace /\ Unset \notin Namespace
  /\ MaxBuild \in Nat /\ MaxEvents \in Nat /\ Patient \in BOOLEAN
  /\ Config \in [Build -> [Env -> [ns : Namespace \cup {Unset}, n : Nat, domains : BOOLEAN]]]

VARIABLES
  backend, \* the runtime of an agent, as its hello told
  env,     \* agents.environment
  bound,   \* agent_services
  online,  \* agents with a session
  fresh,   \* agents that connected and await the reconcile pass
  latest,  \* the newest successful build with an image, 0 before the first
  rows,    \* service_loadbalancer_status
  tick,    \* the pass of the drift scheduler
  cmds,    \* the commands accepted and not finished
  box,     \* containers (Docker) or deployments (Kubernetes) of the service
  routes,  \* Docker: namespaces the load balancer has a snippet of the service for
  sure,    \* the last command of an agent, if it ended well and was undisturbed
  events   \* what operators did and what failed so far

platform == <<bound, env, latest, rows, tick, fresh>>
vars == <<backend, platform, online, cmds, box, routes, sure, events>>

-----------------------------------------------------------------------------
(* Commands                                                                *)

Command(kind, a, b, e, ns) == [kind |-> kind, agent |-> a, build |-> b, env |-> e, ns |-> ns]
Redeploy(a, b, e) == Command("redeploy", a, b, e, Config[b][e].ns)
Teardown(a, e, ns) == Command("teardown", a, 0, e, ns)

\* A command on its way: its step, the containers it has still to remove, the
\* replica it is at, the container it starts, and whether it was alone so far.
Queued(c) == [cmd |-> c, pc |-> "queued", found |-> {}, i |-> 0, id |-> 0, solo |-> TRUE]
At(s, pc) == cmds[s] # None /\ cmds[s].pc = pc
On(s) == cmds[s].cmd.agent
Running(s) == cmds[s] # None /\ cmds[s].pc \notin {"queued", "reported"}
Busy(a) == {s \in Slot : Running(s) /\ On(s) = a}

\* The commands in C are accepted.
Dispatch(C) ==
  \E f \in [Slot -> C \cup {None}] :
    /\ \A s \in Slot : f[s] # None => cmds[s] = None
    /\ \A c \in C : Cardinality({s \in Slot : f[s] = c}) = 1
    /\ cmds' = [s \in Slot |-> IF f[s] = None THEN cmds[s] ELSE Queued(f[s])]

\* The namespace a runtime uses.
Effective(ns) == IF ns = Unset THEN Default ELSE ns

-----------------------------------------------------------------------------
(* Status rows                                                             *)

RowsOf(a) == {r \in rows : r.agent = a}
\* Mutant: the namespace is part of the key.
UpsertPlace(r) == rows' = {q \in rows : q.env # r.env \/ q.ns # r.ns} \cup {r}
\* upsertLoadBalancerStatus: the key is (service, environment).
Upsert(r) == rows' = {q \in rows : q.env # r.env} \cup {r}
\* popLoadBalancerStatusForAgentService
Pop(a) == rows' = rows \ RowsOf(a)
\* What the teardown that follows a pop names: a popped row, or else (e, ns).
LastKnown(a, e, ns) ==
  IF RowsOf(a) = {} THEN {Teardown(a, e, ns)} ELSE {Teardown(a, r.env, r.ns) : r \in RowsOf(a)}

\* listAllDeployTargets: one target for every row of a bound agent.
Target(a, r) == [agent |-> a, env |-> env[a], build |-> latest, row |-> r]
Targets ==
  IF latest = 0 THEN {}
  ELSE {Target(a, None) : a \in {x \in bound : RowsOf(x) = {}}}
       \cup {Target(r.agent, r) : r \in {q \in rows : q.agent \in bound}}

Desired(t) == Config[t.build][t.env]
NamespaceDrift(t) ==
  IF t.row = None THEN FALSE ELSE Desired(t).ns # Unset /\ t.row.ns # Desired(t).ns
Drift(t) ==
  t.row # None => t.row.build # t.build \/ t.row.env # t.env \/ NamespaceDrift(t)

-----------------------------------------------------------------------------
(* The platform                                                            *)

Happens == events < MaxEvents /\ events' = events + 1

\* A build succeeds; the worker dispatches it to the agents bound.
BuildSucceeds ==
  /\ latest < MaxBuild /\ latest' = latest + 1
  /\ Dispatch({Redeploy(a, latest', env[a]) : a \in bound})
  /\ UNCHANGED <<backend, bound, env, rows, tick, fresh, online, box, routes, sure, events>>

\* An agent connects; what reconciles it runs later.
Connect(a) ==
  /\ a \notin online /\ online' = online \cup {a}
  /\ fresh' = fresh \cup {a}
  /\ UNCHANGED <<backend, bound, env, latest, rows, tick, cmds, box, routes, sure, events>>

\* reconcileAgentDeploys sends the build if the agent reported none.
Reconcile(a) ==
  /\ a \in fresh /\ fresh' = fresh \ {a}
  /\ IF a \in bound /\ latest > 0 /\ RowsOf(a) = {}
       THEN Dispatch({Redeploy(a, latest, env[a])})
       ELSE UNCHANGED cmds
  /\ UNCHANGED <<backend, bound, env, latest, rows, tick, online, box, routes, sure, events>>

\* An operator deploys any successful build to an agent.
DeployBuild(a, b) ==
  /\ Happens
  /\ a \in bound /\ b <= latest
  /\ Dispatch({Redeploy(a, b, env[a])})
  /\ UNCHANGED <<backend, platform, online, box, routes, sure>>

\* An operator moves an agent to another environment.
ChangeEnvironment(a, e) ==
  /\ Happens
  /\ e # env[a] /\ env' = [env EXCEPT ![a] = e]
  /\ IF a \in bound /\ latest > 0 /\ Config[latest][env[a]] # Config[latest][e]
       THEN LET old == Config[latest][env[a]].ns IN
            IF old # Config[latest][e].ns
              THEN /\ \E down \in LastKnown(a, env[a], old) : Dispatch({down, Redeploy(a, latest, e)})
                   /\ Pop(a)
              ELSE Dispatch({Redeploy(a, latest, e)}) /\ UNCHANGED rows
       ELSE UNCHANGED <<cmds, rows>>
  /\ UNCHANGED <<backend, bound, latest, tick, fresh, online, box, routes, sure>>

\* attachServiceToAgent deploys nothing.
Attach(a) ==
  /\ Happens
  /\ a \notin bound /\ bound' = bound \cup {a}
  /\ UNCHANGED <<backend, env, latest, rows, tick, fresh, online, cmds, box, routes, sure>>

\* detachServiceWithTeardown
Detach(a) ==
  /\ Happens
  /\ a \in bound /\ bound' = bound \ {a}
  /\ \E down \in LastKnown(a, env[a], Unset) : Dispatch({down})
  /\ Pop(a)
  /\ UNCHANGED <<backend, env, latest, tick, fresh, online, box, routes, sure>>

Resting == [on |-> FALSE, todo |-> {}, next |-> None]

\* A pass reads the targets and who is connected once.  The timer of the code fires
\* whatever is in progress (Patient = FALSE); with Patient a pass comes when the
\* commands of the last one have ended.
TickBegins ==
  /\ ~tick.on
  /\ Patient => \A s \in Slot : cmds[s] = None
  /\ \E t \in Targets : t.agent \in online /\ Drift(t)
  /\ tick' = [on |-> TRUE, todo |-> {t \in Targets : t.agent \in online /\ Drift(t)}, next |-> None]
  /\ UNCHANGED <<backend, bound, env, latest, rows, fresh, online, cmds, box, routes, sure, events>>

\* Mutant: the rows stay.
TickTearsDownOnly(t) ==
  /\ tick.next = None /\ t \in tick.todo /\ NamespaceDrift(t)
  /\ Dispatch({Teardown(t.agent, t.row.env, t.row.ns)})
  /\ tick' = [tick EXCEPT !.todo = @ \ {t}, !.next = Redeploy(t.agent, t.build, t.env)]
  /\ UNCHANGED <<backend, bound, env, latest, rows, fresh, online, box, routes, sure, events>>
\* The namespace changed: pop the rows and tear the old one down, first.
TickTearsDown(t) ==
  /\ tick.next = None /\ t \in tick.todo /\ NamespaceDrift(t)
  /\ Pop(t.agent)
  /\ Dispatch({Teardown(t.agent, t.row.env, t.row.ns)})
  /\ tick' = [tick EXCEPT !.todo = @ \ {t}, !.next = Redeploy(t.agent, t.build, t.env)]
  /\ UNCHANGED <<backend, bound, env, latest, fresh, online, box, routes, sure, events>>

TickChooses(t) ==
  /\ tick.next = None /\ t \in tick.todo /\ ~NamespaceDrift(t)
  /\ tick' = [tick EXCEPT !.todo = @ \ {t}, !.next = Redeploy(t.agent, t.build, t.env)]
  /\ UNCHANGED <<backend, bound, env, latest, rows, fresh, online, cmds, box, routes, sure, events>>

TickRedeploys ==
  /\ tick.next # None
  /\ Dispatch({tick.next})
  /\ tick' = IF tick.todo = {} THEN Resting ELSE [tick EXCEPT !.next = None]
  /\ UNCHANGED <<backend, bound, env, latest, rows, fresh, online, box, routes, sure, events>>

\* The platform handles a report.
HandleReport(s) ==
  /\ At(s, "reported")
  /\ LET c == cmds[s].cmd IN
     Upsert([agent |-> c.agent, env |-> c.env, build |-> c.build, ns |-> Effective(c.ns)])
  /\ cmds' = [cmds EXCEPT ![s] = None]
  /\ UNCHANGED <<backend, bound, env, latest, tick, fresh, online, box, routes, sure, events>>

-----------------------------------------------------------------------------
(* The agent                                                               *)

quiet == <<backend, platform, online>>

Keep(s, k) == cmds' = [cmds EXCEPT ![s] = k]
Goto(s, pc) == Keep(s, [cmds[s] EXCEPT !.pc = pc])
Here(s) == box[On(s)]
SetHere(s, S) == box' = [box EXCEPT ![On(s)] = S]
Ns(s) == Effective(cmds[s].cmd.ns)
Replicas(c) == Config[c.build][c.env].n
IsRedeploy(s) == cmds[s].cmd.kind = "redeploy"
OnDocker(s) == backend[On(s)] = "docker"

\* A command ends without a report.
Gone(s) == Keep(s, None)
\* It ended well: what it did is known if nothing else ran meanwhile.
Vouch(s) == sure' = [sure EXCEPT ![On(s)] = IF cmds[s].solo THEN cmds[s].cmd ELSE None]

First(s) ==
  IF OnDocker(s) THEN IF IsRedeploy(s) THEN "list" ELSE "detach"
  ELSE IF IsRedeploy(s) THEN "apply" ELSE "drop"

\* A command starts in a goroutine of its own, whatever else runs.
Begin(s) ==
  /\ At(s, "queued") /\ On(s) \in online
  /\ cmds' = [x \in Slot |->
       IF x = s THEN [cmds[s] EXCEPT !.pc = First(s), !.solo = Busy(On(s)) = {}]
       ELSE IF x \in Busy(On(s)) THEN [cmds[x] EXCEPT !.solo = FALSE] ELSE cmds[x]]
  /\ sure' = [sure EXCEPT ![On(s)] = None]
  /\ UNCHANGED <<quiet, box, routes, events>>

\* Kubernetes: the manifests are applied.
Apply(s) ==
  /\ At(s, "apply")
  /\ SetHere(s, {x \in Here(s) : x.ns # Ns(s)}
                \cup {[ns |-> Ns(s), i |-> 0, id |-> 0, build |-> cmds[s].cmd.build, up |-> TRUE]})
  /\ Goto(s, "list")
  /\ UNCHANGED <<quiet, routes, sure, events>>

\* Kubernetes: a teardown deletes by name in the namespace it was given.
Drop(s) ==
  /\ At(s, "drop")
  /\ SetHere(s, {x \in Here(s) : x.ns # Ns(s)})
  /\ Goto(s, "list")
  /\ UNCHANGED <<quiet, routes, sure, events>>

\* What a command removes: on Docker the containers of its namespace (a teardown
\* of the default one takes all), on Kubernetes what other namespaces hold.
Doomed(s) ==
  IF OnDocker(s)
    THEN {x \in Here(s) : x.ns = Ns(s) \/ (~IsRedeploy(s) /\ Ns(s) = Default)}
    ELSE {x \in Here(s) : x.ns # Ns(s) \/ ~IsRedeploy(s)}
List(s) ==
  /\ At(s, "list")
  /\ Keep(s, [cmds[s] EXCEPT !.pc = "remove", !.found = Doomed(s)])
  /\ UNCHANGED <<quiet, box, routes, sure, events>>

\* Docker removes the very container, Kubernetes what has the name by now.
Same(s, x, y) == IF OnDocker(s) THEN x.id = y.id ELSE x.ns = y.ns
Remove(s, x) ==
  /\ At(s, "remove") /\ x \in cmds[s].found
  /\ SetHere(s, {y \in Here(s) : ~Same(s, x, y)})
  /\ Keep(s, [cmds[s] EXCEPT !.found = @ \ {x}])
  /\ UNCHANGED <<quiet, routes, sure, events>>

AllRemoved(s) == At(s, "remove") /\ cmds[s].found = {}
RemovedForRedeploy(s) ==
  /\ AllRemoved(s) /\ IsRedeploy(s)
  /\ Goto(s, IF ~OnDocker(s) THEN "report"
             ELSE IF Replicas(cmds[s].cmd) > 0 THEN "clear" ELSE "attach")
  /\ UNCHANGED <<quiet, box, routes, sure, events>>
TeardownEnds(s) ==
  /\ AllRemoved(s) /\ ~IsRedeploy(s)
  /\ Gone(s) /\ Vouch(s)
  /\ UNCHANGED <<quiet, box, routes, events>>

\* Docker: replica after replica, remove what has its name, create, start.
Named(s) == {x \in Here(s) : x.ns = Ns(s) /\ x.i = cmds[s].i}
ClearName(s) ==
  /\ At(s, "clear")
  /\ SetHere(s, Here(s) \ Named(s))
  /\ Goto(s, "create")
  /\ UNCHANGED <<quiet, routes, sure, events>>

\* Container ids are never those of a container somebody still knows.
KnownIds ==
  {x.id : x \in UNION {box[a] : a \in Agent}}
  \cup UNION {{cmds[s].id} \cup {x.id : x \in cmds[s].found} : s \in {q \in Slot : cmds[q] # None}}
FreshId(n) == n \in Nat \ {0} /\ n \notin KnownIds /\ \A m \in 1..(n - 1) : m \in KnownIds
Create(s, n) ==
  /\ At(s, "create") /\ Named(s) = {}
  /\ FreshId(n)
  /\ SetHere(s, Here(s) \cup
       {[ns |-> Ns(s), i |-> cmds[s].i, id |-> n, build |-> cmds[s].cmd.build, up |-> FALSE]})
  /\ Keep(s, [cmds[s] EXCEPT !.pc = "start", !.id = n])
  /\ UNCHANGED <<quiet, routes, sure, events>>

Mine(s) == {x \in Here(s) : x.id = cmds[s].id}
StartReplica(s) ==
  /\ At(s, "start") /\ Mine(s) # {}
  /\ SetHere(s, (Here(s) \ Mine(s)) \cup {[x EXCEPT !.up = TRUE] : x \in Mine(s)})
  /\ Keep(s, [cmds[s] EXCEPT !.i = @ + 1, !.id = 0,
       !.pc = IF cmds[s].i + 1 < Replicas(cmds[s].cmd) THEN "clear" ELSE "attach"])
  /\ UNCHANGED <<quiet, routes, sure, events>>

\* Docker: the snippet of the load balancer, written when there are domains.
SetRoute(s, there) ==
  routes' = [routes EXCEPT ![On(s)] = IF there THEN @ \cup {Ns(s)} ELSE @ \ {Ns(s)}]
\* Mutant: without domains there is nothing to write.
AttachDomains(s) ==
  /\ At(s, "attach")
  /\ IF Config[cmds[s].cmd.build][cmds[s].cmd.env].domains THEN SetRoute(s, TRUE) ELSE UNCHANGED routes
  /\ Goto(s, "report")
  /\ UNCHANGED <<quiet, box, sure, events>>
AttachService(s) ==
  /\ At(s, "attach")
  /\ SetRoute(s, Config[cmds[s].cmd.build][cmds[s].cmd.env].domains)
  /\ Goto(s, "report")
  /\ UNCHANGED <<quiet, box, sure, events>>
DetachService(s) ==
  /\ At(s, "detach")
  /\ SetRoute(s, FALSE)
  /\ Goto(s, "list")
  /\ UNCHANGED <<quiet, box, sure, events>>

\* The name is taken again, or the container is gone: the redeploy fails.
Overtaken(s) ==
  /\ \/ At(s, "create") /\ Named(s) # {}
     \/ At(s, "start") /\ Mine(s) = {}
  /\ Gone(s)
  /\ UNCHANGED <<quiet, box, routes, sure, events>>

Report(s) ==
  /\ At(s, "report")
  /\ Goto(s, "reported") /\ Vouch(s)
  /\ UNCHANGED <<quiet, box, routes, events>>

-----------------------------------------------------------------------------
(* Failures                                                                *)

\* A redeploy on Docker fails at any call; what it did so far stays.
DockerCallFails(s) ==
  /\ Happens
  /\ Running(s) /\ OnDocker(s) /\ cmds[s].pc \notin {"clear", "attach", "detach", "report"}
  /\ IsRedeploy(s) \/ cmds[s].pc = "list"
  /\ Gone(s)
  /\ UNCHANGED <<quiet, box, routes, sure>>

\* The calls whose failure is only logged: the command goes on without.
Unsure(s, k) == Keep(s, [k EXCEPT !.solo = FALSE])
CallSkipped(s) ==
  /\ Happens
  /\ \/ At(s, "clear") /\ Unsure(s, [cmds[s] EXCEPT !.pc = "create"])
     \/ At(s, "apply") /\ Unsure(s, [cmds[s] EXCEPT !.pc = "report"])
     \/ At(s, "attach") /\ Unsure(s, [cmds[s] EXCEPT !.pc = "report"])
     \/ At(s, "detach") /\ Unsure(s, [cmds[s] EXCEPT !.pc = "list"])
     \/ At(s, "drop") /\ Unsure(s, [cmds[s] EXCEPT !.pc = "list"])
     \/ At(s, "list") /\ ~OnDocker(s) /\ Unsure(s, [cmds[s] EXCEPT !.pc = "remove"])
     \/ /\ At(s, "remove") /\ ~(OnDocker(s) /\ IsRedeploy(s))
        /\ \E x \in cmds[s].found : Unsure(s, [cmds[s] EXCEPT !.found = @ \ {x}])
  /\ UNCHANGED <<quiet, box, routes, sure>>

\* The platform does not get a command to the agent, or a report from it.
Lost(s) ==
  /\ Happens
  /\ At(s, "queued") \/ At(s, "reported")
  /\ Gone(s)
  /\ UNCHANGED <<quiet, box, routes, sure>>

\* A session ends: the commands that run are cancelled and not repeated.
Disconnect(a) ==
  /\ Happens
  /\ a \in online /\ online' = online \ {a}
  /\ cmds' = [s \in Slot |-> IF s \in Busy(a) THEN None ELSE cmds[s]]
  /\ UNCHANGED <<backend, platform, box, routes, sure>>

\* The agent dies: what it did not acknowledge is sent again when it is back.
Crash(a) ==
  /\ Happens
  /\ a \in online /\ online' = online \ {a}
  /\ cmds' = [s \in Slot |-> IF s \in Busy(a) THEN Queued(cmds[s].cmd) ELSE cmds[s]]
  /\ UNCHANGED <<backend, platform, box, routes, sure>>

-----------------------------------------------------------------------------

Init ==
  /\ backend \in [Agent -> Backend]
  /\ env \in [Agent -> Env]
  /\ bound \in SUBSET Agent /\ online = Agent
  /\ latest = 0 /\ rows = {} /\ tick = Resting /\ fresh = {}
  /\ cmds = [s \in Slot |-> None]
  /\ box = [a \in Agent |-> {}] /\ routes = [a \in Agent |-> {}]
  /\ sure = [a \in Agent |-> None]
  /\ events = 0

Operator(a) ==
  \/ Attach(a) \/ Detach(a)
  \/ \E b \in Build : DeployBuild(a, b)
  \/ \E e \in Env : ChangeEnvironment(a, e)

Scheduler ==
  \/ TickBegins
  \/ \E t \in tick.todo : TickTearsDown(t) \/ TickChooses(t)
  \/ TickRedeploys

Work(s) ==
  \/ Begin(s)
  \/ Apply(s) \/ Drop(s)
  \/ List(s) \/ RemovedForRedeploy(s) \/ TeardownEnds(s)
  \/ cmds[s] # None /\ \E x \in cmds[s].found : Remove(s, x)
  \/ ClearName(s) \/ StartReplica(s) \/ Overtaken(s)
  \/ \E n \in 1..(Cardinality(KnownIds) + 1) : Create(s, n)
  \/ AttachService(s) \/ DetachService(s)
  \/ Report(s)

Failure ==
  \/ \E s \in Slot : DockerCallFails(s) \/ CallSkipped(s) \/ Lost(s)
  \/ \E a \in Agent : Disconnect(a) \/ Crash(a)

Next ==
  \/ BuildSucceeds
  \/ Scheduler
  \/ \E a \in Agent : Connect(a) \/ Reconcile(a) \/ Operator(a)
  \/ \E s \in Slot : Work(s) \/ HandleReport(s)
  \/ Failure

Spec == Init /\ [][Next]_vars

\* The scheduler's timer, the agents' goroutines and reconnects go on.
Fairness ==
  /\ WF_vars(Scheduler)
  /\ \A a \in Agent : WF_vars(Connect(a)) /\ WF_vars(Reconcile(a))
  /\ \A s \in Slot : WF_vars(Work(s) \/ HandleReport(s))
FairSpec == Spec /\ Fairness

-----------------------------------------------------------------------------
(* Properties                                                              *)

Commands ==
  [kind : {"redeploy"}, agent : Agent, build : Build, env : Env, ns : Namespace \cup {Unset}]
  \cup [kind : {"teardown"}, agent : Agent, build : {0}, env : Env, ns : Namespace \cup {Unset}]
Row == [agent : Agent, env : Env, build : 0..MaxBuild, ns : Namespace]
DeployTarget == [agent : Agent, env : Env, build : Build, row : Row \cup {None}]
Container == [ns : Namespace, i : Nat, id : Nat, build : 0..MaxBuild, up : BOOLEAN]
Step ==
  {"queued", "apply", "drop", "detach", "list", "remove", "clear", "create", "start",
   "attach", "report", "reported"}
Carried ==
  [cmd : Commands, pc : Step, found : SUBSET Container, i : Nat, id : Nat, solo : BOOLEAN]

\* The types, and the key of the status table: one row per environment.
TypeOK ==
  /\ backend \in [Agent -> Backend] /\ env \in [Agent -> Env]
  /\ bound \subseteq Agent /\ online \subseteq Agent /\ fresh \subseteq Agent
  /\ latest \in 0..MaxBuild
  /\ rows \subseteq Row /\ \A r, q \in rows : r.env = q.env => r = q
  /\ tick \in [on : BOOLEAN, todo : SUBSET DeployTarget, next : Commands \cup {None}]
  /\ cmds \in [Slot -> Carried \cup {None}]
  /\ box \in [Agent -> SUBSET Container] /\ routes \in [Agent -> SUBSET Namespace]
  /\ sure \in [Agent -> Commands \cup {None}]

\* Agent a runs what c asked for: on Docker exactly the replicas of the build in
\* its namespace, started, with a route when there are domains; on Kubernetes the
\* deployment in its namespace and nothing elsewhere.
Serves(a, c) ==
  LET ns == Effective(c.ns)
      here == {x \in box[a] : x.ns = ns} IN
  /\ \A x \in here : x.build = c.build /\ x.up
  /\ IF backend[a] = "docker"
       THEN /\ {x.i : x \in here} = 0..(Replicas(c) - 1)
            /\ ns \in routes[a] <=> Config[c.build][c.env].domains
       ELSE here # {} /\ here = box[a]

\* Agent a runs nothing of what c told it to remove.
Wiped(a, c) ==
  LET ns == Effective(c.ns) IN
  IF backend[a] = "docker"
    THEN (\A x \in box[a] : x.ns # ns) /\ ns \notin routes[a]
    ELSE box[a] = {}

\* A command that ended well and ran alone leaves the agent as it asked, whatever
\* commands that failed, were cancelled or overtook each other left there before
\* (removal by label, by namespace and by name in redeployDocker, the sweep of
\* other namespaces in redeployKubernetes, the snippet that is written or wiped).
SureIsTrue ==
  \A a \in Agent : sure[a] # None =>
    IF sure[a].kind = "redeploy" THEN Serves(a, sure[a]) ELSE Wiped(a, sure[a])

\* The row of an environment the agent left that nothing replaces: the namespace
\* is the one it has now, and its reports have a row of their own.
LeftBehind(t) == t.row # None /\ t.row.env # t.env /\ ~NamespaceDrift(t)

\* If the commands a pass sent have ended when the next pass looks, 60 s later
\* (Patient; no timer of the code sees to it), then, whatever fails or changes for
\* a while, the drift scheduler comes to rest: it does not send redeploys for ever
\* (reconcileAllDeployments), but for a row left behind, which no redeploy it sends
\* can bring to agree.
Settles == <>[](\A t \in Targets : Drift(t) => LeftBehind(t))

=============================================================================
