--------------------------- MODULE RedeployProofs ---------------------------
(***************************************************************************)
(* Redeploy: types, and what a command that ended well and ran alone       *)
(* leaves behind, for any agents, environments, namespaces, configurations *)
(* and any number of commands at once.                                     *)
(***************************************************************************)
EXTENDS Redeploy, TLAPS

-----------------------------------------------------------------------------
(* Types                                                                   *)

LEMMA EffectiveType ==
  ASSUME NEW ns \in Namespace \cup {Unset}
  PROVE  Effective(ns) \in Namespace
BY RedeployAssumption DEF Effective

LEMMA RedeployType ==
  ASSUME NEW a \in Agent, NEW b \in Build, NEW e \in Env
  PROVE  Redeploy(a, b, e) \in Commands
<1>1. Config[b][e].ns \in Namespace \cup {Unset}
  BY RedeployAssumption
<1>2. QED
  BY <1>1 DEF Redeploy, Command, Commands

LEMMA TeardownType ==
  ASSUME NEW a \in Agent, NEW e \in Env, NEW ns \in Namespace \cup {Unset}
  PROVE  Teardown(a, e, ns) \in Commands
BY DEF Teardown, Command, Commands

LEMMA QueuedType ==
  ASSUME NEW c \in Commands
  PROVE  Queued(c) \in Carried
BY DEF Queued, Carried, Step

\* Whatever is dispatched, the slots hold commands.
LEMMA DispatchType ==
  ASSUME TypeOK, NEW C \in SUBSET Commands, Dispatch(C)
  PROVE  cmds' \in [Slot -> Carried \cup {None}]
<1>1. PICK f \in [Slot -> C \cup {None}] :
        cmds' = [s \in Slot |-> IF f[s] = None THEN cmds[s] ELSE Queued(f[s])]
  BY DEF Dispatch
<1>2. \A s \in Slot : f[s] # None => Queued(f[s]) \in Carried
  BY QueuedType
<1>3. QED
  BY <1>1, <1>2 DEF TypeOK

LEMMA RowsOfType ==
  ASSUME TypeOK, NEW a, NEW r \in RowsOf(a)
  PROVE  /\ r.env \in Env /\ r.ns \in Namespace
         /\ Teardown(a, r.env, r.ns) \in Commands \/ a \notin Agent
<1>1. r \in Row
  BY DEF RowsOf, TypeOK
<1>2. r.env \in Env /\ r.ns \in Namespace
  BY <1>1 DEF Row
<1>3. QED
  BY <1>2, TeardownType

LEMMA LastKnownType ==
  ASSUME TypeOK, NEW a \in Agent, NEW e \in Env, NEW ns \in Namespace \cup {Unset}
  PROVE  LastKnown(a, e, ns) \subseteq Commands
BY RowsOfType, TeardownType DEF LastKnown

LEMMA PopType ==
  ASSUME TypeOK, NEW a, Pop(a)
  PROVE  rows' \subseteq Row /\ \A r, q \in rows' : r.env = q.env => r = q
BY DEF TypeOK, Pop

LEMMA TargetsType ==
  ASSUME TypeOK, NEW t \in Targets
  PROVE  t \in DeployTarget
<1>1. latest \in Build /\ \A a \in bound : a \in Agent /\ env[a] \in Env
  BY DEF Targets, TypeOK, Build
<1>2. \A r \in rows : r \in Row
  BY DEF TypeOK
<1>3. \A a \in bound : \A r \in Row \cup {None} : Target(a, r) \in DeployTarget
  BY <1>1 DEF Target, DeployTarget
<1>4. QED
  BY <1>1, <1>2, <1>3 DEF Targets

-----------------------------------------------------------------------------
(* Types are kept                                                          *)

LEMMA TypeInit == Init => TypeOK
BY RedeployAssumption DEF Init, TypeOK, Resting

LEMMA PlatformType ==
  ASSUME TypeOK,
         \/ BuildSucceeds
         \/ \E a \in Agent : Connect(a) \/ Reconcile(a) \/ Operator(a)
  PROVE  TypeOK'
<1>1. CASE BuildSucceeds
  <2>1. latest' \in Build /\ latest' \in 0..MaxBuild
    BY <1>1, RedeployAssumption DEF BuildSucceeds, TypeOK, Build
  <2>2. {Redeploy(a, latest', env[a]) : a \in bound} \subseteq Commands
    BY <2>1, RedeployType DEF TypeOK
  <2>3. cmds' \in [Slot -> Carried \cup {None}]
    BY <1>1, <2>2, DispatchType DEF BuildSucceeds
  <2>4. QED
    BY <1>1, <2>1, <2>3 DEF BuildSucceeds, TypeOK, Row, DeployTarget
<1>2. ASSUME NEW a \in Agent, Connect(a)
      PROVE  TypeOK'
  BY <1>2 DEF Connect, TypeOK
<1>3. ASSUME NEW a \in Agent, Reconcile(a)
      PROVE  TypeOK'
  <2>1. latest > 0 => latest \in Build
    BY DEF TypeOK, Build
  <2>2. latest > 0 => {Redeploy(a, latest, env[a])} \subseteq Commands
    BY <2>1, RedeployType DEF TypeOK
  <2>3. cmds' \in [Slot -> Carried \cup {None}]
    BY <1>3, <2>2, DispatchType DEF Reconcile, TypeOK
  <2>4. QED
    BY <1>3, <2>3 DEF Reconcile, TypeOK
<1>4. ASSUME NEW a \in Agent, Attach(a)
      PROVE  TypeOK'
  BY <1>4 DEF Attach, TypeOK
<1>5. ASSUME NEW a \in Agent, Detach(a)
      PROVE  TypeOK'
  <2>1. LastKnown(a, env[a], Unset) \subseteq Commands
    BY LastKnownType DEF TypeOK
  <2>2. cmds' \in [Slot -> Carried \cup {None}]
    BY <1>5, <2>1, DispatchType DEF Detach
  <2>3. rows' \subseteq Row /\ \A r, q \in rows' : r.env = q.env => r = q
    BY <1>5, PopType DEF Detach
  <2>4. QED
    BY <1>5, <2>2, <2>3 DEF Detach, TypeOK
<1>6. ASSUME NEW a \in Agent, NEW b \in Build, DeployBuild(a, b)
      PROVE  TypeOK'
  <2>1. {Redeploy(a, b, env[a])} \subseteq Commands
    BY RedeployType DEF TypeOK
  <2>2. cmds' \in [Slot -> Carried \cup {None}]
    BY <1>6, <2>1, DispatchType DEF DeployBuild
  <2>3. QED
    BY <1>6, <2>2 DEF DeployBuild, platform, TypeOK
<1>7. ASSUME NEW a \in Agent, NEW e \in Env, ChangeEnvironment(a, e)
      PROVE  TypeOK'
  <2> DEFINE old == Config[latest][env[a]].ns
  <2>1. latest > 0 => /\ {Redeploy(a, latest, e)} \subseteq Commands
                      /\ old \in Namespace \cup {Unset}
    BY RedeployType, RedeployAssumption DEF TypeOK, Build
  <2>2. latest > 0 => LastKnown(a, env[a], old) \subseteq Commands
    BY <2>1, LastKnownType DEF TypeOK
  <2>3. /\ env' = [env EXCEPT ![a] = e]
        /\ UNCHANGED <<backend, bound, latest, tick, fresh, online, box, routes, sure>>
        /\ \/ UNCHANGED <<cmds, rows>>
           \/ latest > 0 /\ Dispatch({Redeploy(a, latest, e)}) /\ UNCHANGED rows
           \/ /\ latest > 0 /\ Pop(a)
              /\ \E down \in LastKnown(a, env[a], old) : Dispatch({down, Redeploy(a, latest, e)})
    BY <1>7 DEF ChangeEnvironment
  <2>4. cmds' \in [Slot -> Carried \cup {None}]
    <3>1. CASE UNCHANGED <<cmds, rows>>
      BY <3>1 DEF TypeOK
    <3>2. CASE latest > 0 /\ Dispatch({Redeploy(a, latest, e)})
      BY <3>2, <2>1, DispatchType
    <3>3. ASSUME latest > 0, NEW down \in LastKnown(a, env[a], old),
                 Dispatch({down, Redeploy(a, latest, e)})
          PROVE  cmds' \in [Slot -> Carried \cup {None}]
      <4>1. {down, Redeploy(a, latest, e)} \subseteq Commands
        BY <3>3, <2>1, <2>2
      <4>2. QED
        BY <4>1, <3>3, DispatchType
    <3>4. QED
      BY <2>3, <3>1, <3>2, <3>3
  <2>5. rows' \subseteq Row /\ \A r, q \in rows' : r.env = q.env => r = q
    BY <2>3, PopType DEF TypeOK
  <2>6. env' \in [Agent -> Env]
    BY <2>3 DEF TypeOK
  <2>7. QED
    BY <2>3, <2>4, <2>5, <2>6 DEF TypeOK
<1>8. QED
  BY <1>1, <1>2, <1>3, <1>4, <1>5, <1>6, <1>7 DEF Operator

LEMMA SchedulerType ==
  ASSUME TypeOK, Scheduler
  PROVE  TypeOK'
<1> DEFINE Tick == [on : BOOLEAN, todo : SUBSET DeployTarget, next : Commands \cup {None}]
<1>1. CASE TickBegins
  <2>1. {t \in Targets : t.agent \in online /\ Drift(t)} \in SUBSET DeployTarget
    BY TargetsType
  <2>2. tick' \in Tick
    BY <1>1, <2>1 DEF TickBegins
  <2>3. QED
    BY <1>1, <2>2 DEF TickBegins, TypeOK
<1>2. ASSUME NEW t \in tick.todo
      PROVE  /\ t \in DeployTarget
             /\ Redeploy(t.agent, t.build, t.env) \in Commands
             /\ t.row # None => {Teardown(t.agent, t.row.env, t.row.ns)} \subseteq Commands
             /\ tick' = [tick EXCEPT !.todo = @ \ {t}, !.next = Redeploy(t.agent, t.build, t.env)]
                  => tick' \in Tick
  <2>1. t \in DeployTarget
    BY DEF TypeOK
  <2>2. t.agent \in Agent /\ t.build \in Build /\ t.env \in Env /\ (t.row # None => t.row \in Row)
    BY <2>1 DEF DeployTarget
  <2>3. Redeploy(t.agent, t.build, t.env) \in Commands
    BY <2>2, RedeployType
  <2>4. t.row # None => t.row.env \in Env /\ t.row.ns \in Namespace
    BY <2>2 DEF Row
  <2>5. t.row # None => Teardown(t.agent, t.row.env, t.row.ns) \in Commands
    BY <2>2, <2>4, TeardownType
  <2>6. tick \in Tick
    BY DEF TypeOK
  <2>7. QED
    BY <2>1, <2>3, <2>5, <2>6
<1>3. ASSUME NEW t \in tick.todo, TickTearsDown(t)
      PROVE  TypeOK'
  <2>1. t.row # None
    BY <1>3 DEF TickTearsDown, NamespaceDrift
  <2>2. cmds' \in [Slot -> Carried \cup {None}]
    BY <1>2, <1>3, <2>1, DispatchType DEF TickTearsDown
  <2>3. rows' \subseteq Row /\ \A r, q \in rows' : r.env = q.env => r = q
    BY <1>3, PopType DEF TickTearsDown
  <2>4. tick' \in Tick
    BY <1>2, <1>3 DEF TickTearsDown
  <2>5. QED
    BY <1>3, <2>2, <2>3, <2>4 DEF TickTearsDown, TypeOK
<1>4. ASSUME NEW t \in tick.todo, TickChooses(t)
      PROVE  TypeOK'
  <2>1. tick' \in Tick
    BY <1>2, <1>4 DEF TickChooses
  <2>2. QED
    BY <1>4, <2>1 DEF TickChooses, TypeOK
<1>5. CASE TickRedeploys
  <2>1. {tick.next} \subseteq Commands /\ tick \in Tick
    BY <1>5 DEF TickRedeploys, TypeOK
  <2>2. cmds' \in [Slot -> Carried \cup {None}]
    BY <1>5, <2>1, DispatchType DEF TickRedeploys
  <2>3. tick' \in Tick
    BY <1>5, <2>1 DEF TickRedeploys, Resting
  <2>4. QED
    BY <1>5, <2>2, <2>3 DEF TickRedeploys, TypeOK
<1>6. QED
  BY <1>1, <1>3, <1>4, <1>5 DEF Scheduler

LEMMA CarriedHere ==
  ASSUME TypeOK, NEW s \in Slot, cmds[s] # None
  PROVE  /\ cmds[s] \in Carried /\ cmds[s].cmd \in Commands
         /\ On(s) \in Agent
         /\ cmds[s].cmd.ns \in Namespace \cup {Unset} /\ cmds[s].cmd.env \in Env
         /\ cmds[s].cmd.build \in 0..MaxBuild
         /\ Ns(s) \in Namespace
         /\ Here(s) \subseteq Container
<1>1. cmds[s] \in Carried /\ cmds[s].cmd \in Commands
  BY DEF TypeOK, Carried
<1>2. /\ On(s) \in Agent
      /\ cmds[s].cmd.ns \in Namespace \cup {Unset} /\ cmds[s].cmd.env \in Env
      /\ cmds[s].cmd.build \in 0..MaxBuild
  BY <1>1, RedeployAssumption DEF Commands, On, Build
<1>3. Ns(s) \in Namespace
  BY <1>2, EffectiveType DEF Ns
<1>4. Here(s) \subseteq Container
  BY <1>2 DEF Here, TypeOK
<1>5. QED
  BY <1>1, <1>2, <1>3, <1>4

LEMMA KeepType ==
  ASSUME TypeOK, NEW s \in Slot, NEW k \in Carried \cup {None}, Keep(s, k)
  PROVE  cmds' \in [Slot -> Carried \cup {None}]
BY DEF TypeOK, Keep

LEMMA GotoType ==
  ASSUME TypeOK, NEW s \in Slot, cmds[s] # None, NEW pc \in Step, Goto(s, pc)
  PROVE  cmds' \in [Slot -> Carried \cup {None}]
<1>1. [cmds[s] EXCEPT !.pc = pc] \in Carried
  BY CarriedHere DEF Carried
<1>2. QED
  BY <1>1, KeepType DEF Goto

LEMMA SetHereType ==
  ASSUME TypeOK, NEW s \in Slot, cmds[s] # None, NEW S \in SUBSET Container, SetHere(s, S)
  PROVE  box' \in [Agent -> SUBSET Container]
BY CarriedHere DEF TypeOK, SetHere

LEMMA VouchType ==
  ASSUME TypeOK, NEW s \in Slot, cmds[s] # None, Vouch(s)
  PROVE  sure' \in [Agent -> Commands \cup {None}]
BY CarriedHere DEF TypeOK, Vouch

LEMMA WorkType ==
  ASSUME TypeOK, NEW s \in Slot, Work(s)
  PROVE  TypeOK'
<1> USE DEF quiet, platform
<1> DEFINE Held == cmds' \in [Slot -> Carried \cup {None}]
<1>1. CASE Begin(s)
  <2>1. \A x \in Slot : cmds[x] # None => cmds[x] \in Carried
    BY CarriedHere
  <2>2. First(s) \in Step
    BY DEF First, Step
  <2>3. \A k \in Carried : \A v \in BOOLEAN :
          [k EXCEPT !.solo = v] \in Carried /\ [k EXCEPT !.pc = First(s), !.solo = v] \in Carried
    BY <2>2 DEF Carried
  <2>4. (Busy(On(s)) = {}) \in BOOLEAN /\ \A x \in Busy(On(s)) : cmds[x] # None
    BY DEF Busy, Running
  <2>5. cmds[s] # None
    BY <1>1 DEF Begin, At
  <2>6. Held
    BY <1>1, <2>1, <2>3, <2>4, <2>5 DEF Begin, TypeOK
  <2>7. sure' \in [Agent -> Commands \cup {None}]
    BY <1>1 DEF Begin, TypeOK
  <2>8. QED
    BY <1>1, <2>6, <2>7 DEF Begin, TypeOK
<1>2. CASE Apply(s)
  <2>1. cmds[s] # None
    BY <1>2 DEF Apply, At
  <2>2. [ns |-> Ns(s), i |-> 0, id |-> 0, build |-> cmds[s].cmd.build, up |-> TRUE] \in Container
    BY <2>1, CarriedHere DEF Container
  <2>3. box' \in [Agent -> SUBSET Container]
    BY <1>2, <2>1, <2>2, CarriedHere, SetHereType DEF Apply
  <2>4. Held
    BY <1>2, <2>1, GotoType DEF Apply, Step
  <2>5. QED
    BY <1>2, <2>3, <2>4 DEF Apply, TypeOK
<1>3. CASE Drop(s)
  <2>1. cmds[s] # None
    BY <1>3 DEF Drop, At
  <2>2. box' \in [Agent -> SUBSET Container]
    BY <1>3, <2>1, CarriedHere, SetHereType DEF Drop
  <2>3. Held
    BY <1>3, <2>1, GotoType DEF Drop, Step
  <2>4. QED
    BY <1>3, <2>2, <2>3 DEF Drop, TypeOK
<1>4. CASE List(s)
  <2>1. cmds[s] # None
    BY <1>4 DEF List, At
  <2>2. Doomed(s) \in SUBSET Container
    BY <2>1, CarriedHere DEF Doomed
  <2>3. [cmds[s] EXCEPT !.pc = "remove", !.found = Doomed(s)] \in Carried
    BY <2>1, <2>2, CarriedHere DEF Carried, Step
  <2>4. Held
    BY <1>4, <2>3, KeepType DEF List
  <2>5. QED
    BY <1>4, <2>4 DEF List, TypeOK
<1>5. CASE RemovedForRedeploy(s)
  <2>1. cmds[s] # None
    BY <1>5 DEF RemovedForRedeploy, AllRemoved, At
  <2>2. Held
    BY <1>5, <2>1, GotoType DEF RemovedForRedeploy, Step
  <2>3. QED
    BY <1>5, <2>2 DEF RemovedForRedeploy, TypeOK
<1>6. CASE TeardownEnds(s)
  <2>1. cmds[s] # None
    BY <1>6 DEF TeardownEnds, AllRemoved, At
  <2>2. Held /\ sure' \in [Agent -> Commands \cup {None}]
    BY <1>6, <2>1, KeepType, VouchType DEF TeardownEnds, Gone
  <2>3. QED
    BY <1>6, <2>2 DEF TeardownEnds, TypeOK
<1>7. ASSUME NEW x \in cmds[s].found, Remove(s, x)
      PROVE  TypeOK'
  <2>1. cmds[s] # None
    BY <1>7 DEF Remove, At
  <2>2. box' \in [Agent -> SUBSET Container]
    BY <1>7, <2>1, CarriedHere, SetHereType DEF Remove
  <2>3. [cmds[s] EXCEPT !.found = @ \ {x}] \in Carried
    BY <2>1, CarriedHere DEF Carried
  <2>4. Held
    BY <1>7, <2>3, KeepType DEF Remove
  <2>5. QED
    BY <1>7, <2>2, <2>4 DEF Remove, TypeOK
<1>8. CASE ClearName(s)
  <2>1. cmds[s] # None
    BY <1>8 DEF ClearName, At
  <2>2. box' \in [Agent -> SUBSET Container]
    BY <1>8, <2>1, CarriedHere, SetHereType DEF ClearName
  <2>3. Held
    BY <1>8, <2>1, GotoType DEF ClearName, Step
  <2>4. QED
    BY <1>8, <2>2, <2>3 DEF ClearName, TypeOK
<1>9. ASSUME NEW n, Create(s, n)
      PROVE  TypeOK'
  <2>1. cmds[s] # None /\ n \in Nat
    BY <1>9 DEF Create, At, FreshId
  <2>2. cmds[s].i \in Nat
    BY <2>1, CarriedHere DEF Carried
  <2>3. [ns |-> Ns(s), i |-> cmds[s].i, id |-> n, build |-> cmds[s].cmd.build, up |-> FALSE] \in Container
    BY <2>1, <2>2, CarriedHere DEF Container
  <2>4. box' \in [Agent -> SUBSET Container]
    BY <1>9, <2>1, <2>3, CarriedHere, SetHereType DEF Create
  <2>5. [cmds[s] EXCEPT !.pc = "start", !.id = n] \in Carried
    BY <2>1, CarriedHere DEF Carried, Step
  <2>6. Held
    BY <1>9, <2>5, KeepType DEF Create
  <2>7. QED
    BY <1>9, <2>4, <2>6 DEF Create, TypeOK
<1>10. CASE StartReplica(s)
  <2>1. cmds[s] # None
    BY <1>10 DEF StartReplica, At
  <2>2. \A x \in Container : [x EXCEPT !.up = TRUE] \in Container
    BY DEF Container
  <2>3. (Here(s) \ Mine(s)) \cup {[x EXCEPT !.up = TRUE] : x \in Mine(s)} \in SUBSET Container
    BY <2>1, <2>2, CarriedHere DEF Mine
  <2>4. box' \in [Agent -> SUBSET Container]
    BY <1>10, <2>1, <2>3, SetHereType DEF StartReplica
  <2> DEFINE pc == IF cmds[s].i + 1 < Replicas(cmds[s].cmd) THEN "clear" ELSE "attach"
  <2>5. pc \in Step
    BY DEF Step
  <2>6. [cmds[s] EXCEPT !.i = @ + 1, !.id = 0, !.pc = pc] \in Carried
    <3> HIDE DEF pc
    <3>1. cmds[s] \in Carried /\ cmds[s].i + 1 \in Nat
      BY <2>1, CarriedHere DEF Carried
    <3>2. QED
      BY <3>1, <2>5 DEF Carried
  <2>7. Held
    BY <1>10, <2>6, KeepType DEF StartReplica
  <2>8. QED
    BY <1>10, <2>4, <2>7 DEF StartReplica, TypeOK
<1>11. CASE AttachService(s) \/ DetachService(s)
  <2>1. cmds[s] # None
    BY <1>11 DEF AttachService, DetachService, At
  <2>2. PICK there : SetRoute(s, there)
    BY <1>11 DEF AttachService, DetachService
  <2>3. routes' \in [Agent -> SUBSET Namespace]
    BY <2>1, <2>2, CarriedHere DEF SetRoute, TypeOK
  <2>4. Held
    BY <1>11, <2>1, GotoType DEF AttachService, DetachService, Step
  <2>5. QED
    BY <1>11, <2>3, <2>4 DEF AttachService, DetachService, TypeOK
<1>12. CASE Overtaken(s)
  <2>1. Held
    BY <1>12, KeepType DEF Overtaken, Gone
  <2>2. QED
    BY <1>12, <2>1 DEF Overtaken, TypeOK
<1>13. CASE Report(s)
  <2>1. cmds[s] # None
    BY <1>13 DEF Report, At
  <2>2. Held /\ sure' \in [Agent -> Commands \cup {None}]
    BY <1>13, <2>1, GotoType, VouchType DEF Report, Step
  <2>3. QED
    BY <1>13, <2>2 DEF Report, TypeOK
<1>14. QED
  BY <1>1, <1>2, <1>3, <1>4, <1>5, <1>6, <1>7, <1>8, <1>9, <1>10, <1>11, <1>12, <1>13 DEF Work

LEMMA FailureType ==
  ASSUME TypeOK, Failure \/ \E s \in Slot : HandleReport(s)
  PROVE  TypeOK'
<1> USE DEF quiet, platform
<1> DEFINE Held == cmds' \in [Slot -> Carried \cup {None}]
<1>1. ASSUME NEW s \in Slot, DockerCallFails(s) \/ Lost(s)
      PROVE  TypeOK'
  <2>1. Held
    BY <1>1, KeepType DEF DockerCallFails, Lost, Gone
  <2>2. QED
    BY <1>1, <2>1 DEF DockerCallFails, Lost, TypeOK
<1>2. ASSUME NEW s \in Slot, CallSkipped(s)
      PROVE  TypeOK'
  <2>1. cmds[s] # None
    BY <1>2 DEF CallSkipped, At
  <2>2. \A pc \in Step : [cmds[s] EXCEPT !.pc = pc] \in Carried
    BY <2>1, CarriedHere DEF Carried
  <2>3. \A x : [cmds[s] EXCEPT !.found = @ \ {x}] \in Carried
    BY <2>1, CarriedHere DEF Carried
  <2>4. \E k \in Carried : Unsure(s, k)
    BY <1>2, <2>2, <2>3 DEF CallSkipped, Step
  <2>5. PICK k \in Carried : Keep(s, [k EXCEPT !.solo = FALSE])
    BY <2>4 DEF Unsure
  <2>6. [k EXCEPT !.solo = FALSE] \in Carried
    BY DEF Carried
  <2>7. Held
    BY <2>5, <2>6, KeepType
  <2>8. QED
    BY <1>2, <2>7 DEF CallSkipped, TypeOK
<1>3. ASSUME NEW a \in Agent, Disconnect(a)
      PROVE  TypeOK'
  BY <1>3 DEF Disconnect, TypeOK
<1>4. ASSUME NEW a \in Agent, Crash(a)
      PROVE  TypeOK'
  <2>1. \A s \in Busy(a) : cmds[s].cmd \in Commands
    BY CarriedHere DEF Busy, Running
  <2>2. Held
    BY <1>4, <2>1, QueuedType DEF Crash, TypeOK
  <2>3. QED
    BY <1>4, <2>2 DEF Crash, TypeOK
<1>5. ASSUME NEW s \in Slot, HandleReport(s)
      PROVE  TypeOK'
  <2> DEFINE c == cmds[s].cmd
             r == [agent |-> c.agent, env |-> c.env, build |-> c.build, ns |-> Effective(c.ns)]
  <2>1. cmds[s] # None
    BY <1>5 DEF HandleReport, At
  <2>2. r \in Row
    BY <2>1, CarriedHere DEF Row, Ns, On
  <2>3. Upsert(r)
    BY <1>5 DEF HandleReport
  <2>4. rows' \subseteq Row /\ \A p, q \in rows' : p.env = q.env => p = q
    <3> HIDE DEF r
    <3>1. QED
      BY <2>2, <2>3 DEF Upsert, TypeOK
  <2>5. Held
    BY <1>5 DEF HandleReport, TypeOK
  <2>6. QED
    BY <1>5, <2>4, <2>5 DEF HandleReport, TypeOK
<1>6. QED
  BY <1>1, <1>2, <1>3, <1>4, <1>5 DEF Failure

LEMMA TypeStep == TypeOK /\ [Next]_vars => TypeOK'
<1>1. ASSUME TypeOK, UNCHANGED vars
      PROVE  TypeOK'
  BY <1>1 DEF vars, platform, TypeOK, Row, DeployTarget
<1>2. ASSUME TypeOK, Next
      PROVE  TypeOK'
  BY <1>2, PlatformType, SchedulerType, WorkType, FailureType DEF Next
<1>3. QED
  BY <1>1, <1>2

\* Types, and one status row per environment: the reports of all agents are
\* upserted under the key (service, environment).
THEOREM RedeployTypeCorrect == Spec => []TypeOK
<1>1. QED
  BY TypeInit, TypeStep, PTL DEF Spec

-----------------------------------------------------------------------------
(* A command that ended well and ran alone                                 *)

\* The steps of each kind of command on each runtime.
StepFits(k, be) ==
  /\ k.pc \in {"apply", "clear", "create", "start", "attach", "report", "reported"}
       => k.cmd.kind = "redeploy"
  /\ k.pc \in {"drop", "detach"} => k.cmd.kind = "teardown"
  /\ k.pc \in {"detach", "clear", "create", "start", "attach"} => be = "docker"
  /\ k.pc \in {"apply", "drop"} => be # "docker"
  /\ k.pc \in {"queued", "apply", "drop", "detach", "list", "remove"} => k.i = 0

\* In the namespace of c there are the first n replicas of its build, started.
Replicated(B, c, n) ==
  /\ \A x \in B : x.ns = Effective(c.ns) => x.build = c.build /\ x.up /\ x.i \in 0..(n - 1)
  /\ \A j \in 0..(n - 1) : \E x \in B : x.ns = Effective(c.ns) /\ x.i = j

\* There is one replica more, which only container id has still to be started.
Created(B, c, n, id) ==
  /\ \A x \in B : x.ns = Effective(c.ns) =>
       x.build = c.build /\ (x.up \/ x.id = id) /\ x.i \in 0..n
  /\ \A j \in 0..n : \E x \in B : x.ns = Effective(c.ns) /\ x.i = j

\* The deployment is there.
Deployed(B, c) ==
  /\ \E x \in B : x.ns = Effective(c.ns)
  /\ \A x \in B : x.ns = Effective(c.ns) => x.build = c.build /\ x.up

Listed(B, k) == \A x \in B : x.ns = Effective(k.cmd.ns) => x \in k.found

\* What a command that runs alone has reached, in containers B and routes R.
DockerRedeploys(k, B, R) ==
  /\ k.pc = "remove" => Listed(B, k)
  /\ k.pc \in {"clear", "create"} => k.i < Replicas(k.cmd) /\ Replicated(B, k.cmd, k.i)
  /\ k.pc = "start" => k.i < Replicas(k.cmd) /\ Created(B, k.cmd, k.i, k.id)
  /\ k.pc \in {"attach", "report"} => Replicated(B, k.cmd, Replicas(k.cmd))
  /\ k.pc = "report" => (Effective(k.cmd.ns) \in R <=> Config[k.cmd.build][k.cmd.env].domains)
DockerTearsDown(k, B, R) ==
  /\ k.pc \in {"list", "remove"} => Effective(k.cmd.ns) \notin R
  /\ k.pc = "remove" => Listed(B, k)
KubernetesRedeploys(k, B) ==
  /\ k.pc \in {"list", "remove", "report"} => Deployed(B, k.cmd)
  /\ k.pc = "remove" => /\ \A x \in B : x.ns = Effective(k.cmd.ns) \/ x \in k.found
                        /\ \A x \in k.found : x.ns # Effective(k.cmd.ns)
  /\ k.pc = "report" => \A x \in B : x.ns = Effective(k.cmd.ns)
KubernetesTearsDown(k, B) == k.pc = "remove" => B \subseteq k.found

Good(k, be, B, R) ==
  IF be = "docker"
    THEN IF k.cmd.kind = "redeploy" THEN DockerRedeploys(k, B, R) ELSE DockerTearsDown(k, B, R)
    ELSE IF k.cmd.kind = "redeploy" THEN KubernetesRedeploys(k, B) ELSE KubernetesTearsDown(k, B)

AsAsked(a, c) == IF c.kind = "redeploy" THEN Serves(a, c) ELSE Wiped(a, c)

Fitting == \A s \in Slot : cmds[s] # None => StepFits(cmds[s], backend[On(s)])
Alone ==
  \A s, t \in Slot :
    Running(s) /\ cmds[s].solo /\ Running(t) /\ On(t) = On(s) => t = s
Quiet == \A s \in Slot : Running(s) => sure[On(s)] = None
SoloGood ==
  \A s \in Slot : Running(s) /\ cmds[s].solo =>
    Good(cmds[s], backend[On(s)], box[On(s)], routes[On(s)])

\* The inductive invariant: a command known to be alone is alone, and what is
\* vouched for on an agent is vouched for while nothing runs there.
SureInv == Fitting /\ Alone /\ Quiet /\ SoloGood /\ SureIsTrue

LEMMA StillTrue ==
  ASSUME NEW a \in Agent, NEW c, AsAsked(a, c),
         backend' = backend, box'[a] = box[a], routes'[a] = routes[a]
  PROVE  IF c.kind = "redeploy" THEN Serves(a, c)' ELSE Wiped(a, c)'
BY DEF AsAsked, Serves, Wiped

\* Commands come, or go, or start over: nothing is said of them.
LEMMA ComeAndGo ==
  ASSUME TypeOK, SureInv, UNCHANGED <<backend, box, routes, sure>>,
         \A s \in Slot : \/ cmds'[s] = cmds[s]
                         \/ cmds'[s] = None
                         \/ \E c : cmds'[s] = Queued(c)
  PROVE  SureInv'
<1>1. \A c : Queued(c).pc = "queued" /\ \A be : StepFits(Queued(c), be)
  BY DEF Queued, StepFits
<1>2. \A s \in Slot : Running(s)' => cmds'[s] = cmds[s] /\ Running(s)
  BY <1>1 DEF Running
<1>3. Fitting'
  BY <1>1 DEF SureInv, Fitting, On
<1>4. Alone'
  BY <1>2 DEF SureInv, Alone, On
<1>5. Quiet'
  BY <1>2 DEF SureInv, Quiet, On
<1>6. SoloGood'
  BY <1>2 DEF SureInv, SoloGood, On
<1>7. SureIsTrue'
  BY StillTrue DEF SureInv, SureIsTrue, AsAsked
<1>8. QED
  BY <1>3, <1>4, <1>5, <1>6, <1>7 DEF SureInv

\* A command goes on.
LEMMA GoesOn ==
  ASSUME TypeOK, SureInv, NEW s \in Slot, Running(s), NEW k, Keep(s, k),
         k.cmd = cmds[s].cmd, k.pc \notin {"queued", "reported"},
         k.solo => cmds[s].solo,
         UNCHANGED <<backend, sure>>,
         \A a \in Agent : a # On(s) => box'[a] = box[a] /\ routes'[a] = routes[a],
         StepFits(k, backend[On(s)]),
         k.solo => Good(k, backend[On(s)], box'[On(s)], routes'[On(s)])
  PROVE  SureInv'
<1>1. cmds'[s] = k /\ \A t \in Slot : t # s => cmds'[t] = cmds[t]
  BY DEF Keep, TypeOK
<1>2. \A t \in Slot : /\ Running(t)' => Running(t) /\ On(t)' = On(t)
                      /\ cmds[t] # None => On(t) \in Agent
  BY <1>1, CarriedHere DEF Running, On
<1>3. Fitting'
  <2>1. ASSUME NEW t \in Slot, cmds'[t] # None
        PROVE  StepFits(cmds'[t], backend[cmds'[t].cmd.agent])
    <3>1. CASE t = s
      BY <3>1, <1>1 DEF On
    <3>2. CASE t # s
      BY <3>2, <2>1, <1>1 DEF SureInv, Fitting, On
    <3>3. QED
      BY <3>1, <3>2
  <2>2. QED
    BY <2>1 DEF Fitting, On
<1>4. Alone'
  BY <1>1, <1>2 DEF SureInv, Alone
<1>5. Quiet'
  BY <1>2 DEF SureInv, Quiet
<1>6. SoloGood'
  <2>1. ASSUME NEW t \in Slot, Running(t)', cmds'[t].solo
        PROVE  Good(cmds'[t], backend[On(t)], box'[On(t)], routes'[On(t)])
    <3>1. CASE t = s
      BY <3>1, <2>1, <1>1
    <3>2. CASE t # s
      <4>1. cmds'[t] = cmds[t] /\ Running(t) /\ On(t) # On(s) /\ On(t) \in Agent
        BY <3>2, <2>1, <1>1, <1>2 DEF SureInv, Alone, Running
      <4>2. QED
        BY <4>1, <2>1 DEF SureInv, SoloGood
    <3>3. QED
      BY <3>1, <3>2
  <2>2. QED
    BY <2>1, <1>2 DEF SoloGood
<1>7. SureIsTrue'
  <2>1. \A a \in Agent : sure[a] # None => a # On(s)
    BY DEF SureInv, Quiet
  <2>2. QED
    BY <2>1, StillTrue DEF SureInv, SureIsTrue, AsAsked
<1>8. QED
  BY <1>3, <1>4, <1>5, <1>6, <1>7 DEF SureInv

\* A command ends well.
LEMMA EndsWell ==
  ASSUME TypeOK, SureInv, NEW s \in Slot, Running(s), Vouch(s),
         UNCHANGED <<backend, box, routes>>,
         Gone(s) \/ (Goto(s, "reported") /\ cmds[s].cmd.kind = "redeploy"),
         cmds[s].solo => AsAsked(On(s), cmds[s].cmd)
  PROVE  SureInv'
<1>1. /\ \A t \in Slot : t # s => cmds'[t] = cmds[t]
      /\ cmds'[s] = None \/ cmds'[s] = [cmds[s] EXCEPT !.pc = "reported"]
  BY DEF Gone, Goto, Keep, TypeOK
<1>2. cmds[s] \in Carried /\ On(s) \in Agent
  BY CarriedHere DEF Running
<1>3. ~Running(s)' /\ \A t \in Slot : Running(t)' => Running(t) /\ cmds'[t] = cmds[t] /\ t # s
  <2>1. cmds'[s] # None => cmds'[s].pc = "reported"
    BY <1>1, <1>2 DEF Carried
  <2>2. QED
    BY <1>1, <2>1 DEF Running
<1>4. /\ sure'[On(s)] = IF cmds[s].solo THEN cmds[s].cmd ELSE None
      /\ \A a \in Agent : a # On(s) => sure'[a] = sure[a]
  BY <1>2 DEF Vouch, TypeOK
<1>5. Fitting'
  <2>1. cmds'[s] # None => StepFits(cmds'[s], backend[cmds'[s].cmd.agent])
    BY <1>1, <1>2 DEF StepFits, Carried, Gone, Goto, Keep, TypeOK
  <2>2. QED
    BY <2>1, <1>1 DEF SureInv, Fitting, On
<1>6. Alone'
  BY <1>3 DEF SureInv, Alone, On
<1>7. Quiet'
  <2>1. ASSUME NEW t \in Slot, Running(t)'
        PROVE  sure'[On(t)] = None
    <3>1. Running(t) /\ t # s /\ On(t) \in Agent
      BY <2>1, <1>3, CarriedHere DEF Running
    <3>2. On(t) = On(s) => ~cmds[s].solo
      BY <3>1 DEF SureInv, Alone
    <3>3. QED
      BY <3>1, <3>2, <1>4 DEF SureInv, Quiet
  <2>2. QED
    BY <2>1, <1>3 DEF Quiet, On
<1>8. SoloGood'
  BY <1>3 DEF SureInv, SoloGood, On
<1>9. SureIsTrue'
  <2>1. ASSUME NEW a \in Agent, sure'[a] # None
        PROVE  AsAsked(a, sure'[a])
    <3>1. CASE a = On(s)
      BY <3>1, <2>1, <1>4
    <3>2. CASE a # On(s)
      BY <3>2, <2>1, <1>4 DEF SureInv, SureIsTrue, AsAsked
    <3>3. QED
      BY <3>1, <3>2
  <2>2. QED
    BY <2>1 DEF SureIsTrue, AsAsked, Serves, Wiped
<1>10. QED
  BY <1>5, <1>6, <1>7, <1>8, <1>9 DEF SureInv

LEMMA PlatformSure ==
  ASSUME TypeOK, SureInv,
         \/ BuildSucceeds
         \/ Scheduler
         \/ \E a \in Agent : Connect(a) \/ Reconcile(a) \/ Operator(a)
         \/ \E s \in Slot : HandleReport(s)
         \/ \E s \in Slot : Lost(s) \/ DockerCallFails(s) \/ Overtaken(s)
         \/ \E a \in Agent : Disconnect(a) \/ Crash(a)
         \/ UNCHANGED vars
  PROVE  SureInv'
<1> DEFINE Came(s) == \/ cmds'[s] = cmds[s]
                      \/ cmds'[s] = None
                      \/ \E c : cmds'[s] = Queued(c)
<1>1. ASSUME NEW C, Dispatch(C)
      PROVE  \A s \in Slot : Came(s)
  BY <1>1 DEF Dispatch
<1>2. ASSUME \/ BuildSucceeds
             \/ \E a \in Agent : Connect(a) \/ Reconcile(a) \/ Operator(a)
      PROVE  (\A s \in Slot : Came(s)) /\ UNCHANGED <<backend, box, routes, sure>>
  <2> HIDE DEF Came
  <2>1. UNCHANGED cmds => \A s \in Slot : Came(s)
    BY DEF Came
  <2>2. QED
    BY <1>1, <1>2, <2>1
    DEF BuildSucceeds, Connect, Reconcile, Operator, Attach, Detach, DeployBuild,
        ChangeEnvironment, platform
<1>3. ASSUME Scheduler
      PROVE  (\A s \in Slot : Came(s)) /\ UNCHANGED <<backend, box, routes, sure>>
  <2> HIDE DEF Came
  <2>1. UNCHANGED cmds => \A s \in Slot : Came(s)
    BY DEF Came
  <2>2. QED
    BY <1>1, <1>3, <2>1 DEF Scheduler, TickBegins, TickTearsDown, TickChooses, TickRedeploys
<1>4. ASSUME \/ \E s \in Slot : HandleReport(s)
             \/ \E s \in Slot : Lost(s) \/ DockerCallFails(s) \/ Overtaken(s)
      PROVE  (\A s \in Slot : Came(s)) /\ UNCHANGED <<backend, box, routes, sure>>
  BY <1>4
  DEF HandleReport, Lost, DockerCallFails, Overtaken, Gone, Keep, quiet, TypeOK
<1>5. ASSUME \E a \in Agent : Disconnect(a) \/ Crash(a)
      PROVE  (\A s \in Slot : Came(s)) /\ UNCHANGED <<backend, box, routes, sure>>
  BY <1>5 DEF Disconnect, Crash
<1>6. UNCHANGED vars => (\A s \in Slot : Came(s)) /\ UNCHANGED <<backend, box, routes, sure>>
  BY DEF vars
<1>7. (\A s \in Slot : Came(s)) /\ UNCHANGED <<backend, box, routes, sure>>
  BY <1>2, <1>3, <1>4, <1>5, <1>6
<1>8. QED
  BY <1>7, ComeAndGo

\* A step of a command leaves the other agents alone.
LEMMA OthersAlone ==
  ASSUME TypeOK, NEW s \in Slot, On(s) \in Agent,
         UNCHANGED box \/ \E S : SetHere(s, S),
         UNCHANGED routes \/ \E there : SetRoute(s, there)
  PROVE  \A a \in Agent : a # On(s) => box'[a] = box[a] /\ routes'[a] = routes[a]
BY DEF SetHere, SetRoute, TypeOK

LEMMA HereAfter ==
  ASSUME TypeOK, NEW s \in Slot, On(s) \in Agent, NEW S, SetHere(s, S)
  PROVE  box'[On(s)] = S
BY DEF SetHere, TypeOK

\* What a running command is.
LEMMA RunningHere ==
  ASSUME TypeOK, SureInv, NEW s \in Slot, cmds[s] # None
  PROVE  /\ cmds[s] \in Carried /\ On(s) \in Agent
         /\ StepFits(cmds[s], backend[On(s)])
         /\ cmds[s].cmd.kind \in {"redeploy", "teardown"}
         /\ cmds[s].cmd.kind = "redeploy" => Replicas(cmds[s].cmd) \in Nat
         /\ Ns(s) = Effective(cmds[s].cmd.ns)
         /\ Running(s) /\ cmds[s].solo => Good(cmds[s], backend[On(s)], box[On(s)], routes[On(s)])
<1>1. cmds[s] \in Carried /\ On(s) \in Agent /\ cmds[s].cmd \in Commands
  BY CarriedHere
<1>2. /\ cmds[s].cmd.kind \in {"redeploy", "teardown"}
      /\ cmds[s].cmd.kind = "redeploy" => cmds[s].cmd.build \in Build /\ cmds[s].cmd.env \in Env
  BY <1>1 DEF Commands
<1>3. cmds[s].cmd.kind = "redeploy" => Replicas(cmds[s].cmd) \in Nat
  BY <1>2, RedeployAssumption DEF Replicas
<1>4. QED
  BY <1>1, <1>2, <1>3 DEF SureInv, Fitting, SoloGood, Ns

\* A command begins: if another one runs, none of them is alone any more.
LEMMA BeginSure ==
  ASSUME TypeOK, SureInv, NEW s \in Slot, Begin(s)
  PROVE  SureInv'
<1> DEFINE k == [cmds[s] EXCEPT !.pc = First(s), !.solo = Busy(On(s)) = {}]
<1>1. /\ cmds[s] # None /\ cmds[s].pc = "queued"
      /\ cmds'[s] = k
      /\ \A t \in Slot : t # s =>
           cmds'[t] = IF t \in Busy(On(s)) THEN [cmds[t] EXCEPT !.solo = FALSE] ELSE cmds[t]
      /\ sure' = [sure EXCEPT ![On(s)] = None]
      /\ UNCHANGED <<backend, box, routes>>
  BY DEF Begin, At, quiet
<1>2. /\ cmds[s] \in Carried /\ On(s) \in Agent
      /\ StepFits(cmds[s], backend[On(s)])
      /\ cmds[s].cmd.kind \in {"redeploy", "teardown"}
  BY <1>1, RunningHere
<1>3. /\ k.cmd = cmds[s].cmd /\ k.i = 0 /\ k.pc = First(s)
      /\ k.solo = (Busy(On(s)) = {})
  BY <1>1, <1>2 DEF Carried, StepFits
<1>4. \A t \in Slot : t # s /\ Running(t)' =>
        /\ Running(t) /\ cmds[t] \in Carried
        /\ t \in Busy(On(s)) => cmds'[t] = [cmds[t] EXCEPT !.solo = FALSE]
        /\ t \notin Busy(On(s)) => cmds'[t] = cmds[t]
        /\ On(t)' = On(t) /\ On(t) \in Agent
        /\ cmds'[t].solo => cmds'[t] = cmds[t] /\ On(t) # On(s)
  <2>1. ASSUME NEW t \in Slot, t # s, Running(t)'
        PROVE  /\ Running(t) /\ cmds[t] \in Carried /\ On(t) \in Agent
    <3>1. CASE t \in Busy(On(s))
      BY <3>1, CarriedHere DEF Busy, Running
    <3>2. CASE t \notin Busy(On(s))
      <4>1. Running(t)
        BY <3>2, <2>1, <1>1 DEF Running
      <4>2. QED
        BY <4>1, CarriedHere DEF Running
    <3>3. QED
      BY <3>1, <3>2
  <2>2. QED
    BY <2>1, <1>1 DEF Carried, On, Busy
<1>5. StepFits(k, backend[On(s)])
  <2> HIDE DEF k
  <2>1. QED
    BY <1>2, <1>3 DEF StepFits, First, IsRedeploy, OnDocker
<1>6. Fitting'
  <2>1. ASSUME NEW t \in Slot, cmds'[t] # None
        PROVE  StepFits(cmds'[t], backend[cmds'[t].cmd.agent])
    <3>1. CASE t = s
      <4> HIDE DEF k
      <4>1. QED
        BY <3>1, <1>1, <1>3, <1>5 DEF On
    <3>2. CASE t # s /\ t \in Busy(On(s))
      <4>1. cmds[t] # None /\ cmds[t] \in Carried /\ StepFits(cmds[t], backend[On(t)])
        BY <3>2, RunningHere DEF Busy, Running
      <4>2. QED
        BY <3>2, <4>1, <1>1 DEF StepFits, Carried, On
    <3>3. CASE t # s /\ t \notin Busy(On(s))
      BY <3>3, <2>1, <1>1 DEF SureInv, Fitting, On
    <3>4. QED
      BY <3>1, <3>2, <3>3
  <2>2. QED
    BY <2>1, <1>1 DEF Fitting, On
<1>7. Alone'
  <2>1. ASSUME NEW p \in Slot, NEW q \in Slot, Running(p)', cmds'[p].solo, Running(q)',
               On(q)' = On(p)', q # p
        PROVE  FALSE
    <3> HIDE DEF k
    <3>1. On(s)' = On(s)
      BY <1>1, <1>3 DEF On
    <3>2. CASE p = s
      <4>1. Running(q) /\ On(q) = On(s) /\ Busy(On(s)) = {}
        BY <3>1, <3>2, <2>1, <1>1, <1>3, <1>4
      <4>2. QED
        BY <4>1 DEF Busy
    <3>3. CASE p # s
      <4>1. Running(p) /\ cmds[p].solo /\ On(p)' = On(p) /\ On(p) # On(s)
        BY <3>3, <2>1, <1>4
      <4>2. q # s
        BY <4>1, <3>1, <2>1
      <4>3. Running(q) /\ On(q) = On(p)
        BY <4>1, <4>2, <2>1, <1>4
      <4>4. QED
        BY <4>1, <4>3, <2>1 DEF SureInv, Alone
    <3>4. QED
      BY <3>2, <3>3
  <2>2. QED
    BY <2>1 DEF Alone
<1>8. Quiet'
  <2>1. ASSUME NEW t \in Slot, Running(t)'
        PROVE  sure'[On(t)'] = None
    <3> HIDE DEF k
    <3>1. CASE t = s
      BY <3>1, <1>1, <1>2, <1>3 DEF On, TypeOK
    <3>2. CASE t # s
      <4>1. sure[On(t)] = None /\ On(t)' = On(t) /\ On(t) \in Agent
        BY <3>2, <2>1, <1>4 DEF SureInv, Quiet
      <4>2. QED
        BY <4>1, <1>1, <1>2 DEF TypeOK
    <3>3. QED
      BY <3>1, <3>2
  <2>2. QED
    BY <2>1 DEF Quiet, On
<1>9. SoloGood'
  <2>1. ASSUME NEW t \in Slot, Running(t)', cmds'[t].solo
        PROVE  Good(cmds'[t], backend[cmds'[t].cmd.agent], box[cmds'[t].cmd.agent],
                    routes[cmds'[t].cmd.agent])
    <3> HIDE DEF k
    <3>1. CASE t = s
      <4>1. Good(k, backend[On(s)], box[On(s)], routes[On(s)])
        BY <1>3 DEF Good, DockerRedeploys, DockerTearsDown, KubernetesRedeploys,
                    KubernetesTearsDown, First, IsRedeploy, OnDocker
      <4>2. QED
        BY <3>1, <4>1, <1>1, <1>3 DEF On
    <3>2. CASE t # s
      BY <3>2, <2>1, <1>4 DEF SureInv, SoloGood, On
    <3>3. QED
      BY <3>1, <3>2
  <2>2. QED
    BY <2>1, <1>1 DEF SoloGood, On
<1>10. SureIsTrue'
  <2>1. ASSUME NEW a \in Agent, sure'[a] # None
        PROVE  AsAsked(a, sure'[a])
    <3>1. a # On(s) /\ sure'[a] = sure[a]
      BY <2>1, <1>1, <1>2 DEF TypeOK
    <3>2. QED
      BY <3>1, <2>1 DEF SureInv, SureIsTrue, AsAsked
  <2>2. QED
    BY <2>1, <1>1 DEF SureIsTrue, AsAsked, Serves, Wiped
<1>11. QED
  BY <1>6, <1>7, <1>8, <1>9, <1>10 DEF SureInv

\* Kubernetes: apply, drop by name, list, delete.
LEMMA KubernetesSure ==
  ASSUME TypeOK, SureInv, NEW s \in Slot, Apply(s) \/ Drop(s)
  PROVE  SureInv'
<1> DEFINE k == [cmds[s] EXCEPT !.pc = "list"]
<1>1. cmds[s] # None /\ Running(s) /\ cmds[s].pc \in {"apply", "drop"}
  BY DEF Apply, Drop, At, Running
<1>2. /\ cmds[s] \in Carried /\ On(s) \in Agent
      /\ StepFits(cmds[s], backend[On(s)])
      /\ cmds[s].cmd.kind \in {"redeploy", "teardown"}
      /\ Ns(s) = Effective(cmds[s].cmd.ns)
  BY <1>1, RunningHere
<1>3. /\ k.cmd = cmds[s].cmd /\ k.i = cmds[s].i /\ k.pc = "list" /\ k.solo = cmds[s].solo
  BY <1>2 DEF Carried
<1>4. Keep(s, k) /\ UNCHANGED <<backend, sure>>
  BY DEF Apply, Drop, Goto, quiet
<1>5. \A a \in Agent : a # On(s) => box'[a] = box[a] /\ routes'[a] = routes[a]
  BY <1>2, OthersAlone DEF Apply, Drop
<1> HIDE DEF k
<1>6. StepFits(k, backend[On(s)]) /\ backend[On(s)] # "docker"
  BY <1>1, <1>2, <1>3 DEF StepFits
<1>7. Apply(s) => Deployed(box'[On(s)], cmds[s].cmd)
  <2>1. ASSUME Apply(s)
        PROVE  Deployed(box'[On(s)], cmds[s].cmd)
    <3> DEFINE new == [ns |-> Ns(s), i |-> 0, id |-> 0, build |-> cmds[s].cmd.build, up |-> TRUE]
               B == {x \in Here(s) : x.ns # Ns(s)} \cup {new}
    <3>1. SetHere(s, B)
      BY <2>1 DEF Apply
    <3>2. new.ns = Ns(s) /\ new.build = cmds[s].cmd.build /\ new.up = TRUE
      OBVIOUS
    <3> HIDE DEF new
    <3>3. new \in B /\ \A x \in B : x.ns = Ns(s) => x = new
      OBVIOUS
    <3> HIDE DEF B
    <3>4. box'[On(s)] = B
      BY <3>1, <1>2, HereAfter
    <3>5. QED
      BY <3>2, <3>3, <3>4, <1>2 DEF Deployed
  <2>2. QED
    BY <2>1
<1>8. Drop(s) => cmds[s].cmd.kind = "teardown"
  BY <1>2 DEF Drop, At, StepFits
<1>9. Good(k, backend[On(s)], box'[On(s)], routes'[On(s)])
  BY <1>2, <1>3, <1>6, <1>7, <1>8 DEF Good, KubernetesRedeploys, KubernetesTearsDown
<1>10. QED
  BY <1>1, <1>3, <1>4, <1>5, <1>6, <1>9, GoesOn

LEMMA ListSure ==
  ASSUME TypeOK, SureInv, NEW s \in Slot, List(s)
  PROVE  SureInv'
<1> DEFINE k == [cmds[s] EXCEPT !.pc = "remove", !.found = Doomed(s)]
<1>1. cmds[s] # None /\ Running(s) /\ cmds[s].pc = "list"
  BY DEF List, At, Running
<1>2. /\ cmds[s] \in Carried /\ On(s) \in Agent
      /\ StepFits(cmds[s], backend[On(s)])
      /\ cmds[s].cmd.kind \in {"redeploy", "teardown"}
      /\ Ns(s) = Effective(cmds[s].cmd.ns)
      /\ cmds[s].solo => Good(cmds[s], backend[On(s)], box[On(s)], routes[On(s)])
  BY <1>1, RunningHere
<1>3. /\ k.cmd = cmds[s].cmd /\ k.i = cmds[s].i /\ k.pc = "remove" /\ k.solo = cmds[s].solo
      /\ k.found = Doomed(s)
  BY <1>2 DEF Carried
<1>4. Keep(s, k) /\ UNCHANGED <<backend, sure, box, routes>>
  BY DEF List, quiet
<1> HIDE DEF k
<1>5. StepFits(k, backend[On(s)])
  BY <1>1, <1>2, <1>3 DEF StepFits
<1>6. k.solo => Good(k, backend[On(s)], box[On(s)], routes[On(s)])
  BY <1>1, <1>2, <1>3
  DEF Good, DockerRedeploys, DockerTearsDown, KubernetesRedeploys, KubernetesTearsDown,
      Listed, Doomed, Here, IsRedeploy, OnDocker
<1>7. QED
  BY <1>1, <1>3, <1>4, <1>5, <1>6, GoesOn

LEMMA RemoveSure ==
  ASSUME TypeOK, SureInv, NEW s \in Slot, cmds[s] # None, NEW x \in cmds[s].found, Remove(s, x)
  PROVE  SureInv'
<1> DEFINE k == [cmds[s] EXCEPT !.found = @ \ {x}]
           B == {y \in Here(s) : ~Same(s, x, y)}
<1>1. Running(s) /\ cmds[s].pc = "remove"
  BY DEF Remove, At, Running
<1>2. /\ cmds[s] \in Carried /\ On(s) \in Agent
      /\ StepFits(cmds[s], backend[On(s)])
      /\ cmds[s].cmd.kind \in {"redeploy", "teardown"}
      /\ cmds[s].solo => Good(cmds[s], backend[On(s)], box[On(s)], routes[On(s)])
  BY <1>1, RunningHere
<1>3. /\ k.cmd = cmds[s].cmd /\ k.i = cmds[s].i /\ k.pc = "remove" /\ k.solo = cmds[s].solo
      /\ k.found = cmds[s].found \ {x}
  BY <1>1, <1>2 DEF Carried
<1>4. Keep(s, k) /\ UNCHANGED <<backend, sure, routes>> /\ SetHere(s, B)
  BY DEF Remove, quiet
<1>5. \A a \in Agent : a # On(s) => box'[a] = box[a] /\ routes'[a] = routes[a]
  BY <1>2, <1>4, OthersAlone
<1>6. box'[On(s)] = B
  BY <1>2, <1>4, HereAfter
<1> HIDE DEF k, B
<1>7. StepFits(k, backend[On(s)])
  BY <1>1, <1>2, <1>3 DEF StepFits
<1>8. \A y \in B : /\ y \in box[On(s)] /\ y # x
                   /\ backend[On(s)] # "docker" => y.ns # x.ns
  BY DEF B, Same, Here, OnDocker
<1>9. \A y \in box[On(s)] : backend[On(s)] # "docker" /\ y.ns # x.ns => y \in B
  BY DEF B, Same, Here, OnDocker
<1>10. k.solo => Good(k, backend[On(s)], B, routes[On(s)])
  <2>1. CASE backend[On(s)] = "docker"
    BY <2>1, <1>1, <1>2, <1>3, <1>8
    DEF Good, DockerRedeploys, DockerTearsDown, Listed
  <2>2. CASE backend[On(s)] # "docker" /\ cmds[s].cmd.kind = "redeploy"
    <3>1. ASSUME cmds[s].solo
          PROVE  /\ Deployed(B, cmds[s].cmd)
                 /\ \A y \in B : y.ns = Effective(cmds[s].cmd.ns) \/ y \in cmds[s].found \ {x}
                 /\ \A y \in cmds[s].found \ {x} : y.ns # Effective(cmds[s].cmd.ns)
      <4>1. /\ Deployed(box[On(s)], cmds[s].cmd)
            /\ \A y \in box[On(s)] : y.ns = Effective(cmds[s].cmd.ns) \/ y \in cmds[s].found
            /\ \A y \in cmds[s].found : y.ns # Effective(cmds[s].cmd.ns)
        BY <3>1, <2>2, <1>1, <1>2 DEF Good, KubernetesRedeploys
      <4>2. x.ns # Effective(cmds[s].cmd.ns)
        BY <4>1
      <4>3. Deployed(B, cmds[s].cmd)
        BY <4>1, <4>2, <2>2, <1>8, <1>9 DEF Deployed
      <4>4. QED
        BY <4>1, <4>3, <1>8
    <3>2. QED
      BY <3>1, <2>2, <1>3 DEF Good, KubernetesRedeploys
  <2>3. CASE backend[On(s)] # "docker" /\ cmds[s].cmd.kind # "redeploy"
    BY <2>3, <1>1, <1>2, <1>3, <1>8 DEF Good, KubernetesTearsDown
  <2>4. QED
    BY <2>1, <2>2, <2>3
<1>11. QED
  BY <1>1, <1>3, <1>4, <1>5, <1>6, <1>7, <1>10, GoesOn

LEMMA RemovedForRedeploySure ==
  ASSUME TypeOK, SureInv, NEW s \in Slot, RemovedForRedeploy(s)
  PROVE  SureInv'
<1> DEFINE pc == IF ~OnDocker(s) THEN "report"
                 ELSE IF Replicas(cmds[s].cmd) > 0 THEN "clear" ELSE "attach"
           k == [cmds[s] EXCEPT !.pc = pc]
<1>1. /\ cmds[s] # None /\ Running(s) /\ cmds[s].pc = "remove" /\ cmds[s].found = {}
      /\ cmds[s].cmd.kind = "redeploy"
  BY DEF RemovedForRedeploy, AllRemoved, At, Running, IsRedeploy
<1>2. /\ cmds[s] \in Carried /\ On(s) \in Agent
      /\ StepFits(cmds[s], backend[On(s)])
      /\ Replicas(cmds[s].cmd) \in Nat
      /\ cmds[s].solo => Good(cmds[s], backend[On(s)], box[On(s)], routes[On(s)])
  BY <1>1, RunningHere
<1>3. /\ k.cmd = cmds[s].cmd /\ k.i = cmds[s].i /\ k.pc = pc /\ k.solo = cmds[s].solo
  BY <1>2 DEF Carried
<1>4. Keep(s, k) /\ UNCHANGED <<backend, sure, box, routes>>
  BY DEF RemovedForRedeploy, Goto, quiet
<1>5. pc = IF backend[On(s)] # "docker" THEN "report"
           ELSE IF Replicas(cmds[s].cmd) > 0 THEN "clear" ELSE "attach"
  BY DEF OnDocker
<1> HIDE DEF k, pc
<1>6. StepFits(k, backend[On(s)])
  BY <1>1, <1>2, <1>3, <1>5 DEF StepFits
<1>7. cmds[s].i = 0
  BY <1>1, <1>2 DEF StepFits
<1>8. k.solo => Good(k, backend[On(s)], box[On(s)], routes[On(s)])
  <2>1. CASE backend[On(s)] = "docker"
    <3>1. ASSUME cmds[s].solo
          PROVE  Replicated(box[On(s)], cmds[s].cmd, 0)
      BY <3>1, <2>1, <1>1, <1>2 DEF Good, DockerRedeploys, Listed, Replicated
    <3>2. QED
      BY <3>1, <2>1, <1>1, <1>2, <1>3, <1>5, <1>7 DEF Good, DockerRedeploys
  <2>2. CASE backend[On(s)] # "docker"
    BY <2>2, <1>1, <1>2, <1>3, <1>5 DEF Good, KubernetesRedeploys
  <2>3. QED
    BY <2>1, <2>2
<1>9. k.pc \notin {"queued", "reported"}
  BY <1>3, <1>5
<1>10. QED
  BY <1>1, <1>3, <1>4, <1>6, <1>8, <1>9, GoesOn

LEMMA TeardownEndsSure ==
  ASSUME TypeOK, SureInv, NEW s \in Slot, TeardownEnds(s)
  PROVE  SureInv'
<1>1. /\ cmds[s] # None /\ Running(s) /\ cmds[s].pc = "remove" /\ cmds[s].found = {}
      /\ cmds[s].cmd.kind # "redeploy"
  BY DEF TeardownEnds, AllRemoved, At, Running, IsRedeploy
<1>2. /\ On(s) \in Agent
      /\ cmds[s].solo => Good(cmds[s], backend[On(s)], box[On(s)], routes[On(s)])
  BY <1>1, RunningHere
<1>3. ASSUME cmds[s].solo
      PROVE  AsAsked(On(s), cmds[s].cmd)
  <2>1. CASE backend[On(s)] = "docker"
    BY <2>1, <1>1, <1>2, <1>3 DEF AsAsked, Wiped, Good, DockerTearsDown, Listed
  <2>2. CASE backend[On(s)] # "docker"
    BY <2>2, <1>1, <1>2, <1>3 DEF AsAsked, Wiped, Good, KubernetesTearsDown
  <2>3. QED
    BY <2>1, <2>2
<1>4. QED
  BY <1>1, <1>3, EndsWell DEF TeardownEnds, quiet

LEMMA ClearNameSure ==
  ASSUME TypeOK, SureInv, NEW s \in Slot, ClearName(s)
  PROVE  SureInv'
<1> DEFINE k == [cmds[s] EXCEPT !.pc = "create"]
           B == Here(s) \ Named(s)
<1>1. cmds[s] # None /\ Running(s) /\ cmds[s].pc = "clear"
  BY DEF ClearName, At, Running
<1>2. /\ cmds[s] \in Carried /\ On(s) \in Agent
      /\ StepFits(cmds[s], backend[On(s)])
      /\ Ns(s) = Effective(cmds[s].cmd.ns)
      /\ cmds[s].solo => Good(cmds[s], backend[On(s)], box[On(s)], routes[On(s)])
  BY <1>1, RunningHere
<1>3. /\ k.cmd = cmds[s].cmd /\ k.i = cmds[s].i /\ k.pc = "create" /\ k.solo = cmds[s].solo
      /\ cmds[s].i \in Nat
  BY <1>2 DEF Carried
<1>4. Keep(s, k) /\ UNCHANGED <<backend, sure, routes>> /\ SetHere(s, B)
  BY DEF ClearName, Goto, quiet
<1>5. \A a \in Agent : a # On(s) => box'[a] = box[a] /\ routes'[a] = routes[a]
  BY <1>2, <1>4, OthersAlone
<1>6. box'[On(s)] = B
  BY <1>2, <1>4, HereAfter
<1>7. StepFits(k, backend[On(s)]) /\ backend[On(s)] = "docker" /\ cmds[s].cmd.kind = "redeploy"
  BY <1>1, <1>2, <1>3 DEF StepFits
<1>8. \A x \in box[On(s)] :
        x.ns = Effective(cmds[s].cmd.ns) /\ x.i \in 0..(cmds[s].i - 1) => x \in B
  BY <1>2, <1>3 DEF Named, Here
<1>9. B \subseteq box[On(s)]
  BY DEF Here
<1> HIDE DEF k, B
<1>10. ASSUME cmds[s].solo
       PROVE  cmds[s].i < Replicas(cmds[s].cmd) /\ Replicated(B, cmds[s].cmd, cmds[s].i)
  <2>1. cmds[s].i < Replicas(cmds[s].cmd) /\ Replicated(box[On(s)], cmds[s].cmd, cmds[s].i)
    BY <1>10, <1>1, <1>2, <1>7 DEF Good, DockerRedeploys
  <2>2. QED
    BY <2>1, <1>8, <1>9 DEF Replicated
<1>11. k.solo => Good(k, backend[On(s)], B, routes[On(s)])
  BY <1>3, <1>7, <1>10 DEF Good, DockerRedeploys
<1>12. QED
  BY <1>1, <1>3, <1>4, <1>5, <1>6, <1>7, <1>11, GoesOn

LEMMA CreateSure ==
  ASSUME TypeOK, SureInv, NEW s \in Slot, NEW n, Create(s, n)
  PROVE  SureInv'
<1> DEFINE new == [ns |-> Ns(s), i |-> cmds[s].i, id |-> n, build |-> cmds[s].cmd.build, up |-> FALSE]
           k == [cmds[s] EXCEPT !.pc = "start", !.id = n]
           B == Here(s) \cup {new}
<1>1. cmds[s] # None /\ Running(s) /\ cmds[s].pc = "create"
  BY DEF Create, At, Running
<1>2. /\ cmds[s] \in Carried /\ On(s) \in Agent
      /\ StepFits(cmds[s], backend[On(s)])
      /\ Ns(s) = Effective(cmds[s].cmd.ns)
      /\ cmds[s].solo => Good(cmds[s], backend[On(s)], box[On(s)], routes[On(s)])
  BY <1>1, RunningHere
<1>3. /\ k.cmd = cmds[s].cmd /\ k.i = cmds[s].i /\ k.pc = "start" /\ k.solo = cmds[s].solo
      /\ k.id = n /\ cmds[s].i \in Nat
  BY <1>2 DEF Carried
<1>4. Keep(s, k) /\ UNCHANGED <<backend, sure, routes>> /\ SetHere(s, B)
  BY DEF Create, quiet
<1>5. \A a \in Agent : a # On(s) => box'[a] = box[a] /\ routes'[a] = routes[a]
  BY <1>2, <1>4, OthersAlone
<1>6. box'[On(s)] = B
  BY <1>2, <1>4, HereAfter
<1>7. StepFits(k, backend[On(s)]) /\ backend[On(s)] = "docker" /\ cmds[s].cmd.kind = "redeploy"
  BY <1>1, <1>2, <1>3 DEF StepFits
<1>8. /\ new.ns = Effective(cmds[s].cmd.ns) /\ new.i = cmds[s].i
      /\ new.id = n /\ new.build = cmds[s].cmd.build
  BY <1>2
<1> HIDE DEF k, new
<1>9. B = box[On(s)] \cup {new}
  BY DEF Here
<1> HIDE DEF B
<1>10. ASSUME cmds[s].solo
       PROVE  cmds[s].i < Replicas(cmds[s].cmd) /\ Created(B, cmds[s].cmd, cmds[s].i, n)
  <2>1. cmds[s].i < Replicas(cmds[s].cmd) /\ Replicated(box[On(s)], cmds[s].cmd, cmds[s].i)
    BY <1>10, <1>1, <1>2, <1>7 DEF Good, DockerRedeploys
  <2>2. \A x \in B : x.ns = Effective(cmds[s].cmd.ns) =>
          x.build = cmds[s].cmd.build /\ (x.up \/ x.id = n) /\ x.i \in 0..cmds[s].i
    <3>1. ASSUME NEW x \in box[On(s)], x.ns = Effective(cmds[s].cmd.ns)
          PROVE  x.build = cmds[s].cmd.build /\ x.up /\ x.i \in 0..cmds[s].i
      <4>1. x.build = cmds[s].cmd.build /\ x.up /\ x.i \in 0..(cmds[s].i - 1)
        BY <3>1, <2>1 DEF Replicated
      <4>2. QED
        BY <4>1, <1>3
    <3>2. new.i \in 0..cmds[s].i
      BY <1>3, <1>8
    <3>3. QED
      BY <3>1, <3>2, <1>8, <1>9
  <2>3. \A j \in 0..cmds[s].i : \E x \in B : x.ns = Effective(cmds[s].cmd.ns) /\ x.i = j
    <3>1. ASSUME NEW j \in 0..cmds[s].i
          PROVE  \E x \in B : x.ns = Effective(cmds[s].cmd.ns) /\ x.i = j
      <4>1. CASE j = cmds[s].i
        BY <4>1, <1>8, <1>9
      <4>2. CASE j # cmds[s].i
        <5>1. j \in 0..(cmds[s].i - 1)
          BY <4>2, <1>3
        <5>2. QED
          BY <5>1, <2>1, <1>9 DEF Replicated
      <4>3. QED
        BY <4>1, <4>2
    <3>2. QED
      BY <3>1
  <2>4. QED
    BY <2>1, <2>2, <2>3 DEF Created
<1>11. k.solo => Good(k, backend[On(s)], B, routes[On(s)])
  BY <1>3, <1>7, <1>10 DEF Good, DockerRedeploys
<1>12. QED
  BY <1>1, <1>3, <1>4, <1>5, <1>6, <1>7, <1>11, GoesOn

LEMMA StartReplicaSure ==
  ASSUME TypeOK, SureInv, NEW s \in Slot, StartReplica(s)
  PROVE  SureInv'
<1> DEFINE pc == IF cmds[s].i + 1 < Replicas(cmds[s].cmd) THEN "clear" ELSE "attach"
           k == [cmds[s] EXCEPT !.i = @ + 1, !.id = 0, !.pc = pc]
           U == {[x EXCEPT !.up = TRUE] : x \in Mine(s)}
           B == (Here(s) \ Mine(s)) \cup U
<1>1. cmds[s] # None /\ Running(s) /\ cmds[s].pc = "start"
  BY DEF StartReplica, At, Running
<1>2. /\ cmds[s] \in Carried /\ On(s) \in Agent
      /\ StepFits(cmds[s], backend[On(s)])
      /\ cmds[s].cmd.kind = "redeploy" => Replicas(cmds[s].cmd) \in Nat
      /\ cmds[s].solo => Good(cmds[s], backend[On(s)], box[On(s)], routes[On(s)])
  BY <1>1, RunningHere
<1> HIDE DEF pc
<1>3. /\ k.cmd = cmds[s].cmd /\ k.i = cmds[s].i + 1 /\ k.pc = pc /\ k.solo = cmds[s].solo
      /\ cmds[s].i \in Nat
  BY <1>2 DEF Carried
<1>4. Keep(s, k) /\ UNCHANGED <<backend, sure, routes>> /\ SetHere(s, B)
  BY DEF StartReplica, quiet, pc
<1>5. \A a \in Agent : a # On(s) => box'[a] = box[a] /\ routes'[a] = routes[a]
  BY <1>2, <1>4, OthersAlone
<1>6. box'[On(s)] = B
  BY <1>2, <1>4, HereAfter
<1>7. pc \in {"clear", "attach"} /\ backend[On(s)] = "docker" /\ cmds[s].cmd.kind = "redeploy"
  BY <1>1, <1>2 DEF StepFits, pc
<1>8. StepFits(k, backend[On(s)])
  BY <1>2, <1>3, <1>7 DEF StepFits
<1>9. \A x \in box[On(s)] :
        LET y == [x EXCEPT !.up = TRUE] IN
        /\ x \in Container
        /\ y.up = TRUE /\ y.ns = x.ns /\ y.i = x.i /\ y.build = x.build /\ y.id = x.id
  <2>1. box[On(s)] \subseteq Container
    BY <1>2 DEF TypeOK
  <2>2. QED
    BY <2>1 DEF Container
<1>10. \A y \in B : \E x \in box[On(s)] :
         /\ y.ns = x.ns /\ y.i = x.i /\ y.build = x.build
         /\ x.up \/ x.id = cmds[s].id => y.up
  BY <1>9 DEF Mine, Here
<1>11. \A x \in box[On(s)] : \E y \in B : y.ns = x.ns /\ y.i = x.i
  BY <1>9 DEF Mine, Here
<1> HIDE DEF k, B
<1>12. ASSUME cmds[s].solo
       PROVE  /\ cmds[s].i < Replicas(cmds[s].cmd)
              /\ Replicated(B, cmds[s].cmd, cmds[s].i + 1)
  <2>1. /\ cmds[s].i < Replicas(cmds[s].cmd)
        /\ Created(box[On(s)], cmds[s].cmd, cmds[s].i, cmds[s].id)
    BY <1>12, <1>1, <1>2, <1>7 DEF Good, DockerRedeploys
  <2>2. (cmds[s].i + 1) - 1 = cmds[s].i
    BY <1>3
  <2>3. QED
    BY <2>1, <2>2, <1>10, <1>11 DEF Created, Replicated
<1>13. ASSUME k.solo
       PROVE  Good(k, backend[On(s)], B, routes[On(s)])
  <2>1. pc # "clear" => cmds[s].i + 1 = Replicas(cmds[s].cmd)
    BY <1>13, <1>2, <1>3, <1>7, <1>12 DEF pc
  <2>2. pc = "clear" => cmds[s].i + 1 < Replicas(cmds[s].cmd)
    BY DEF pc
  <2>3. QED
    BY <2>1, <2>2, <1>3, <1>7, <1>12, <1>13 DEF Good, DockerRedeploys
<1>14. QED
  BY <1>1, <1>3, <1>4, <1>5, <1>6, <1>7, <1>8, <1>13, GoesOn

\* Docker: the snippet of the load balancer is written or taken away.
LEMMA RouteSure ==
  ASSUME TypeOK, SureInv, NEW s \in Slot, AttachService(s) \/ DetachService(s)
  PROVE  SureInv'
<1> DEFINE pc == IF IsRedeploy(s) THEN "report" ELSE "list"
           k == [cmds[s] EXCEPT !.pc = pc]
<1>1. cmds[s] # None /\ Running(s) /\ cmds[s].pc \in {"attach", "detach"}
  BY DEF AttachService, DetachService, At, Running
<1>2. /\ cmds[s] \in Carried /\ On(s) \in Agent
      /\ StepFits(cmds[s], backend[On(s)])
      /\ Ns(s) = Effective(cmds[s].cmd.ns)
      /\ cmds[s].solo => Good(cmds[s], backend[On(s)], box[On(s)], routes[On(s)])
  BY <1>1, RunningHere
<1>3. /\ backend[On(s)] = "docker"
      /\ cmds[s].pc = "attach" <=> cmds[s].cmd.kind = "redeploy"
      /\ cmds[s].pc = "detach" <=> cmds[s].cmd.kind # "redeploy"
      /\ pc = IF cmds[s].cmd.kind = "redeploy" THEN "report" ELSE "list"
  BY <1>1, <1>2 DEF StepFits, IsRedeploy
<1> HIDE DEF pc
<1>4. k.cmd = cmds[s].cmd /\ k.i = cmds[s].i /\ k.pc = pc /\ k.solo = cmds[s].solo
  BY <1>2 DEF Carried
<1>5. Keep(s, k) /\ UNCHANGED <<backend, sure, box>>
  BY <1>3 DEF AttachService, DetachService, Goto, At, quiet
<1>6. PICK there : SetRoute(s, there)
  BY DEF AttachService, DetachService
<1>7. \A a \in Agent : a # On(s) => box'[a] = box[a] /\ routes'[a] = routes[a]
  BY <1>2, <1>5, <1>6, OthersAlone
<1>8. cmds[s].cmd.kind = "redeploy" =>
        (Effective(cmds[s].cmd.ns) \in routes'[On(s)]
           <=> Config[cmds[s].cmd.build][cmds[s].cmd.env].domains)
  <2>1. cmds[s].cmd.kind = "redeploy" =>
          SetRoute(s, Config[cmds[s].cmd.build][cmds[s].cmd.env].domains)
    BY <1>3 DEF AttachService, DetachService, At
  <2>2. QED
    BY <2>1, <1>2 DEF SetRoute, TypeOK
<1>9. cmds[s].cmd.kind # "redeploy" => Effective(cmds[s].cmd.ns) \notin routes'[On(s)]
  <2>1. cmds[s].cmd.kind # "redeploy" => SetRoute(s, FALSE)
    BY <1>3 DEF AttachService, DetachService, At
  <2>2. QED
    BY <2>1, <1>2 DEF SetRoute, TypeOK
<1> HIDE DEF k
<1>10. StepFits(k, backend[On(s)])
  BY <1>1, <1>2, <1>3, <1>4 DEF StepFits
<1>11. k.solo => Good(k, backend[On(s)], box'[On(s)], routes'[On(s)])
  BY <1>1, <1>2, <1>3, <1>4, <1>5, <1>8, <1>9 DEF Good, DockerRedeploys, DockerTearsDown
<1>12. k.pc \notin {"queued", "reported"}
  BY <1>3, <1>4
<1>13. QED
  BY <1>1, <1>4, <1>5, <1>7, <1>10, <1>11, <1>12, GoesOn

LEMMA ReportSure ==
  ASSUME TypeOK, SureInv, NEW s \in Slot, Report(s)
  PROVE  SureInv'
<1>1. cmds[s] # None /\ Running(s) /\ cmds[s].pc = "report"
  BY DEF Report, At, Running
<1>2. /\ On(s) \in Agent
      /\ StepFits(cmds[s], backend[On(s)])
      /\ cmds[s].cmd.kind = "redeploy" => Replicas(cmds[s].cmd) \in Nat
      /\ cmds[s].solo => Good(cmds[s], backend[On(s)], box[On(s)], routes[On(s)])
  BY <1>1, RunningHere
<1>3. cmds[s].cmd.kind = "redeploy"
  BY <1>1, <1>2 DEF StepFits
<1>4. ASSUME cmds[s].solo
      PROVE  AsAsked(On(s), cmds[s].cmd)
  <2> DEFINE ns == Effective(cmds[s].cmd.ns)
             here == {x \in box[On(s)] : x.ns = ns}
  <2>1. CASE backend[On(s)] = "docker"
    <3>1. /\ Replicated(box[On(s)], cmds[s].cmd, Replicas(cmds[s].cmd))
          /\ ns \in routes[On(s)] <=> Config[cmds[s].cmd.build][cmds[s].cmd.env].domains
      BY <2>1, <1>1, <1>2, <1>3, <1>4 DEF Good, DockerRedeploys
    <3>2. {x.i : x \in here} = 0..(Replicas(cmds[s].cmd) - 1)
      BY <3>1 DEF Replicated
    <3>3. QED
      BY <3>1, <3>2, <2>1, <1>3 DEF AsAsked, Serves, Replicated
  <2>2. CASE backend[On(s)] # "docker"
    BY <2>2, <1>1, <1>2, <1>3, <1>4 DEF AsAsked, Serves, Good, KubernetesRedeploys, Deployed
  <2>3. QED
    BY <2>1, <2>2
<1>5. QED
  BY <1>1, <1>3, <1>4, EndsWell DEF Report, quiet

\* A call failed and was only logged: nothing is said of the command any more.
LEMMA CallSkippedSure ==
  ASSUME TypeOK, SureInv, NEW s \in Slot, CallSkipped(s)
  PROVE  SureInv'
<1>1. cmds[s] # None /\ Running(s)
  BY DEF CallSkipped, At, Running
<1>2. /\ cmds[s] \in Carried /\ On(s) \in Agent
      /\ StepFits(cmds[s], backend[On(s)])
  BY <1>1, RunningHere
<1>3. UNCHANGED <<backend, sure, box, routes>>
  BY DEF CallSkipped, quiet
<1>4. ASSUME NEW j, Unsure(s, j), j \in Carried, j.cmd = cmds[s].cmd,
             j.pc \notin {"queued", "reported"}, StepFits(j, backend[On(s)])
      PROVE  SureInv'
  <2> DEFINE k == [j EXCEPT !.solo = FALSE]
  <2>1. k.cmd = cmds[s].cmd /\ k.pc = j.pc /\ k.i = j.i /\ k.solo = FALSE
    BY <1>4 DEF Carried
  <2>2. Keep(s, k)
    BY <1>4 DEF Unsure
  <2> HIDE DEF k
  <2>3. StepFits(k, backend[On(s)])
    BY <2>1, <1>4 DEF StepFits
  <2>4. QED
    BY <2>1, <2>2, <2>3, <1>1, <1>3, <1>4, GoesOn
<1>5. ASSUME NEW pc \in {"create", "report", "list", "remove"}, Unsure(s, [cmds[s] EXCEPT !.pc = pc]),
             \/ cmds[s].pc = "clear" /\ pc = "create"
             \/ cmds[s].pc \in {"apply", "attach"} /\ pc = "report"
             \/ cmds[s].pc \in {"detach", "drop"} /\ pc = "list"
             \/ cmds[s].pc = "list" /\ pc = "remove"
      PROVE  SureInv'
  <2> DEFINE j == [cmds[s] EXCEPT !.pc = pc]
  <2>1. j.cmd = cmds[s].cmd /\ j.pc = pc /\ j.i = cmds[s].i /\ j \in Carried
    BY <1>2 DEF Carried, Step
  <2>2. Unsure(s, j)
    BY <1>5
  <2> HIDE DEF j
  <2>3. StepFits(j, backend[On(s)])
    BY <2>1, <1>2, <1>5 DEF StepFits
  <2>4. QED
    BY <2>1, <2>2, <2>3, <1>4
<1>6. ASSUME NEW x \in cmds[s].found, Unsure(s, [cmds[s] EXCEPT !.found = @ \ {x}]),
             cmds[s].pc = "remove"
      PROVE  SureInv'
  <2> DEFINE j == [cmds[s] EXCEPT !.found = @ \ {x}]
  <2>1. j.cmd = cmds[s].cmd /\ j.pc = cmds[s].pc /\ j.i = cmds[s].i /\ j \in Carried
    BY <1>2 DEF Carried
  <2>2. Unsure(s, j)
    BY <1>6
  <2> HIDE DEF j
  <2>3. StepFits(j, backend[On(s)])
    BY <2>1, <1>2 DEF StepFits
  <2>4. QED
    BY <2>1, <2>2, <2>3, <1>4, <1>6
<1>7. QED
  BY <1>5, <1>6 DEF CallSkipped, At

LEMMA SureInit == Init => SureInv
BY DEF Init, SureInv, Fitting, Alone, Quiet, SoloGood, SureIsTrue, Running

LEMMA SureStep == TypeOK /\ SureInv /\ [Next]_vars => SureInv'
<1>1. ASSUME TypeOK, SureInv, UNCHANGED vars
      PROVE  SureInv'
  BY <1>1, PlatformSure
<1>2. ASSUME TypeOK, SureInv, NEW s \in Slot, Work(s)
      PROVE  SureInv'
  BY <1>2, PlatformSure, BeginSure, KubernetesSure, ListSure, RemovedForRedeploySure,
     TeardownEndsSure, RemoveSure, ClearNameSure, StartReplicaSure, CreateSure, RouteSure,
     ReportSure
  DEF Work
<1>3. ASSUME TypeOK, SureInv, Failure
      PROVE  SureInv'
  BY <1>3, PlatformSure, CallSkippedSure DEF Failure
<1>4. QED
  BY <1>1, <1>2, <1>3, PlatformSure DEF Next

\* What the executor promises: a command that ended well, ran alone and had no
\* failing call leaves its agent as the command asked, whatever earlier commands
\* left there (redeployDocker, redeployKubernetes, teardownDocker,
\* teardownKubernetes).
THEOREM SureCommandsHold == Spec => []SureIsTrue
<1>1. SureInv => SureIsTrue
  BY DEF SureInv
<1>2. QED
  BY <1>1, TypeInit, TypeStep, SureInit, SureStep, PTL DEF Spec

=============================================================================
