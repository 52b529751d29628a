------------------------------ MODULE Operator ------------------------------
(***************************************************************************)
(* The Kubernetes operator: one KaiadAgent, the passes of its reconciler,  *)
(* which reads through an informer cache that lags behind and writes with  *)
(* one API call at a time, any of which may fail, the grants and the       *)
(* Deployment it keeps for the agent, the update of spec.image to the      *)
(* version the platform ships, and the agent that comes in (Enrollment).   *)
(***************************************************************************)
EXTENDS Enrollment, FiniteSets

CONSTANTS
  Policy,     \* RBAC rules
  Allowed,    \* those on the allow-list
  Label,      \* labels a namespaceSelector can select
  NoLabel,    \* a rule without a selector; a namespace without a label
  Manages,    \* values of spec.manages: sets of a policy and a selector
  Namespace,  \* the namespaces of the cluster
  Cluster,    \* the place of the ClusterRole and its binding
  Polls,      \* the operator has an API client
  MaxEvents,  \* what users, administrators and the platform do
  MaxFaults   \* failing calls, crashes and broken connections

ASSUME OperatorAssumption ==
  /\ Allowed \subseteq Policy
  /\ NoLabel \notin Label /\ Cluster \notin Namespace
  /\ Manages \subseteq SUBSET [policy : Policy, selector : Label \cup {NoLabel}]
  /\ Polls \in BOOLEAN /\ MaxEvents \in Nat /\ MaxFaults \in Nat

\* Where a role and its binding can be. They are written one after the other, and
\* grant nothing unless both are there.
Place == Namespace \cup {Cluster}

VARIABLES
  cr,      \* the KaiadAgent: generation, manages, image
  asked,   \* what its user asked for last
  ready,   \* condition Ready: its reason and the generation it speaks of
  labels,  \* the label of each namespace
  grants,  \* the rules a place grants the agent, {} without role and binding
  dep,     \* the image of the Deployment
  latest,  \* the version the platform ships
  cache,   \* what the informers of the operator have seen of all that
  due,     \* the work queue holds the KaiadAgent, or will when a timer ends
  pass,    \* the pass that runs
  events,
  faults

cluster == <<cr, asked, ready, labels, grants, dep>>
operator == <<cache, due, pass>>
vars == <<tokens, secret, agent, cluster, latest, operator, events, faults>>

-----------------------------------------------------------------------------
(* What spec.manages asks for                                              *)

\* validateManages
Valid(m) == \A r \in m : r.policy \in Allowed

\* generateRBAC
ClusterRules(m) == {r.policy : r \in {q \in m : q.selector = NoLabel}}
NamespaceRules(m) == {r.policy : r \in {q \in m : q.selector # NoLabel}}
Matched(m, l) == {n \in Namespace : \E r \in m : r.selector # NoLabel /\ r.selector = l[n]}

Desired(p, m) == IF p = Cluster THEN ClusterRules(m) ELSE NamespaceRules(m)

-----------------------------------------------------------------------------
(* The informer cache                                                      *)

Seen == [cr |-> cr, labels |-> labels, grants |-> grants]

others == <<tokens, secret, agent, cluster, latest, pass, events, faults>>

\* What is watched queues the KaiadAgent.
NoticeAgent ==
  /\ cache.cr # cr /\ cache' = [cache EXCEPT !.cr = cr]
  /\ due' = TRUE /\ UNCHANGED others
NoticeNamespaces ==
  /\ cache.labels # labels /\ cache' = [cache EXCEPT !.labels = labels]
  /\ due' = TRUE /\ UNCHANGED others

\* Roles are read through the cache, but not watched.
Refresh ==
  /\ cache.grants # grants /\ cache' = [cache EXCEPT !.grants = grants]
  /\ UNCHANGED <<others, due>>

-----------------------------------------------------------------------------
(* The steps of a pass                                                     *)

NoAgent == [gen |-> 0, manages |-> {}, image |-> NoImage]
Idle == [pc |-> "idle", todo |-> {}, reason |-> "", cr |-> NoAgent]
Goto(pc) == pass' = [pass EXCEPT !.pc = pc]
Ends(reason) == pass' = [pass EXCEPT !.pc = "commit", !.reason = reason]
\* An error is returned: the work queue tries again later.
Fails == pass' = Idle /\ due' = TRUE

Fault == faults < MaxFaults /\ faults' = faults + 1

outside == <<tokens, secret, agent, latest, events>>

Begin ==
  /\ pass.pc = "idle" /\ due /\ due' = FALSE
  /\ LET copy == [Idle EXCEPT !.cr = cache.cr] IN
       pass' = IF Valid(cache.cr.manages)
                 THEN [copy EXCEPT !.pc = "enroll"]
                 ELSE [copy EXCEPT !.pc = "commit", !.reason = "InvalidSpec"]
  /\ UNCHANGED <<outside, cluster, cache, faults>>

\* resolveEnrollment, applyServiceAccount and generateRBAC.  The Secret is read as it
\* is; the code reads it through the cache, where an old one only lets a pass end early
\* or go on late (the pod refers to the Secret by name), and a later pass comes by
\* RequeueAfter.
Enroll ==
  /\ pass.pc = "enroll"
  /\ IF secret = NoToken THEN Ends("EnrollmentFailed")
     ELSE IF ClusterRules(pass.cr.manages) = {} THEN Goto("sweep")
     ELSE pass' = [pass EXCEPT !.pc = "cluster", !.todo = {Cluster}]
  /\ UNCHANGED <<outside, cluster, cache, due, faults>>

\* deleteClusterRBACForAgent: what the cache shows is deleted, an error is dropped.
Sweep ==
  /\ pass.pc = "sweep" /\ Goto("list")
  /\ \/ cache.grants[Cluster] # {} /\ grants' = [grants EXCEPT ![Cluster] = {}] /\ UNCHANGED faults
     \/ cache.grants[Cluster] # {} /\ Fault /\ UNCHANGED grants
     \/ cache.grants[Cluster] = {} /\ UNCHANGED <<grants, faults>>
  /\ UNCHANGED <<outside, cr, asked, ready, labels, dep, cache, due>>

\* Mutant: the object read back is the object to write.
KeepsRules(p, want) ==
  IF cache.grants[p] # {} THEN UNCHANGED grants
  ELSE grants[p] = {} /\ grants' = [grants EXCEPT ![p] = want]
\* CreateOrUpdate: nothing to do, or a write the API server takes as the cache is up to date.
CreateOrUpdate(p, want) ==
  IF cache.grants[p] = want THEN UNCHANGED grants
  ELSE cache.grants[p] = grants[p] /\ grants' = [grants EXCEPT ![p] = want]

Applying == pass.pc \in {"cluster", "namespaces"}

\* applyClusterRBAC, applyNamespacedRBAC: one place.
Apply ==
  /\ Applying
  /\ \E p \in pass.todo :
       /\ CreateOrUpdate(p, Desired(p, pass.cr.manages))
       /\ pass' = [pass EXCEPT !.todo = @ \ {p}]
  /\ UNCHANGED <<outside, cr, asked, ready, labels, dep, cache, due, faults>>

\* AlreadyExists, NotFound or Conflict
ApplyConflicts ==
  /\ Applying
  /\ \E p \in pass.todo : cache.grants[p] \notin {grants[p], Desired(p, pass.cr.manages)}
  /\ Fails
  /\ UNCHANGED <<outside, cluster, cache, faults>>

\* resolveSelectorNamespaces
List ==
  /\ pass.pc = "list" \/ (pass.pc = "cluster" /\ pass.todo = {})
  /\ pass' = [pass EXCEPT !.pc = "namespaces", !.todo = Matched(pass.cr.manages, cache.labels)]
  /\ UNCHANGED <<outside, cluster, cache, due, faults>>

\* applyDeployment, and the ready replicas its answer shows.  The code updates the
\* Deployment its cache shows; an old one is a conflict, or is left as it is until the
\* cache learns of it and the pass that queues (Owns) comes.  Both are left out.
Deploy ==
  /\ pass.pc = "namespaces" /\ pass.todo = {}
  /\ dep' = pass.cr.image
  /\ IF dep # NoImage /\ pod.up THEN Goto("online") ELSE Ends("DeploymentPending")
  /\ UNCHANGED <<outside, cr, asked, ready, labels, grants, cache, due, faults>>

\* versionNewer: a tag that is no version is never newer, and never older.
Newer(v, w) == v # 0 /\ w # 0 /\ v > w

\* checkAgentOnline and nextAgentImage
CheckOnline ==
  /\ pass.pc = "online" /\ Polls
  /\ IF Known /\ Newer(latest, pass.cr.image)
       THEN pass' = [pass EXCEPT !.pc = "bump", !.cr.image = latest]
       ELSE Ends(IF status THEN "AgentOnline" ELSE "AgentNotOnline")
  /\ UNCHANGED <<outside, cluster, cache, due, faults>>

\* No client, or an error.
NoAnswer ==
  /\ pass.pc = "online"
  /\ IF Polls THEN Fault ELSE UNCHANGED faults
  /\ Ends("AgentNotOnline")
  /\ UNCHANGED <<outside, cluster, cache, due>>

\* Mutant: the whole object is written, whatever is there by now.
Overwrites == cr' = [pass.cr EXCEPT !.gen = cr.gen + 1]
\* Update refuses a copy that is not the newest.
Updates == pass.cr.gen = cr.gen /\ cr' = [pass.cr EXCEPT !.gen = cr.gen + 1]

\* The Update of spec.image; the conditions of this pass are not written.
Bump ==
  /\ pass.pc = "bump" /\ Updates
  /\ pass' = Idle /\ due' = TRUE
  /\ UNCHANGED <<outside, asked, ready, labels, grants, dep, cache, faults>>

\* RequeueAfter
Requeues(reason) == reason # "InvalidSpec"

\* commitStatus; a condition that changed is an event of its own.
Commit ==
  /\ pass.pc = "commit" /\ pass.cr.gen = cr.gen
  /\ ready' = [reason |-> pass.reason, gen |-> pass.cr.gen]
  /\ due' = (due \/ ready' # ready \/ Requeues(pass.reason))
  /\ pass' = Idle
  /\ UNCHANGED <<outside, cr, asked, labels, grants, dep, cache, faults>>

UpdateConflicts ==
  /\ pass.pc \in {"bump", "commit"} /\ pass.cr.gen # cr.gen
  /\ Fails
  /\ UNCHANGED <<outside, cluster, cache, faults>>

-----------------------------------------------------------------------------
(* What else happens                                                       *)

\* A call fails, before or after it did its work.
CallFails ==
  /\ Fault /\ pass.pc # "idle" /\ Fails
  /\ UNCHANGED <<outside, cluster, cache>>

\* Another process leads: it lists everything and queues every KaiadAgent.
Crash ==
  /\ Fault
  /\ pass' = Idle /\ due' = TRUE /\ cache' = Seen
  /\ UNCHANGED <<outside, cluster>>

SessionFault ==
  /\ Fault /\ (Disconnect \/ ContainerEnds)
  /\ UNCHANGED <<tokens, secret, cluster, latest, operator, events>>

Event == events < MaxEvents /\ events' = events + 1

\* The user edits the spec.
Edit(m, v) ==
  /\ Event
  /\ <<m, v>> # <<cr.manages, cr.image>>
  /\ cr' = [gen |-> cr.gen + 1, manages |-> m, image |-> v]
  /\ asked' = [manages |-> m, image |-> v]
  /\ UNCHANGED <<tokens, secret, agent, ready, labels, grants, dep, latest, operator, faults>>

Relabel(n, l) ==
  /\ Event /\ labels[n] # l /\ labels' = [labels EXCEPT ![n] = l]
  /\ UNCHANGED <<tokens, secret, agent, cr, asked, ready, grants, dep, latest, operator, faults>>

\* The platform is deployed with another version of the agent.
Release(v) ==
  /\ Event /\ v # latest /\ latest' = v
  /\ UNCHANGED <<tokens, secret, agent, cluster, operator, faults>>

TokenEvent(t) ==
  /\ Event /\ (Create(t) \/ Deactivate(t) \/ Delete(t) \/ Expire(t))
  /\ UNCHANGED <<secret, agent, cluster, latest, operator, faults>>

SecretEvent ==
  /\ Event /\ (DropSecret \/ \E t \in Token : PutSecret(t))
  /\ UNCHANGED <<tokens, agent, cluster, latest, operator, faults>>

still == <<secret, cluster, latest, operator, events, faults>>
Incoming == (Accepted \/ Rejected) /\ UNCHANGED still
Starts == (Rollout(dep) \/ Restart) /\ UNCHANGED <<tokens, still>>

-----------------------------------------------------------------------------

Init ==
  /\ minted \in SUBSET Token /\ rows = minted /\ secret \in minted \cup {NoToken}
  /\ \E old \in SUBSET minted : marks = [t \in Token |-> IF t \in old THEN {"expired"} ELSE {}]
  /\ pod = NoPod /\ session = FALSE /\ status = FALSE
  /\ \E m \in Manages, v \in Version :
       cr = [gen |-> 1, manages |-> m, image |-> v] /\ asked = [manages |-> m, image |-> v]
  /\ ready = [reason |-> "", gen |-> 0]
  /\ labels \in [Namespace -> Label \cup {NoLabel}]
  /\ grants = [p \in Place |-> {}] /\ dep = NoImage
  /\ latest \in Version
  /\ cache = Seen /\ due = TRUE /\ pass = Idle
  /\ events = 0 /\ faults = 0

Pass ==
  \/ Begin \/ Enroll \/ Sweep \/ Apply \/ ApplyConflicts \/ List \/ Deploy
  \/ CheckOnline \/ Bump \/ Commit \/ UpdateConflicts

Environment ==
  \/ \E m \in Manages, v \in Version : Edit(m, v)
  \/ \E n \in Namespace, l \in Label \cup {NoLabel} : Relabel(n, l)
  \/ \E v \in Version : Release(v)
  \/ \E t \in Token : TokenEvent(t)
  \/ SecretEvent

Next ==
  \/ Pass \/ NoAnswer \/ NoticeAgent \/ NoticeNamespaces \/ Refresh \/ Incoming \/ Starts
  \/ CallFails \/ Crash \/ SessionFault \/ Environment

Spec == Init /\ [][Next]_vars

\* The work queue, the informers, the kubelet, the agent and the platform go on.
Fairness ==
  /\ WF_vars(Pass \/ NoAnswer)
  /\ WF_vars(NoticeAgent) /\ WF_vars(NoticeNamespaces) /\ WF_vars(Refresh)
  /\ WF_vars(Incoming) /\ WF_vars(Starts)

FairSpec == Spec /\ Fairness

-----------------------------------------------------------------------------
(* Properties                                                              *)

Asked == [manages : Manages, image : Version]
KaiadAgent == [gen : Nat, manages : Manages, image : Version]
Grants == [Place -> SUBSET Allowed]
Image == Version \cup {NoImage}
Labels == [Namespace -> Label \cup {NoLabel}]
Reason == {"", "InvalidSpec", "EnrollmentFailed", "DeploymentPending", "AgentNotOnline", "AgentOnline"}
PassState ==
  [pc : {"idle", "enroll", "sweep", "cluster", "list", "namespaces", "online", "bump", "commit"},
   todo : SUBSET Place, reason : Reason, cr : KaiadAgent \cup {NoAgent}]

\* Types: only rules of the allow-list are granted (validateManages before
\* generateRBAC), and who has a session used a token.
TypeOK ==
  /\ minted \subseteq Token /\ rows \subseteq minted
  /\ marks \in [Token -> SUBSET {"expired", "used", "revoked"}] /\ secret \in minted \cup {NoToken}
  /\ pod \in [image : Image, token : minted \cup {NoToken}, up : BOOLEAN]
  /\ session \in BOOLEAN /\ status \in BOOLEAN
  /\ session => pod.up /\ pod.token \in minted /\ "used" \in marks[pod.token]
  /\ cr \in KaiadAgent /\ asked \in Asked
  /\ ready \in [reason : Reason, gen : Nat] /\ ready.gen <= cr.gen
  /\ labels \in Labels /\ grants \in Grants /\ dep \in Image /\ latest \in Version
  /\ cache \in [cr : KaiadAgent, labels : Labels, grants : Grants]
  /\ due \in BOOLEAN /\ pass \in PassState /\ (pass.pc # "idle" => pass.cr \in KaiadAgent)
  /\ events \in 0..MaxEvents /\ faults \in 0..MaxFaults

\* The operator writes spec.image and nothing else of the spec, only ever to a
\* newer version than the user asked for: an edit that comes between its read
\* and its Update is not lost.
KeepsEdits ==
  /\ cr.manages = asked.manages
  /\ cr.image = asked.image \/ Newer(cr.image, asked.image)

\* The cluster and every namespace that is selected grant what the spec asks
\* for, and the Deployment runs its image.
Applied ==
  /\ grants[Cluster] = ClusterRules(cr.manages)
  /\ \A n \in Matched(cr.manages, labels) : grants[n] = NamespaceRules(cr.manages)
  /\ dep = cr.image

\* Whatever informers had missed and calls had failed, a valid spec with its
\* Secret ends up applied.
Converges == <>[](Valid(cr.manages) /\ secret # NoToken => Applied)

\* With a token in the Secret that the platform accepts, the agent comes online
\* and the condition Ready says so of the newest spec.
ComesOnline ==
  <>[](Polls /\ Valid(cr.manages) /\ secret # NoToken /\ Live(secret)
         => session /\ ready = [reason |-> "AgentOnline", gen |-> cr.gen])

\* An agent that was in stays in, or comes back, until its token is revoked or
\* its row deleted: the expiry of the token does not end it.
StaysEnrolled ==
  <>[](pod.image # NoImage /\ secret = pod.token /\ secret \in rows
         /\ "used" \in marks[secret] /\ "revoked" \notin marks[secret] => session)
=================================================================================
