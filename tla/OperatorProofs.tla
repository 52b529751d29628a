--------------------------- MODULE OperatorProofs ---------------------------
(* Types, and the edits of the user, for every instance of Operator.        *)
EXTENDS Operator, TLAPS

-----------------------------------------------------------------------------
(* The parts of the inductive invariant                                    *)

EnrollTypes ==
  /\ minted \subseteq Token /\ rows \subseteq minted
  /\ marks \in [Token -> SUBSET {"expired", "used", "revoked"}] /\ secret \in minted \cup {NoToken}
  /\ pod \in [image : Image, token : minted \cup {NoToken}, up : BOOLEAN]
  /\ session \in BOOLEAN /\ status \in BOOLEAN
  /\ session => pod.up /\ pod.token \in minted /\ "used" \in marks[pod.token]

ObjectTypes ==
  /\ cr \in KaiadAgent /\ asked \in Asked
  /\ ready \in [reason : Reason, gen : Nat] /\ ready.gen <= cr.gen
  /\ labels \in Labels /\ grants \in Grants /\ dep \in Image /\ latest \in Version

CacheTypes ==
  /\ cache \in [cr : KaiadAgent, labels : Labels, grants : Grants]
  /\ due \in BOOLEAN

PassTypes == pass \in PassState /\ (pass.pc # "idle" => pass.cr \in KaiadAgent)

Counts == events \in 0..MaxEvents /\ faults \in 0..MaxFaults

\* A copy of the spec that carries its generation is the spec.
CopyOf(copy) == copy.gen <= cr.gen /\ (copy.gen = cr.gen => copy = cr)

\* The copy a pass works on: its rules are valid unless it only reports, and only
\* the update of the image makes it differ from what was read.
PassCopies ==
  pass.pc # "idle" =>
    /\ pass.pc # "commit" => Valid(pass.cr.manages)
    /\ IF pass.pc = "bump"
         THEN /\ pass.cr.gen <= cr.gen
              /\ pass.cr.gen = cr.gen =>
                   pass.cr.manages = cr.manages /\ Newer(pass.cr.image, cr.image)
         ELSE CopyOf(pass.cr)

OperatorInv ==
  /\ EnrollTypes /\ ObjectTypes /\ CacheTypes /\ PassTypes /\ Counts
  /\ CopyOf(cache.cr) /\ PassCopies /\ KeepsEdits

\* The parts are the types of Operator.
LEMMA InvTypes == OperatorInv => TypeOK
BY DEF OperatorInv, EnrollTypes, ObjectTypes, CacheTypes, PassTypes, Counts, TypeOK

-----------------------------------------------------------------------------
(* The tokens, the container and the session                               *)

\* No token changes but by an event or an accepted connection, no pod but by the
\* kubelet, the agent or a fault.
LEMMA EnrollStep ==
  ASSUME EnrollTypes, ObjectTypes, [Next]_vars
  PROVE  EnrollTypes'
<1> USE EnrollmentAssumption
<1>1. CASE UNCHANGED <<tokens, secret, agent>>
  BY <1>1 DEF EnrollTypes, tokens, agent
<1>2. CASE \E t \in Token : TokenEvent(t)
  <2> PICK t \in Token : TokenEvent(t) BY <1>2
  <2>1. marks' \in [Token -> SUBSET {"expired", "used", "revoked"}]
        /\ \A s \in Token : marks[s] \subseteq marks'[s]
    BY DEF TokenEvent, Create, Deactivate, Delete, Expire, Mark, EnrollTypes
  <2>2. minted \subseteq minted' /\ minted' \subseteq Token /\ rows' \subseteq minted'
    BY DEF TokenEvent, Create, Deactivate, Delete, Expire, Mark, EnrollTypes
  <2>3. UNCHANGED <<secret, pod, session, status>>
    BY DEF TokenEvent, agent
  <2> QED BY <2>1, <2>2, <2>3 DEF EnrollTypes
<1>3. CASE SecretEvent
  BY <1>3 DEF SecretEvent, DropSecret, PutSecret, EnrollTypes, tokens, agent
<1>4. CASE Incoming
  <2>1. CASE Accepted
    <3>1. minted' = minted /\ rows' = rows /\ pod' = pod /\ secret' = secret
      BY <1>4, <2>1 DEF Incoming, Accepted, still
    <3>2. pod.token \in Token /\ pod.token \in minted /\ pod.up
      BY <2>1 DEF Accepted, Dials, EnrollTypes
    <3>3. marks' = [marks EXCEPT ![pod.token] = @ \cup {"used"}]
      BY <2>1 DEF Accepted, Consume, Mark
    <3>4. marks' \in [Token -> SUBSET {"expired", "used", "revoked"}] /\ "used" \in marks'[pod.token]
      BY <3>2, <3>3 DEF EnrollTypes
    <3>5. session' = TRUE /\ status' = TRUE
      BY <2>1 DEF Accepted
    <3> QED BY <3>1, <3>2, <3>4, <3>5 DEF EnrollTypes
  <2>2. CASE Rejected
    BY <1>4, <2>2 DEF Incoming, Rejected, Dials, Exits, EnrollTypes, tokens, still
  <2> QED BY <1>4, <2>1, <2>2 DEF Incoming
<1>5. CASE Starts
  <2>1. minted' = minted /\ rows' = rows /\ marks' = marks /\ secret' = secret
    BY <1>5 DEF Starts, tokens, still
  <2>2. CASE Rollout(dep)
    <3>1. pod' = [image |-> dep, token |-> secret, up |-> TRUE]
      BY <2>2 DEF Rollout
    <3>2. session' = FALSE /\ status' \in BOOLEAN
      BY <2>2 DEF Rollout, Closes, EnrollTypes
    <3> QED BY <2>1, <3>1, <3>2 DEF EnrollTypes, ObjectTypes
  <2>3. CASE Restart
    <3>1. ~session /\ session' = session /\ status' = status
      BY <2>3 DEF Restart, EnrollTypes
    <3>2. pod' = [pod EXCEPT !.token = secret, !.up = TRUE]
      BY <2>3 DEF Restart
    <3>3. pod' \in [image : Image, token : minted \cup {NoToken}, up : BOOLEAN]
      BY <3>2 DEF EnrollTypes
    <3> QED BY <2>1, <3>1, <3>3 DEF EnrollTypes
  <2> QED BY <1>5, <2>2, <2>3 DEF Starts
<1>6. CASE SessionFault
  BY <1>6 DEF SessionFault, Disconnect, ContainerEnds, Exits, Closes, Lost, EnrollTypes, tokens
<1>7. CASE Pass \/ NoAnswer \/ NoticeAgent \/ NoticeNamespaces \/ Refresh \/ CallFails \/ Crash
  <2>1. UNCHANGED <<tokens, secret, agent>>
    BY <1>7 DEF Pass, NoAnswer, NoticeAgent, NoticeNamespaces, Refresh, CallFails, Crash, Begin,
       Enroll, Sweep, Apply, ApplyConflicts, List, Deploy, CheckOnline, Bump, Commit,
       UpdateConflicts, outside, others
  <2> QED BY <1>1, <2>1
<1>8. CASE (\E m \in Manages, v \in Version : Edit(m, v))
             \/ (\E n \in Namespace, l \in Label \cup {NoLabel} : Relabel(n, l))
             \/ (\E v \in Version : Release(v))
  <2>1. UNCHANGED <<tokens, secret, agent>>
    BY <1>8 DEF Edit, Relabel, Release
  <2> QED BY <1>1, <2>1
<1>9. CASE UNCHANGED vars
  BY <1>1, <1>9 DEF vars
<1> QED BY <1>2, <1>3, <1>4, <1>5, <1>6, <1>7, <1>8, <1>9 DEF Next, Environment

-----------------------------------------------------------------------------
(* The objects of the cluster, the cache and the pass                      *)

\* generateRBAC of a valid spec yields rules of the allow-list.
LEMMA ValidRules ==
  ASSUME NEW m \in Manages, Valid(m)
  PROVE  ClusterRules(m) \subseteq Allowed /\ NamespaceRules(m) \subseteq Allowed
BY DEF Valid, ClusterRules, NamespaceRules

\* So what a place is to grant is allowed.
LEMMA DesiredIsAllowed ==
  ASSUME NEW m \in Manages, Valid(m), NEW p \in Place
  PROVE  Desired(p, m) \subseteq Allowed
BY ValidRules DEF Desired

\* Who writes what: an event, the sweep, an apply, a deploy, the update, the status.
LEMMA ObjectStep ==
  ASSUME ObjectTypes, CacheTypes, PassTypes, PassCopies, CopyOf(cache.cr), [Next]_vars
  PROVE  ObjectTypes'
<1> USE OperatorAssumption, EnrollmentAssumption
<1>1. CASE UNCHANGED <<cluster, latest>>
  BY <1>1 DEF ObjectTypes, cluster
<1>2. CASE Sweep
  <2>1. UNCHANGED <<cr, asked, ready, labels, dep, latest>>
    BY <1>2 DEF Sweep, outside
  <2>2. grants' = grants \/ grants' = [grants EXCEPT ![Cluster] = {}]
    BY <1>2 DEF Sweep
  <2>3. grants' \in Grants BY <2>2 DEF Grants, ObjectTypes
  <2> QED BY <2>1, <2>3 DEF ObjectTypes
<1>3. CASE Apply
  <2>1. UNCHANGED <<cr, asked, ready, labels, dep, latest>>
    BY <1>3 DEF Apply, outside
  <2>2. pass.cr.manages \in Manages /\ Valid(pass.cr.manages)
    BY <1>3 DEF Apply, Applying, PassTypes, PassCopies, KaiadAgent
  <2>3. PICK p \in pass.todo : CreateOrUpdate(p, Desired(p, pass.cr.manages))
    BY <1>3 DEF Apply
  <2>4. p \in Place BY DEF PassTypes, PassState
  <2>5. Desired(p, pass.cr.manages) \in SUBSET Allowed BY <2>2, <2>4, DesiredIsAllowed
  <2>6. grants' \in Grants BY <2>3, <2>4, <2>5 DEF CreateOrUpdate, Grants, ObjectTypes
  <2> QED BY <2>1, <2>6 DEF ObjectTypes
<1>4. CASE Deploy
  <2>1. UNCHANGED <<cr, asked, ready, labels, grants, latest>>
    BY <1>4 DEF Deploy, outside
  <2>2. dep' \in Image
    BY <1>4 DEF Deploy, PassTypes, KaiadAgent, Image
  <2> QED BY <2>1, <2>2 DEF ObjectTypes
<1>5. CASE Bump
  <2>1. UNCHANGED <<asked, ready, labels, grants, dep, latest>>
    BY <1>5 DEF Bump, outside
  <2>2. cr' = [pass.cr EXCEPT !.gen = cr.gen + 1]
    BY <1>5 DEF Bump, Updates
  <2>3. pass.cr \in KaiadAgent BY <1>5 DEF Bump, PassTypes
  <2>4. cr' \in KaiadAgent /\ cr'.gen = cr.gen + 1
    BY <2>2, <2>3 DEF KaiadAgent, ObjectTypes
  <2> QED BY <2>1, <2>4 DEF ObjectTypes, KaiadAgent
<1>6. CASE Commit
  <2>1. UNCHANGED <<cr, asked, labels, grants, dep, latest>>
    BY <1>6 DEF Commit, outside
  <2>2. ready' = [reason |-> pass.reason, gen |-> cr.gen]
    BY <1>6 DEF Commit
  <2> QED BY <2>1, <2>2 DEF ObjectTypes, PassTypes, PassState, KaiadAgent
<1>7. CASE \E m \in Manages, v \in Version : Edit(m, v)
  <2> PICK m \in Manages, v \in Version : Edit(m, v) BY <1>7
  <2>1. UNCHANGED <<ready, labels, grants, dep, latest>> BY DEF Edit
  <2>2. cr' = [gen |-> cr.gen + 1, manages |-> m, image |-> v]
        /\ asked' = [manages |-> m, image |-> v]
    BY DEF Edit
  <2> QED BY <2>1, <2>2 DEF ObjectTypes, KaiadAgent, Asked
<1>8. CASE \E n \in Namespace, l \in Label \cup {NoLabel} : Relabel(n, l)
  BY <1>8 DEF Relabel, ObjectTypes, Labels
<1>9. CASE \E v \in Version : Release(v)
  BY <1>9 DEF Release, ObjectTypes, cluster
<1>10. CASE Incoming \/ Starts \/ SessionFault \/ SecretEvent \/ (\E t \in Token : TokenEvent(t))
  BY <1>1, <1>10 DEF Incoming, Starts, SessionFault, SecretEvent, TokenEvent, still
<1>11. CASE NoAnswer \/ NoticeAgent \/ NoticeNamespaces \/ Refresh \/ CallFails \/ Crash
  BY <1>1, <1>11 DEF NoAnswer, NoticeAgent, NoticeNamespaces, Refresh, CallFails, Crash,
     outside, others
<1>12. CASE Begin \/ Enroll \/ ApplyConflicts \/ List \/ CheckOnline \/ UpdateConflicts
  BY <1>1, <1>12 DEF Begin, Enroll, ApplyConflicts, List, CheckOnline, UpdateConflicts, outside
<1>13. CASE UNCHANGED vars
  BY <1>1, <1>13 DEF vars
<1> QED
  BY <1>2, <1>3, <1>4, <1>5, <1>6, <1>7, <1>8, <1>9, <1>10, <1>11, <1>12, <1>13
  DEF Next, Pass, Environment

\* A new generation has no copy yet.
LEMMA NewerThanCopy ==
  ASSUME ObjectTypes, NEW copy \in KaiadAgent, CopyOf(copy), cr' \in KaiadAgent, cr'.gen = cr.gen + 1
  PROVE  copy.gen < cr'.gen
BY DEF ObjectTypes, CopyOf, KaiadAgent

\* The copy in the cache: it is replaced by the spec, or the spec moves on.
LEMMA CacheStep ==
  ASSUME ObjectTypes, ObjectTypes', CacheTypes, CopyOf(cache.cr), PassTypes, PassCopies, [Next]_vars
  PROVE  CacheTypes' /\ CopyOf(cache.cr)'
<1>1. CASE NoticeAgent \/ Crash
  <2>1. cr' = cr /\ cache'.cr = cr /\ cache' \in [cr : KaiadAgent, labels : Labels, grants : Grants]
    BY <1>1 DEF NoticeAgent, Crash, others, outside, cluster, Seen, CacheTypes, ObjectTypes
  <2>2. due' \in BOOLEAN BY <1>1 DEF NoticeAgent, Crash
  <2> QED BY <2>1, <2>2 DEF CacheTypes, CopyOf, ObjectTypes, KaiadAgent
<1>2. CASE NoticeNamespaces \/ Refresh
  <2>1. cr' = cr /\ cache'.cr = cache.cr /\ cache' \in [cr : KaiadAgent, labels : Labels, grants : Grants]
    BY <1>2 DEF NoticeNamespaces, Refresh, others, cluster, CacheTypes, ObjectTypes
  <2>2. due' \in BOOLEAN BY <1>2 DEF NoticeNamespaces, Refresh, CacheTypes
  <2> QED BY <2>1, <2>2 DEF CacheTypes, CopyOf
<1>3. ASSUME cache' = cache, due' \in BOOLEAN, cr' = cr \/ cr'.gen = cr.gen + 1
      PROVE  CacheTypes' /\ CopyOf(cache.cr)'
  <2>1. CacheTypes' BY <1>3 DEF CacheTypes
  <2>2. CASE cr' = cr BY <1>3, <2>1, <2>2 DEF CopyOf
  <2>3. CASE cr'.gen = cr.gen + 1
    <3>1. cache.cr \in KaiadAgent BY DEF CacheTypes
    <3>2. cr' \in KaiadAgent BY DEF ObjectTypes
    <3>3. cache.cr.gen < cr'.gen BY <2>3, <3>1, <3>2, NewerThanCopy
    <3> QED BY <1>3, <2>1, <3>1, <3>2, <3>3 DEF CopyOf, KaiadAgent
  <2> QED BY <1>3, <2>1, <2>2, <2>3
<1>4. CASE Begin \/ Enroll \/ Sweep \/ Apply \/ ApplyConflicts \/ List \/ Deploy \/ CheckOnline \/ Commit
             \/ UpdateConflicts \/ NoAnswer \/ CallFails
  <2>1. cache' = cache /\ cr' = cr
    BY <1>4 DEF Begin, Enroll, Sweep, Apply, ApplyConflicts, List, Deploy, CheckOnline, Commit,
       UpdateConflicts, NoAnswer, CallFails, cluster
  <2>2. due' = due \/ due' \in BOOLEAN
    BY <1>4, Zenon DEF Begin, Enroll, Sweep, Apply, ApplyConflicts, List, Deploy, CheckOnline, Commit,
       UpdateConflicts, NoAnswer, CallFails, Fails
  <2> QED BY <1>3, <2>1, <2>2 DEF CacheTypes
<1>5. CASE Bump
  <2>1. pass.cr \in KaiadAgent /\ cr' = [pass.cr EXCEPT !.gen = cr.gen + 1]
    BY <1>5 DEF Bump, Updates, PassTypes
  <2>2. cr'.gen = cr.gen + 1 BY <2>1 DEF KaiadAgent
  <2>3. cache' = cache /\ due' \in BOOLEAN BY <1>5 DEF Bump
  <2> QED BY <1>3, <2>2, <2>3
<1>6. CASE \E m \in Manages, v \in Version : Edit(m, v)
  <2>1. cache' = cache /\ due' = due /\ cr'.gen = cr.gen + 1
    BY <1>6 DEF Edit, operator
  <2> QED BY <1>3, <2>1 DEF CacheTypes
<1>7. CASE \/ \E n \in Namespace, l \in Label \cup {NoLabel} : Relabel(n, l)
           \/ \E v \in Version : Release(v)
           \/ Incoming \/ Starts \/ SessionFault \/ SecretEvent \/ (\E t \in Token : TokenEvent(t))
  <2>1. cache' = cache /\ due' = due /\ cr' = cr
    BY <1>7 DEF Relabel, Release, Incoming, Starts, SessionFault, SecretEvent, TokenEvent,
       still, operator, cluster
  <2> QED BY <1>3, <2>1 DEF CacheTypes
<1>8. CASE UNCHANGED vars
  <2>1. cache' = cache /\ due' = due /\ cr' = cr
    BY <1>8 DEF vars, operator, cluster
  <2> QED BY <1>3, <2>1 DEF CacheTypes
<1> QED BY <1>1, <1>2, <1>4, <1>5, <1>6, <1>7, <1>8 DEF Next, Pass, Environment

\* The pass.
LEMMA PassStep ==
  ASSUME ObjectTypes, ObjectTypes', CacheTypes, CopyOf(cache.cr), PassTypes, PassCopies, [Next]_vars
  PROVE  PassTypes' /\ PassCopies'
<1> USE OperatorAssumption, EnrollmentAssumption
<1>0. pass \in PassState BY DEF PassTypes
<1>1. ASSUME pass' = Idle PROVE PassTypes' /\ PassCopies'
  BY <1>1 DEF PassTypes, PassCopies, PassState, Idle, Reason
<1>2. CASE Begin
  <2>1. cr' = cr BY <1>2 DEF Begin, cluster
  <2>2. /\ pass'.cr = cache.cr /\ pass'.todo = {}
        /\ \/ pass'.pc = "enroll" /\ pass'.reason = "" /\ Valid(cache.cr.manages)
           \/ pass'.pc = "commit" /\ pass'.reason = "InvalidSpec"
        /\ pass' = [pc |-> pass'.pc, todo |-> pass'.todo, reason |-> pass'.reason, cr |-> pass'.cr]
    BY <1>2 DEF Begin, Idle
  <2>3. cache.cr \in KaiadAgent BY DEF CacheTypes
  <2>4. pass' \in PassState BY <2>2, <2>3 DEF PassState, Reason
  <2>5. PassTypes' BY <2>2, <2>3, <2>4 DEF PassTypes
  <2>6. PassCopies' BY <2>1, <2>2 DEF PassCopies, CopyOf
  <2> QED BY <2>5, <2>6
\* Steps that keep the copy they work on.
<1>3. ASSUME pass' \in PassState, pass.pc \notin {"idle", "bump", "commit"}, pass'.pc # "bump",
             pass'.cr = pass.cr, cr' = cr
      PROVE  PassTypes' /\ PassCopies'
  BY <1>3 DEF PassTypes, PassCopies, CopyOf
<1>4. ASSUME NEW reason \in Reason, Ends(reason), pass.pc \notin {"idle", "bump", "commit"}, cr' = cr
      PROVE  PassTypes' /\ PassCopies'
  <2>1. pass' \in PassState /\ pass'.pc = "commit" /\ pass'.cr = pass.cr
    BY <1>0, <1>4 DEF Ends, PassState
  <2> QED BY <1>3, <1>4, <2>1
<1>5. ASSUME NEW pc \in {"sweep", "list", "online"}, Goto(pc), pass.pc \notin {"idle", "bump", "commit"}, cr' = cr
      PROVE  PassTypes' /\ PassCopies'
  <2>1. pass' \in PassState /\ pass'.pc = pc /\ pass'.cr = pass.cr
    BY <1>0, <1>5 DEF Goto, PassState
  <2> QED BY <1>3, <1>5, <2>1
<1>6. CASE Enroll
  <2>1. cr' = cr /\ pass.pc = "enroll" BY <1>6 DEF Enroll, cluster
  <2>2. CASE Ends("EnrollmentFailed") BY <1>4, <2>1, <2>2 DEF Reason
  <2>3. CASE Goto("sweep") BY <1>5, <2>1, <2>3
  <2>4. CASE pass' = [pass EXCEPT !.pc = "cluster", !.todo = {Cluster}]
    <3>1. pass' \in PassState /\ pass'.pc = "cluster" /\ pass'.cr = pass.cr
      BY <1>0, <2>4 DEF PassState, Place
    <3> QED BY <1>3, <2>1, <3>1
  <2> QED BY <1>6, <2>2, <2>3, <2>4 DEF Enroll
<1>7. CASE Sweep
  BY <1>5, <1>7 DEF Sweep
<1>8. CASE Apply
  <2>1. cr' = cr /\ pass.pc \in {"cluster", "namespaces"} BY <1>8 DEF Apply, Applying
  <2>2. PICK p \in pass.todo : pass' = [pass EXCEPT !.todo = @ \ {p}] BY <1>8 DEF Apply
  <2>3. pass' \in PassState /\ pass'.pc = pass.pc /\ pass'.cr = pass.cr
    BY <1>0, <2>2 DEF PassState
  <2> QED BY <1>3, <2>1, <2>3
<1>9. CASE List
  <2>1. cr' = cr /\ pass.pc \in {"list", "cluster"} BY <1>9 DEF List, cluster
  <2>2. Matched(pass.cr.manages, cache.labels) \subseteq Place BY DEF Matched, Place
  <2>3. pass' \in PassState /\ pass'.pc = "namespaces" /\ pass'.cr = pass.cr
    BY <1>0, <1>9, <2>2 DEF List, PassState
  <2> QED BY <1>3, <2>1, <2>3
<1>10. CASE Deploy
  <2>1. cr' = cr /\ pass.pc = "namespaces" BY <1>10 DEF Deploy
  <2>2. CASE Goto("online") BY <1>5, <2>1, <2>2
  <2>3. CASE Ends("DeploymentPending") BY <1>4, <2>1, <2>3 DEF Reason
  <2> QED BY <1>10, <2>2, <2>3 DEF Deploy
<1>11. CASE CheckOnline
  <2>1. cr' = cr /\ pass.pc = "online" BY <1>11 DEF CheckOnline, cluster
  <2>2. CASE Known /\ Newer(latest, pass.cr.image)
    <3>1. pass' = [pass EXCEPT !.pc = "bump", !.cr.image = latest]
      BY <1>11, <2>2 DEF CheckOnline
    <3>2. pass.cr \in KaiadAgent BY <2>1 DEF PassTypes
    <3>3. latest \in Version BY DEF ObjectTypes
    <3>4. pass'.cr = [pass.cr EXCEPT !.image = latest] /\ pass'.pc = "bump"
      BY <1>0, <3>1 DEF PassState
    <3>5. pass'.cr \in KaiadAgent /\ pass'.cr.manages = pass.cr.manages /\ pass'.cr.gen = pass.cr.gen
          /\ pass'.cr.image = latest
      BY <3>2, <3>3, <3>4 DEF KaiadAgent
    <3>6. pass' = [pc |-> "bump", todo |-> pass.todo, reason |-> pass.reason, cr |-> pass'.cr]
      BY <1>0, <3>1, <3>4 DEF PassState
    <3>7. pass.todo \in SUBSET Place /\ pass.reason \in Reason BY <1>0 DEF PassState
    <3>8. pass' \in PassState
      BY <3>5, <3>6, <3>7 DEF PassState
    <3>9. CopyOf(pass.cr) /\ Valid(pass.cr.manages) BY <2>1 DEF PassCopies
    <3>10. PassCopies'
      BY <2>1, <2>2, <3>4, <3>5, <3>9 DEF PassCopies, CopyOf
    <3> QED BY <3>4, <3>5, <3>8, <3>10 DEF PassTypes
  <2>3. CASE Ends(IF status THEN "AgentOnline" ELSE "AgentNotOnline")
    BY <1>4, <2>1, <2>3 DEF Reason
  <2> QED BY <1>11, <2>2, <2>3 DEF CheckOnline
<1>12. CASE NoAnswer
  BY <1>4, <1>12 DEF NoAnswer, Reason, cluster
<1>13. CASE ApplyConflicts \/ Bump \/ Commit \/ UpdateConflicts \/ CallFails \/ Crash
  BY <1>1, <1>13 DEF ApplyConflicts, Bump, Commit, UpdateConflicts, CallFails, Crash, Fails
<1>14. CASE \E m \in Manages, v \in Version : Edit(m, v)
  <2>1. pass' = pass /\ cr'.gen = cr.gen + 1 /\ cr' \in KaiadAgent
    BY <1>14 DEF Edit, operator, ObjectTypes
  <2>2. ASSUME pass.pc # "idle" PROVE pass.cr \in KaiadAgent /\ pass.cr.gen < cr'.gen
    BY <2>1, <2>2 DEF PassTypes, PassCopies, CopyOf, KaiadAgent, ObjectTypes
  <2>3. PassTypes' BY <2>1 DEF PassTypes
  <2>4. PassCopies'
    BY <2>1, <2>2 DEF PassCopies, CopyOf, KaiadAgent
  <2> QED BY <2>3, <2>4
<1>15. ASSUME pass' = pass, cr' = cr PROVE PassTypes' /\ PassCopies'
  BY <1>15 DEF PassTypes, PassCopies, CopyOf
<1>16. CASE \/ \E n \in Namespace, l \in Label \cup {NoLabel} : Relabel(n, l)
            \/ \E v \in Version : Release(v)
            \/ Incoming \/ Starts \/ SessionFault \/ SecretEvent \/ (\E t \in Token : TokenEvent(t))
  BY <1>15, <1>16 DEF Relabel, Release, Incoming, Starts, SessionFault, SecretEvent, TokenEvent,
     still, operator, cluster
<1>17. CASE NoticeAgent \/ NoticeNamespaces \/ Refresh \/ UNCHANGED vars
  BY <1>15, <1>17 DEF NoticeAgent, NoticeNamespaces, Refresh, others, vars, operator, cluster
<1> QED
  BY <1>2, <1>6, <1>7, <1>8, <1>9, <1>10, <1>11, <1>12, <1>13, <1>14, <1>16, <1>17
  DEF Next, Pass, Environment

-----------------------------------------------------------------------------
(* The edits of the user, and the counters                                 *)

\* versionNewer orders the tags that are versions.
LEMMA NewerIsTransitive ==
  ASSUME NEW u \in Version, NEW v \in Version, NEW w \in Version, Newer(u, v), Newer(v, w)
  PROVE  Newer(u, w)
BY EnrollmentAssumption DEF Newer

\* Only an edit changes what was asked for, and it is what the spec then says; the
\* update writes a copy whose generation is that of the spec.
LEMMA EditStep ==
  ASSUME ObjectTypes, PassTypes, PassCopies, KeepsEdits, [Next]_vars
  PROVE  KeepsEdits'
<1>1. ASSUME cr' = cr, asked' = asked PROVE KeepsEdits'
  BY <1>1 DEF KeepsEdits
<1>2. CASE Bump
  <2>1. asked' = asked /\ pass.pc = "bump" /\ pass.cr.gen = cr.gen
        /\ cr' = [pass.cr EXCEPT !.gen = cr.gen + 1]
    BY <1>2 DEF Bump, Updates, PassTypes
  <2>2. pass.cr \in KaiadAgent /\ pass.cr.manages = cr.manages /\ Newer(pass.cr.image, cr.image)
    BY <2>1 DEF PassTypes, PassCopies
  <2>3. cr'.manages = cr.manages /\ cr'.image = pass.cr.image
    BY <2>1, <2>2 DEF KaiadAgent
  <2>4. pass.cr.image \in Version /\ cr.image \in Version /\ asked.image \in Version
    BY <2>2 DEF ObjectTypes, KaiadAgent, Asked
  <2>5. CASE cr.image = asked.image
    BY <2>1, <2>2, <2>3, <2>5 DEF KeepsEdits
  <2>6. CASE Newer(cr.image, asked.image)
    <3>1. Newer(pass.cr.image, asked.image) BY <2>2, <2>4, <2>6, NewerIsTransitive
    <3> QED BY <2>1, <2>3, <3>1 DEF KeepsEdits
  <2> QED BY <2>5, <2>6 DEF KeepsEdits
<1>3. CASE \E m \in Manages, v \in Version : Edit(m, v)
  BY <1>3 DEF Edit, KeepsEdits
<1>4. CASE Begin \/ Enroll \/ Sweep \/ Apply \/ ApplyConflicts \/ List \/ Deploy \/ CheckOnline \/ Commit
             \/ UpdateConflicts \/ NoAnswer \/ NoticeAgent \/ NoticeNamespaces \/ Refresh \/ CallFails \/ Crash
  BY <1>1, <1>4
  DEF Begin, Enroll, Sweep, Apply, ApplyConflicts, List, Deploy, CheckOnline, Commit, UpdateConflicts,
      NoAnswer, NoticeAgent, NoticeNamespaces, Refresh, CallFails, Crash, others, cluster
<1>5. CASE \/ \E n \in Namespace, l \in Label \cup {NoLabel} : Relabel(n, l)
           \/ \E v \in Version : Release(v)
           \/ Incoming \/ Starts \/ SessionFault \/ SecretEvent \/ (\E t \in Token : TokenEvent(t))
           \/ UNCHANGED vars
  BY <1>1, <1>5
  DEF Relabel, Release, Incoming, Starts, SessionFault, SecretEvent, TokenEvent, still, cluster, vars
<1> QED BY <1>2, <1>3, <1>4, <1>5 DEF Next, Pass, Environment

\* The bounds on events and faults.
LEMMA CountStep ==
  ASSUME Counts, [Next]_vars
  PROVE  Counts'
<1> USE OperatorAssumption
<1>1. ASSUME UNCHANGED events \/ Event, UNCHANGED faults \/ Fault PROVE Counts'
  BY <1>1 DEF Counts, Event, Fault
<1>2. CASE Pass \/ NoticeAgent \/ NoticeNamespaces \/ Refresh \/ Incoming \/ Starts
  BY <1>1, <1>2
  DEF Pass, NoticeAgent, NoticeNamespaces, Refresh, Incoming, Starts, Begin, Enroll, Sweep,
      Apply, ApplyConflicts, List, Deploy, CheckOnline, Bump, Commit, UpdateConflicts, outside,
      others, still
<1>3. CASE NoAnswer \/ CallFails \/ Crash \/ SessionFault
  BY <1>1, <1>3 DEF NoAnswer, CallFails, Crash, SessionFault, outside
<1>4. CASE Environment
  BY <1>1, <1>4 DEF Environment, Edit, Relabel, Release, TokenEvent, SecretEvent
<1>5. CASE UNCHANGED vars
  BY <1>1, <1>5 DEF vars
<1> QED BY <1>2, <1>3, <1>4, <1>5 DEF Next

-----------------------------------------------------------------------------
(* The theorems                                                            *)

\* Where the passes start.
LEMMA InitInv == Init => OperatorInv
<1> SUFFICES ASSUME Init PROVE OperatorInv
  OBVIOUS
<1> USE OperatorAssumption, EnrollmentAssumption
<1>1. EnrollTypes
  <2>1. PICK old \in SUBSET minted : marks = [t \in Token |-> IF t \in old THEN {"expired"} ELSE {}]
    BY DEF Init
  <2>2. marks \in [Token -> SUBSET {"expired", "used", "revoked"}]
    BY <2>1
  <2> QED BY <2>2 DEF Init, EnrollTypes, NoPod, Image
<1>2. PICK m \in Manages, v \in Version :
        cr = [gen |-> 1, manages |-> m, image |-> v] /\ asked = [manages |-> m, image |-> v]
  BY DEF Init
<1>3. cr \in KaiadAgent /\ cr.gen = 1 /\ asked \in Asked
  BY <1>2 DEF KaiadAgent, Asked
<1>4. ObjectTypes
  <2>1. /\ ready = [reason |-> "", gen |-> 0] /\ labels \in [Namespace -> Label \cup {NoLabel}]
        /\ grants = [p \in Place |-> {}] /\ dep = NoImage /\ latest \in Version
    BY Zenon DEF Init
  <2>2. ready.gen = 0 /\ ready \in [reason : Reason, gen : Nat]
    BY <2>1 DEF Reason
  <2>3. grants \in Grants BY <2>1 DEF Grants
  <2>4. ready.gen <= cr.gen BY <1>3, <2>2
  <2> QED BY <1>3, <2>1, <2>2, <2>3, <2>4 DEF ObjectTypes, Labels, Image
<1>5. CacheTypes /\ CopyOf(cache.cr)
  <2>1. cache = [cr |-> cr, labels |-> labels, grants |-> grants] /\ due = TRUE
    BY Zenon DEF Init, Seen
  <2> QED BY <1>3, <1>4, <2>1 DEF CacheTypes, CopyOf, ObjectTypes, KaiadAgent
<1>6. PassTypes /\ PassCopies
  BY DEF Init, PassTypes, PassCopies, PassState, Idle, Reason
<1>7. KeepsEdits BY <1>2 DEF KeepsEdits
<1>8. Counts
  <2>1. events = 0 /\ faults = 0 BY Zenon DEF Init
  <2> QED BY <2>1 DEF Counts
<1> QED BY <1>1, <1>4, <1>5, <1>6, <1>7, <1>8 DEF OperatorInv

\* The inductive invariant: the copies in the cache and in the pass are old, or
\* they are the spec, whatever the cluster, its users and the faults do.
THEOREM OperatorInvariant == Spec => []OperatorInv
<1>1. OperatorInv /\ [Next]_vars => OperatorInv'
  <2> SUFFICES ASSUME OperatorInv, [Next]_vars PROVE OperatorInv'
    OBVIOUS
  <2> USE DEF OperatorInv
  <2>1. EnrollTypes' BY EnrollStep
  <2>2. ObjectTypes' BY ObjectStep
  <2>3. CacheTypes' /\ CopyOf(cache.cr)' BY <2>2, CacheStep
  <2>4. PassTypes' /\ PassCopies' BY <2>2, PassStep
  <2>5. KeepsEdits' BY EditStep
  <2>6. Counts' BY CountStep
  <2> QED BY <2>1, <2>2, <2>3, <2>4, <2>5, <2>6
<1> QED BY <1>1, InitInv, PTL DEF Spec

\* Whatever informers miss and calls fail, the state is well typed, only rules of the
\* allow-list are granted, and an agent with a session used its token.
THEOREM OperatorTypeCorrect == Spec => []TypeOK
BY OperatorInvariant, InvTypes, PTL

\* No pass, on however old a copy, undoes an edit of the user.
THEOREM EditsKept == Spec => []KeepsEdits
<1>1. OperatorInv => KeepsEdits BY DEF OperatorInv
<1> QED BY <1>1, OperatorInvariant, PTL
=============================================================================
