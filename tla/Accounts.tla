------------------------------ MODULE Accounts ------------------------------
(***************************************************************************)
(* Tenants, members, permission groups and sessions on PostgreSQL: the     *)
(* setup wizard, the routes of users and groups, login, the active tenant, *)
(* creation and deletion of tenants, and the schema that every process     *)
(* applies when it starts.  A call runs its statements one at a time, only *)
(* what the code puts in a transaction is one step.                        *)
(***************************************************************************)
EXTENDS Naturals, Sequences, SequencesExt, FiniteSets

CONSTANTS
  User,
  Tenant,
  Default,   \* the tenant of the setup
  Protected, \* tenants that webhooks go to
  Role,      \* roles the calls give
  Session,
  MaxActive, \* bound on calls in progress
  MaxCalls,  \* bound on calls
  MaxFailures \* calls that fail between two statements

None == "none"
BuiltinRole == {"owner", "admin", "operator", "viewer"}

ASSUME AccountsAssumption ==
  /\ Default \in Tenant /\ Protected \subseteq Tenant /\ "owner" \in Role /\ Role \subseteq BuiltinRole
  /\ None \notin User \cup Tenant
  /\ {MaxActive, MaxCalls, MaxFailures} \subseteq Nat

VARIABLES
  setup,    \* the wizard is open
  tenants,  \* rows of tenants
  seeded,   \* tenants with the built-in groups
  teams,    \* tenants with a custom group
  member,   \* tenant_memberships: the role of a user in a tenant
  groups,   \* user_groups: pairs of a tenant and a user, with a group
  sessions, \* user and tenant of a session
  calls,    \* calls in progress
  unsure,   \* members whose groups a failure, an overlap or a second addition left open
  left,     \* memberships that ended
  started,
  failures

rows == <<tenants, seeded, teams, member, groups, sessions>>
history == <<unsure, left>>
vars == <<setup, rows, calls, history, started, failures>>

Pair == Tenant \X User
Team == "team"
NoSession == [user |-> None, tenant |-> None, guest |-> FALSE]

-----------------------------------------------------------------------------
(* Permissions                                                             *)

\* BUILTIN_GROUPS; the custom group holds what a viewer does not.
PermissionsForRole(role) ==
  CASE role \in {"owner", "admin"} -> {"manage", "operate", "read"}
    [] role = "operator" -> {"operate", "read"}
    [] OTHER -> {"read"}
GroupPermissions(g) == IF g = Team THEN {"operate"} ELSE PermissionsForRole(g)

GetEffectivePermissions(p) ==
  UNION {GroupPermissions(g) : g \in {h \in Role \cup {Team} : <<p, h>> \in groups}}

\* sessionPermissions: full roles by name, else the groups, else the role.
SessionPermissions(p) ==
  IF member[p] \in {"owner", "admin"} \/ GetEffectivePermissions(p) = {}
  THEN PermissionsForRole(member[p])
  ELSE GetEffectivePermissions(p)

MembershipsOf(u) == {t \in tenants : member[<<t, u>>] # None}

\* resolveSession: the row, and the membership as it is now.
Resolves(x) == sessions[x] # NoSession /\ sessions[x].tenant \in MembershipsOf(sessions[x].user)
At(x) == <<sessions[x].tenant, sessions[x].user>>
\* authorize with users:manage
Manages(x) == Resolves(x) /\ "manage" \in SessionPermissions(At(x))

-----------------------------------------------------------------------------
(* Calls                                                                   *)

\* at: the membership it is about; alone: no other call met it there.
Call(pc, at, role, custom, row) ==
  [pc |-> pc, at |-> at, role |-> role, custom |-> custom, row |-> row, alone |-> TRUE, read |-> {}]

AboutAll == <<None, None>>
Meet(c, d) == c.at = d.at \/ AboutAll \in {c.at, d.at}

Begin(c) ==
  /\ Len(calls) < MaxActive
  /\ LET met == {i \in DOMAIN calls : Meet(c, calls[i])}
     IN calls' = Append([i \in DOMAIN calls |-> [calls[i] EXCEPT !.alone = @ /\ i \notin met]],
                        [c EXCEPT !.alone = (met = {})])
  /\ UNCHANGED <<setup, rows, history, failures>>

Start(c) == started < MaxCalls /\ started' = started + 1 /\ Begin(c)

To(i, pc) == calls' = [calls EXCEPT ![i].pc = pc]
End(i) == calls' = RemoveAt(calls, i)
Settled(i, sure) == unsure' = IF sure THEN unsure \ {calls[i].at} ELSE unsure \cup {calls[i].at}

Same == UNCHANGED <<setup, started, failures>>

\* Before the setup, or at any time nothing is in progress.
Fresh ==
  /\ setup /\ tenants = {} /\ member = [p \in Pair |-> None]
  /\ sessions = [x \in Session |-> NoSession]
Installed ==
  /\ ~setup /\ tenants \in {T \in SUBSET Tenant : Default \in T}
  /\ member \in {m \in [Pair -> Role \cup {None}] : \A p \in Pair : p[1] \notin tenants => m[p] = None}
  /\ sessions \in [Session -> {NoSession} \cup [user : User, tenant : tenants, guest : {FALSE}]]
  /\ \A x \in Session : sessions[x] = NoSession \/ Resolves(x)

Init ==
  /\ setup \in BOOLEAN /\ (Fresh \/ Installed)
  /\ seeded \in SUBSET tenants /\ teams \in SUBSET tenants
  /\ groups = {<<p, member[p]>> : p \in {q \in Pair : member[q] # None /\ q[1] \in seeded}}
  /\ calls = <<>> /\ unsure = {} /\ left = {} /\ started = 0 /\ failures = 0

-----------------------------------------------------------------------------
(* The setup wizard                                                        *)

StartSetup(u) == setup /\ Start(Call("admin", <<Default, u>>, "owner", None, None))

\* One transaction: the tenant, the user and the membership, no group.
SetupAdmin(i) ==
  /\ calls[i].pc = "admin" /\ To(i, "config")
  /\ tenants' = tenants \cup {Default}
  /\ unsure' = IF member[calls[i].at] \in {None, "owner"} THEN unsure ELSE unsure \cup {calls[i].at}
  /\ member' = [member EXCEPT ![calls[i].at] = "owner"] /\ left' = left \ {calls[i].at}
  /\ Same /\ UNCHANGED <<seeded, teams, groups, sessions>>

WriteConfig(i) ==
  /\ calls[i].pc = "config" /\ End(i)
  /\ setup' = FALSE
  /\ UNCHANGED <<rows, history, started, failures>>

-----------------------------------------------------------------------------
(* The schema, applied when a process starts                               *)

\* Mutant: only the tenant of the setup gets its groups.
SeededDefault(read) == read \cap {Default}
\* Built-in groups of every tenant the statement sees.
Seeded(read) == read

\* The statements of the schema are one transaction, but each sees what was
\* committed when it began.
StartBoot ==
  /\ \A i \in DOMAIN calls : calls[i].at # AboutAll
  /\ Begin([Call("backfill", AboutAll, None, None, None) EXCEPT
       !.read = {<<<<t, u>>, member[<<t, u>>]>> : t \in tenants, u \in User}])
  /\ UNCHANGED started

EnsureCoreSchema(i) ==
  /\ calls[i].pc = "backfill" /\ End(i)
  /\ LET read == calls[i].read
         now == seeded \cup Seeded({r[1][1] : r \in read})
     IN /\ seeded' = now
        /\ groups' = groups \cup {r \in read : r[2] # None /\ r[1][1] \in now}
  /\ Same /\ UNCHANGED <<tenants, teams, member, sessions, history>>

-----------------------------------------------------------------------------
(* Users and groups                                                        *)

GroupsOf(p, kind) == {r \in groups : r[1] = p /\ r[2] \in kind}
\* Mutant: the group need not be there.
GrantAny(p, g) == groups \cup {<<p, g>>}
Grant(p, g) == IF p[1] \in seeded THEN groups \cup {<<p, g>>} ELSE groups

\* PATCH /users/:userId: setMemberRole, then setMemberCustomGroups.
StartPatch(x, u, role, custom) ==
  /\ Manages(x) /\ {role, custom} # {None}
  /\ Start(Call(IF role = None THEN "clear" ELSE "role", <<sessions[x].tenant, u>>, role, custom, None))

\* The role; 404 if there is no membership.
UpdateRole(i) ==
  /\ calls[i].pc = "role"
  /\ IF member[calls[i].at] = None
     THEN End(i) /\ UNCHANGED member
     ELSE To(i, "swap") /\ member' = [member EXCEPT ![calls[i].at] = calls[i].role]
  /\ Same /\ UNCHANGED <<tenants, seeded, teams, groups, sessions, history>>

\* Mutant: the old built-in group stays.
SwapsNothing(p) == {}
\* What setMemberRole deletes.
Swapped(p) == GroupsOf(p, Role)

DropBuiltin(i) ==
  /\ calls[i].pc = "swap" /\ To(i, "grant")
  /\ groups' = groups \ Swapped(calls[i].at)
  /\ Same /\ UNCHANGED <<tenants, seeded, teams, member, sessions, history>>

GrantBuiltin(i) ==
  /\ calls[i].pc = "grant" /\ groups' = Grant(calls[i].at, calls[i].role)
  /\ Settled(i, calls[i].alone)
  /\ IF calls[i].custom = None THEN End(i) ELSE To(i, "clear")
  /\ Same /\ UNCHANGED <<tenants, seeded, teams, member, sessions, left>>

\* Members or not; a group that is gone is skipped.
ClearCustom(i) ==
  /\ calls[i].pc = "clear" /\ To(i, "custom")
  /\ groups' = groups \ GroupsOf(calls[i].at, {Team})
  /\ Same /\ UNCHANGED <<tenants, seeded, teams, member, sessions, history>>

GrantCustom(i) ==
  /\ calls[i].pc = "custom" /\ End(i)
  /\ groups' = IF calls[i].custom = Team /\ calls[i].at[1] \in teams
               THEN groups \cup {<<calls[i].at, Team>>} ELSE groups
  /\ Same /\ UNCHANGED <<tenants, seeded, teams, member, sessions, history>>

\* POST /users
StartAdd(x, u, role) == Manages(x) /\ Start(Call("upsert", <<sessions[x].tenant, u>>, role, None, None))

\* The role of a member who is added again changes, too.
UpsertMember(i) ==
  /\ calls[i].pc = "upsert"
  /\ LET p == calls[i].at
     IN IF p[1] \in tenants
        THEN /\ calls' = [calls EXCEPT ![i].pc = "join",
                                       ![i].alone = @ /\ member[p] \in {None, calls[i].role}]
             /\ member' = [member EXCEPT ![p] = calls[i].role] /\ left' = left \ {p}
        ELSE End(i) /\ UNCHANGED <<member, left>>
  /\ Same /\ UNCHANGED <<tenants, seeded, teams, groups, sessions, unsure>>

Join(i) ==
  /\ calls[i].pc = "join" /\ End(i)
  /\ groups' = Grant(calls[i].at, calls[i].role)
  /\ unsure' = IF calls[i].alone THEN unsure ELSE unsure \cup {calls[i].at}
  /\ Same /\ UNCHANGED <<tenants, seeded, teams, member, sessions, left>>

\* DELETE /users/:userId: nobody removes himself.
StartRemove(x, u) ==
  /\ Manages(x) /\ u # sessions[x].user
  /\ Start(Call("wipe", <<sessions[x].tenant, u>>, None, None, None))

DeleteGroups(i) ==
  /\ calls[i].pc = "wipe" /\ To(i, "leave")
  /\ groups' = groups \ GroupsOf(calls[i].at, Role \cup {Team})
  /\ Same /\ UNCHANGED <<tenants, seeded, teams, member, sessions, history>>

DeleteMembership(i) ==
  /\ calls[i].pc = "leave" /\ End(i) /\ Settled(i, calls[i].alone)
  /\ member' = [member EXCEPT ![calls[i].at] = None]
  /\ left' = left \cup {p \in {calls[i].at} : member[p] # None}
  /\ Same /\ UNCHANGED <<tenants, seeded, teams, groups, sessions>>

\* POST and DELETE /groups: one statement each, the rows of its members follow.
Event == started < MaxCalls /\ started' = started + 1 /\ UNCHANGED <<setup, calls, failures>>

CreateGroup(x) ==
  /\ Manages(x) /\ teams' = teams \cup {sessions[x].tenant}
  /\ Event /\ UNCHANGED <<tenants, seeded, member, groups, sessions, history>>

DeleteGroup(x) ==
  /\ Manages(x) /\ sessions[x].tenant \in teams /\ teams' = teams \ {sessions[x].tenant}
  /\ groups' = {r \in groups : ~(r[1][1] = sessions[x].tenant /\ r[2] = Team)}
  /\ Event /\ UNCHANGED <<tenants, seeded, member, sessions, history>>

-----------------------------------------------------------------------------
(* Sessions and tenants                                                    *)

\* login: the first membership, in no stated order.  OAuth lets in who has none.
StartLogin(u) ==
  \E t \in MembershipsOf(u) : Start(Call("session", <<t, u>>, None, None, None))
StartOAuth(u) ==
  /\ MembershipsOf(u) = {}
  /\ Start(Call("session", <<Default, u>>, None, "guest", None))

\* Ids are new: none that a call in progress holds.
Unused ==
  {x \in Session : /\ sessions[x] = NoSession
                   /\ \A i \in DOMAIN calls : calls[i].pc = "switch" => calls[i].row # x}

CreateSession(i) ==
  /\ calls[i].pc = "session" /\ End(i)
  /\ IF calls[i].at[1] \in tenants
     THEN /\ Unused # {}
          /\ sessions' = [sessions EXCEPT ![CHOOSE x \in Unused : TRUE] =
               [user |-> calls[i].at[2], tenant |-> calls[i].at[1], guest |-> calls[i].custom = "guest"]]
     ELSE UNCHANGED sessions
  /\ Same /\ UNCHANGED <<tenants, seeded, teams, member, groups, history>>

\* Rows and tenants a deletion in progress holds: a session it moves, and where to.
Held(x) == \E i \in DOMAIN calls : calls[i].pc = "delete" /\ \E m \in calls[i].read : m[1] = x

StartSwitch(x, t) ==
  /\ Resolves(x) /\ t \in MembershipsOf(sessions[x].user) \ {sessions[x].tenant}
  /\ Start(Call("switch", <<t, sessions[x].user>>, None, None, x))

UpdateSessionTenant(i) ==
  /\ calls[i].pc = "switch" /\ ~Held(calls[i].row) /\ End(i)
  /\ LET x == calls[i].row
     IN sessions' = IF sessions[x] # NoSession /\ calls[i].at[1] \in tenants
                    THEN [sessions EXCEPT ![x].tenant = calls[i].at[1], ![x].guest = FALSE]
                    ELSE sessions
  /\ Same /\ UNCHANGED <<tenants, seeded, teams, member, groups, history>>

\* One transaction.  Nothing gives the new tenant its groups before the next boot.
CreateTenant(x, t) ==
  /\ Resolves(x) /\ ~Held(x) /\ t \notin tenants
  /\ tenants' = tenants \cup {t}
  /\ member' = [member EXCEPT ![<<t, sessions[x].user>>] = "owner"]
  /\ sessions' = [sessions EXCEPT ![x].tenant = t, ![x].guest = FALSE]
  /\ left' = left \ {<<t, sessions[x].user>>}
  /\ Event /\ UNCHANGED <<seeded, teams, groups, unsure>>

StartDelete(x, t) ==
  /\ Resolves(x) /\ t \in tenants \ Protected
  /\ Start(Call("move", <<t, sessions[x].user>>, None, None, None))

\* Mutant: a session goes to any other tenant.
Anywhere(u, t) == tenants \ {t}
\* Where the sessions of a user go.
Elsewhere(u, t) == MembershipsOf(u) \ {t}

\* The role, and the UPDATE of the sessions, which nobody sees yet.
MoveSessions(i) ==
  /\ calls[i].pc = "move"
  /\ LET t == calls[i].at[1]
         moved == {x \in Session : sessions[x].tenant = t /\ Elsewhere(sessions[x].user, t) # {}}
     IN IF t \in tenants /\ member[calls[i].at] \in {"owner", "admin"}
        THEN /\ \A x \in moved : ~Held(x)
             /\ \E to \in [moved -> tenants] :
                  /\ \A x \in moved : to[x] \in Elsewhere(sessions[x].user, t)
                  /\ calls' = [calls EXCEPT ![i].pc = "delete", ![i].read = {<<x, to[x]>> : x \in moved}]
        ELSE End(i)
  /\ Same /\ UNCHANGED <<rows, history>>

\* Foreign keys hold the tenants a boot or another deletion refers to.
Referred(t, i) ==
  \E j \in DOMAIN calls \ {i} :
    \/ calls[j].pc = "backfill" /\ \E r \in calls[j].read : r[1][1] = t
    \/ calls[j].pc = "delete" /\ \E m \in calls[j].read : m[2] = t

\* The other sessions, the tenant, and by cascade all that belongs to it.
DeleteTenant(i) ==
  LET t == calls[i].at[1]
      moved == {x \in Session : \E m \in calls[i].read : m[1] = x}
      to(x) == (CHOOSE m \in calls[i].read : m[1] = x)[2]
  IN /\ calls[i].pc = "delete" /\ t \in tenants /\ ~Referred(t, i) /\ End(i)
     /\ \A x \in Session \ moved : sessions[x].tenant = t => ~Held(x)
     /\ sessions' = [x \in Session |->
          CASE x \in moved -> [sessions[x] EXCEPT !.tenant = to(x), !.guest = FALSE]
            [] sessions[x].tenant = t /\ x \notin moved -> NoSession
            [] OTHER -> sessions[x]]
     /\ tenants' = tenants \ {t} /\ seeded' = seeded \ {t} /\ teams' = teams \ {t}
     /\ groups' = {r \in groups : r[1][1] # t}
     /\ left' = left \cup {p \in Pair : p[1] = t /\ member[p] # None}
     /\ member' = [p \in Pair |-> IF p[1] = t THEN None ELSE member[p]]
     /\ Same /\ UNCHANGED unsure

\* Another deletion was first, or two wait for each other and the database ends one.
DeletionEnds(i) ==
  /\ calls[i].pc = "delete" /\ End(i)
  /\ \/ calls[i].at[1] \notin tenants
     \/ /\ Referred(calls[i].at[1], i)
        /\ \E j \in DOMAIN calls \ {i} : calls[j].pc = "delete" /\ Referred(calls[j].at[1], j)
  /\ Same /\ UNCHANGED <<rows, history>>

\* A transaction leaves nothing, the other calls what they had done.
CallFails(i) ==
  /\ failures < MaxFailures /\ failures' = failures + 1 /\ End(i)
  /\ unsure' = IF calls[i].pc \in {"swap", "grant", "join", "leave"}
               THEN unsure \cup {calls[i].at} ELSE unsure
  /\ UNCHANGED <<setup, rows, left, started>>

-----------------------------------------------------------------------------

Users(x) ==
  \E u \in User :
    \/ StartRemove(x, u)
    \/ \E role \in Role : StartAdd(x, u, role)
    \/ \E role \in Role \cup {None}, custom \in {None, Team, "nothing"} : StartPatch(x, u, role, custom)
Tenants(x) == \E t \in Tenant : StartSwitch(x, t) \/ CreateTenant(x, t) \/ StartDelete(x, t)

CallStep(i) ==
  \/ SetupAdmin(i) \/ WriteConfig(i) \/ EnsureCoreSchema(i)
  \/ UpdateRole(i) \/ DropBuiltin(i) \/ GrantBuiltin(i) \/ ClearCustom(i) \/ GrantCustom(i)
  \/ UpsertMember(i) \/ Join(i) \/ DeleteGroups(i) \/ DeleteMembership(i)
  \/ CreateSession(i) \/ UpdateSessionTenant(i) \/ MoveSessions(i) \/ DeleteTenant(i) \/ DeletionEnds(i)

Next ==
  \/ \E u \in User : StartSetup(u) \/ StartLogin(u) \/ StartOAuth(u)
  \/ \E x \in Session : Users(x) \/ Tenants(x) \/ CreateGroup(x) \/ DeleteGroup(x)
  \/ StartBoot
  \/ \E i \in DOMAIN calls : CallStep(i) \/ CallFails(i)

Spec == Init /\ [][Next]_vars

\* Calls go on, and processes are started again now and then.
Fairness ==
  /\ WF_vars(StartBoot)
  /\ \A i \in 1..MaxActive : WF_vars(i \in DOMAIN calls /\ CallStep(i))

FairSpec == Spec /\ Fairness

-----------------------------------------------------------------------------
(* Properties                                                              *)

Idle(p) == \A i \in DOMAIN calls : calls[i].at \notin {p, AboutAll}

TypeOK ==
  /\ setup \in BOOLEAN /\ tenants \subseteq Tenant
  /\ seeded \subseteq tenants /\ teams \subseteq tenants
  /\ member \in [Pair -> Role \cup {None}] /\ \A p \in Pair : member[p] # None => p[1] \in tenants
  /\ groups \subseteq Pair \X (Role \cup {Team})
  /\ \A r \in groups : r[1][1] \in IF r[2] = Team THEN teams ELSE seeded
  /\ \A x \in Session : sessions[x] = NoSession
       \/ sessions[x] \in [user : User, tenant : tenants, guest : BOOLEAN]
  /\ Len(calls) <= MaxActive
  /\ unsure \subseteq Pair /\ left \subseteq Pair
  /\ started \in 0..MaxCalls /\ failures \in 0..MaxFailures

\* The built-in groups of a member follow his role: a change of the role that met
\* no other call swaps the group, a removal leaves none, and what a boot adds fits.
GroupsFollowRole ==
  \A p \in Pair : p \notin unsure /\ Idle(p) => GroupsOf(p, Role) \subseteq {<<p, member[p]>>}

\* Deletion, creation and change of tenants never strand a session: one that does
\* not resolve is of somebody whose membership ended, or of a guest.
SessionsResolve ==
  \A x \in Session :
    sessions[x] = NoSession \/ sessions[x].guest \/ Resolves(x) \/ At(x) \in left

\* Whatever calls met or failed half way, in the end a member may do at least what
\* his role may.
AccessComesBack ==
  \A p \in Pair : []<>(member[p] = None \/ PermissionsForRole(member[p]) \subseteq SessionPermissions(p))
=============================================================================
