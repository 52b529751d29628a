---------------------------- MODULE MCPlatform -----------------------------
(* Instances of Accounts and of Incidents, which share no state: a         *)
(* behaviour of the run is one of either, and the other one rests.         *)
EXTENDS Platform, TLC

CONSTANTS t1, t2, u1, u2

VARIABLE scope

all == <<vars, incidentsVars, scope>>

Members(a, b, c, d) ==
  <<t1, u1>> :> a @@ <<t1, u2>> :> b @@ <<t2, u1>> :> c @@ <<t2, u2>> :> d
Open(u, t) == [user |-> u, tenant |-> t, guest |-> FALSE]

\* Two tenants: one has its groups, the other one a custom group and waits for
\* the next boot.
Running ==
  /\ sessions = <<Open(u1, t1), Open(u2, t2), NoSession>>
  /\ seeded = {t1} /\ teams = {t2}
  /\ member \in {Members("owner", None, "owner", "viewer"),
                 Members("viewer", None, "owner", "viewer")}

Nothing == app = "absent" /\ runtime = "docker" /\ own.written = MaxOwn

\* The agent's own log and the log of the service are looked at apart.
MCInit ==
  /\ Init /\ IncidentsInit
  /\ \/ scope = "accounts" /\ Nothing /\ (setup \/ Running)
     \/ scope = "incidents" /\ setup /\ (own.written = MaxOwn \/ app = "absent")

\* Frames meet on the platform, whatever the host they come from: two are in progress
\* at once in the instances with Docker, beside a fault or an edit of a user, and one
\* in those with Kubernetes, which has the larger stream.
Bound == InFlight' > 1 => runtime = "docker" /\ (faults' = 0 \/ events' = 0)

MCNext ==
  \/ scope = "accounts" /\ Next /\ UNCHANGED <<incidentsVars, scope>>
  \/ scope = "incidents" /\ IncidentsNext /\ Bound /\ UNCHANGED <<vars, scope>>

\* Each is fair when it does not rest.
MCSpec ==
  /\ MCInit /\ [][MCNext]_all
  /\ []<>(scope = "incidents") \/ Fairness
  /\ []<>(scope = "accounts") \/ IncidentsFairness
=============================================================================
