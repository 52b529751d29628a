----------------------------- MODULE MCRedeploy -----------------------------
(* Instances of Redeploy.                                                  *)
EXTENDS Redeploy

CONSTANTS a1, dev, prod, kaiad, n1

Deploys(ns, n, domains) == [ns |-> ns, n |-> n, domains |-> domains]

\* Two builds. The first uses one namespace in both environments, with a replica
\* more in prod; the second drops the domains, moves dev to the default namespace
\* and leaves prod a replica less.
TwoBuilds ==
  [b \in Build |-> [e \in Env |->
    CASE e = dev -> IF b = 1 THEN Deploys(n1, 1, TRUE) ELSE Deploys(kaiad, 1, FALSE)
      [] e = prod -> IF b = 1 THEN Deploys(n1, 2, TRUE) ELSE Deploys(n1, 1, FALSE)]]
=============================================================================
