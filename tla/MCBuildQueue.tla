---------------------------- MODULE MCBuildQueue ----------------------------
\* Model checking of BuildQueue: symmetry of workers and services for the
\* runs that check safety only.
EXTENDS BuildQueue, TLC

Symmetric == Permutations(Worker) \cup Permutations(Service) \cup Permutations(Sha)
=============================================================================
