---------------------------- MODULE MCBuildChain ----------------------------
\* Dependency graphs for the model checking of BuildChain.  lib and app live
\* in one repository, app depends on lib.
EXTENDS BuildChain, TLC

CONSTANTS lib, app, base, main, other

\* base is a second dep of app in the same repository.
TwoDeps == app :> {lib, base} @@ lib :> {} @@ base :> {}
TwoDepsRepo == app :> main @@ lib :> main @@ base :> main

OneDep == app :> {lib} @@ lib :> {}
OneDepRepo == app :> main @@ lib :> main

\* base is a dep of app in another repository.
Mixed == TwoDeps
MixedRepo == app :> main @@ lib :> main @@ base :> other

PassSymmetry == Permutations(Pass)

\* Two passes meet while nothing runs and nobody started a build by hand, and once one
\* has overlooked what the other one queued, only polls and pushes follow.
Busy == {p \in Pass : passes[p].at # "idle"}
Met == \E b \in Ids : builds[b].met
Bound ==
  /\ Cardinality(Busy') > 1 \/ Met' => runs' = {} /\ manual' = 0
  /\ manual' # manual => Busy = {}
=============================================================================
