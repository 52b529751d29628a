SPECIFICATION Spec
CONSTANTS
  lib = lib
  app = app
  base = base
  main = main
  other = other
  Service = {lib, app}
  Deps <- OneDep
  Repo <- OneDepRepo
  Locked = {}
  New = {}
  Pass = {p1, p2}
  MaxCommit = 2
  MaxManual = 1
  MaxFaults = 0
SYMMETRY PassSymmetry
ACTION_CONSTRAINT Bound
INVARIANTS
  SameCommit
  PolledForward
