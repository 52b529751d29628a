SPECIFICATION FairSpec
CONSTANTS
  lib = lib
  app = app
  base = base
  main = main
  other = other
  Service = {lib, base, app}
  Deps <- Mixed
  Repo <- MixedRepo
  Locked = {}
  New = {}
  Pass = {p1}
  MaxCommit = 1
  MaxManual = 0
  MaxFaults = 1
INVARIANTS
  TypeOK
  QueuedOnce
PROPERTIES
  DependentsCatchUp
  InTurn
