SPECIFICATION FairSpec
CONSTANTS
  Worker = {w1, w2}
  Service = {s1, s2}
  Sha = {c1}
  NoSha = NoSha
  Limits = {1}
  LateHeartbeats = FALSE
  MaxRequests = 2
  MaxFaults = 2
INVARIANTS
  RunningWithinLimit
  BuildingHoldsItsRow
  ExclusiveBuilding
  RetryDoesNotLoop
PROPERTY EveryBuildIsAnswered
